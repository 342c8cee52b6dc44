------------------------------ MODULE TaskPool ------------------------------
(***************************************************************************)
(* What a thread pool promises to the code that uses it: tasks are begun   *)
(* in the order they were submitted, a worker runs one task at a time, a   *)
(* closed pool takes no more tasks, and whoever joins the pool goes on     *)
(* only when nothing is queued or running.  No mutex, no condition         *)
(* variable, no sleeping.  ThreadPool implements this specification, and   *)
(* the parallel searches use pools through its operators.                  *)
(***************************************************************************)
EXTENDS Naturals, Sequences

CONSTANTS
    Workers,   \* the threads of the pool
    Tasks      \* what they can be given

VARIABLE pool  \* the pool: queue, running (by busy worker), phase

NewPool == [queue |-> <<>>, running |-> [w \in {} |-> 0], phase |-> "open"]

\* The pool after each operation, and when a worker may begin or the owner leave.
IsOpen(p) == p.phase = "open"
Submitted(p, t) == IF IsOpen(p) THEN [p EXCEPT !.queue = Append(@, t)] ELSE p
Idle(p, w) == w \notin DOMAIN p.running
CanBegin(p, w) == Idle(p, w) /\ p.queue # <<>> /\ p.phase # "left"
Begun(p, w) ==
    [queue   |-> Tail(p.queue),
     running |-> [v \in DOMAIN p.running \cup {w} |->
                     IF v = w THEN Head(p.queue) ELSE p.running[v]],
     phase   |-> p.phase]
Ended(p, w) == [p EXCEPT !.running = [v \in DOMAIN @ \ {w} |-> @[v]]]
Closed(p) == [p EXCEPT !.phase = "closed"]
CanLeave(p) == p.phase = "closed" /\ p.queue = <<>> /\ DOMAIN p.running = {}
Left(p) == [p EXCEPT !.phase = "left"]

Init == pool = NewPool

Next ==
    \/ \E t \in Tasks : pool' = Submitted(pool, t)
    \/ \E w \in Workers : CanBegin(pool, w) /\ pool' = Begun(pool, w)
    \/ \E w \in Workers : ~Idle(pool, w) /\ pool' = Ended(pool, w)
    \/ IsOpen(pool) /\ pool' = Closed(pool)
    \/ CanLeave(pool) /\ pool' = Left(pool)

Spec == Init /\ [][Next]_pool
=============================================================================
