----------------------------- MODULE ThreadPool -----------------------------
(***************************************************************************)
(* ThreadPool of utils/thread_pool.hpp: worker threads that take tasks     *)
(* from a queue under queue_mutex and sleep on a condition variable when   *)
(* there is none.  A critical section is one step; enqueue and join notify *)
(* after they have released the mutex, in a step of their own, and a       *)
(* sleeping worker may wake up without being notified.                     *)
(*                                                                         *)
(* SophosServer's parallel searches use such pools: other threads (its RSA *)
(* threads, or the workers of another pool) submit, the searching thread   *)
(* owns the pool and joins it.                                             *)
(***************************************************************************)
EXTENDS Naturals, Sequences, FiniteSets

CONSTANTS
    Workers,      \* the threads of the pool
    Submitters,   \* the threads that call enqueue
    Tasks         \* the tasks they submit, each at most once

ASSUME PoolAssumption == Workers # {}

VARIABLES
    tasks,      \* the queue
    stop,       \* set by join
    pc,         \* where each worker is: "start", "check", "wait", "run", "exit"
    running,    \* the task of each worker that is at "run"
    notifying,  \* the submitters between the mutex and notify_one
    owner,      \* "up", then in join: "stopping", "joining", "joined"
    accepted,   \* history: the tasks enqueue took, in order
    started,    \* history: the tasks workers took, in order
    done,       \* history: the tasks that were run to the end
    rejected    \* history: the tasks for which enqueue threw

poolVars == <<tasks, stop, pc, running, notifying, owner, accepted, started, done, rejected>>
queue == <<tasks, accepted, rejected, notifying>>

Asleep == {w \in Workers : pc[w] = "wait"}
Elements(s) == {s[i] : i \in DOMAIN s}

PoolInit ==
    /\ tasks = <<>> /\ accepted = <<>> /\ started = <<>>
    /\ stop = FALSE /\ owner = "up"
    /\ pc = [w \in Workers |-> "start"]
    /\ running \in [Workers -> Tasks]    \* not meaningful before "run"
    /\ notifying = {} /\ done = {} /\ rejected = {}

-----------------------------------------------------------------------------
\* The submitters.

enqueueSilent(s, t) ==                                \* mutant
    /\ s \notin notifying
    /\ t \notin Elements(accepted) \cup rejected
    /\ ~stop
    /\ tasks' = Append(tasks, t) /\ accepted' = Append(accepted, t)
    /\ UNCHANGED notifying
    /\ UNCHANGED <<stop, pc, running, owner, started, done, rejected>>

enqueueInFront(s, t) ==                               \* mutant
    /\ s \notin notifying
    /\ t \notin Elements(accepted) \cup rejected
    /\ ~stop
    /\ tasks' = <<t>> \o tasks /\ accepted' = Append(accepted, t)
    /\ notifying' = notifying \cup {s}
    /\ UNCHANGED <<stop, pc, running, owner, started, done, rejected>>

enqueueStopped(s, t) ==                               \* mutant
    /\ s \notin notifying
    /\ t \notin Elements(accepted) \cup rejected
    /\ tasks' = Append(tasks, t) /\ accepted' = Append(accepted, t)
    /\ notifying' = notifying \cup {s}
    /\ UNCHANGED <<stop, pc, running, owner, started, done, rejected>>

\* enqueue up to the end of the critical section; it throws on a stopped pool.
enqueue(s, t) ==
    /\ s \notin notifying
    /\ t \notin Elements(accepted) \cup rejected
    /\ IF stop
       THEN /\ rejected' = rejected \cup {t}
            /\ UNCHANGED <<tasks, accepted, notifying>>
       ELSE /\ tasks' = Append(tasks, t)
            /\ accepted' = Append(accepted, t)
            /\ notifying' = notifying \cup {s}
            /\ UNCHANGED rejected
    /\ UNCHANGED <<stop, pc, running, owner, started, done>>

\* condition.notify_one wakes one sleeping worker, if there is one.
notifyOne(s) ==
    /\ s \in notifying
    /\ notifying' = notifying \ {s}
    /\ \/ Asleep = {} /\ UNCHANGED pc
       \/ \E w \in Asleep : pc' = [pc EXCEPT ![w] = "check"]
    /\ UNCHANGED <<tasks, stop, running, owner, accepted, started, done, rejected>>

-----------------------------------------------------------------------------
\* The workers.

register(w) ==
    /\ pc[w] = "start"
    /\ pc' = [pc EXCEPT ![w] = "check"]
    /\ UNCHANGED <<queue, stop, running, owner, started, done>>

takeUnlessStopped(w) ==                                  \* mutant
    /\ pc[w] = "check"
    /\ \/ /\ tasks = <<>> /\ ~stop
          /\ pc' = [pc EXCEPT ![w] = "wait"]
          /\ UNCHANGED <<tasks, running, started>>
       \/ /\ stop
          /\ pc' = [pc EXCEPT ![w] = "exit"]
          /\ UNCHANGED <<tasks, running, started>>
       \/ /\ tasks # <<>> /\ ~stop
          /\ running' = [running EXCEPT ![w] = Head(tasks)]
          /\ started' = Append(started, Head(tasks))
          /\ tasks' = Tail(tasks)
          /\ pc' = [pc EXCEPT ![w] = "run"]
    /\ UNCHANGED <<stop, notifying, owner, accepted, done, rejected>>

\* The critical section of the loop: the predicate of condition.wait, the return
\* of a worker of a stopped pool, or the task taken from the queue.
take(w) ==
    /\ pc[w] = "check"
    /\ \/ /\ tasks = <<>> /\ ~stop
          /\ pc' = [pc EXCEPT ![w] = "wait"]
          /\ UNCHANGED <<tasks, running, started>>
       \/ /\ tasks = <<>> /\ stop
          /\ pc' = [pc EXCEPT ![w] = "exit"]
          /\ UNCHANGED <<tasks, running, started>>
       \/ /\ tasks # <<>>
          /\ running' = [running EXCEPT ![w] = Head(tasks)]
          /\ started' = Append(started, Head(tasks))
          /\ tasks' = Tail(tasks)
          /\ pc' = [pc EXCEPT ![w] = "run"]
    /\ UNCHANGED <<stop, notifying, owner, accepted, done, rejected>>

\* task() returns.
run(w) ==
    /\ pc[w] = "run"
    /\ done' = done \cup {running[w]}
    /\ pc' = [pc EXCEPT ![w] = "check"]
    /\ UNCHANGED <<queue, stop, running, owner, started>>

\* The condition variable may wake a worker for no reason.
spuriousWakeup(w) ==
    /\ pc[w] = "wait"
    /\ pc' = [pc EXCEPT ![w] = "check"]
    /\ UNCHANGED <<queue, stop, running, owner, started, done>>

-----------------------------------------------------------------------------
\* The owner, in join or in the destructor, which does the same.

join ==
    /\ owner = "up"
    /\ stop' = TRUE
    /\ owner' = "stopping"
    /\ UNCHANGED <<queue, pc, running, started, done>>

notifyAllOne ==                                          \* mutant
    /\ owner = "stopping"
    /\ owner' = "joining"
    /\ \/ Asleep = {} /\ UNCHANGED pc
       \/ \E w \in Asleep : pc' = [pc EXCEPT ![w] = "check"]
    /\ UNCHANGED <<queue, stop, running, started, done>>

notifyAll ==
    /\ owner = "stopping"
    /\ owner' = "joining"
    /\ pc' = [w \in Workers |-> IF pc[w] = "wait" THEN "check" ELSE pc[w]]
    /\ UNCHANGED <<queue, stop, running, started, done>>

joinReturn ==
    /\ owner = "joining"
    /\ \A w \in Workers : pc[w] = "exit"
    /\ owner' = "joined"
    /\ UNCHANGED <<queue, stop, pc, running, started, done>>

PoolNext ==
    \/ \E s \in Submitters : notifyOne(s) \/ \E t \in Tasks : enqueue(s, t)
    \/ \E w \in Workers : register(w) \/ take(w) \/ run(w) \/ spuriousWakeup(w)
    \/ join \/ notifyAll \/ joinReturn

\* A thread that can go on eventually does, and tasks terminate.  Nobody has to
\* submit a task or to join the pool, and no thread has to wake up for no reason.
PoolFairness ==
    /\ \A s \in Submitters : WF_poolVars(notifyOne(s))
    /\ \A w \in Workers : WF_poolVars(register(w) \/ take(w) \/ run(w))
    /\ WF_poolVars(notifyAll) /\ WF_poolVars(joinReturn)

PoolSpec == PoolInit /\ [][PoolNext]_poolVars /\ PoolFairness

-----------------------------------------------------------------------------
\* Types of the pool's state and of the histories.
PoolTypeOK ==
    /\ tasks \in Seq(Tasks) /\ accepted \in Seq(Tasks) /\ started \in Seq(Tasks)
    /\ stop \in BOOLEAN
    /\ pc \in [Workers -> {"start", "check", "wait", "run", "exit"}]
    /\ running \in [Workers -> Tasks]
    /\ notifying \subseteq Submitters
    /\ owner \in {"up", "stopping", "joining", "joined"}
    /\ done \subseteq Tasks /\ rejected \subseteq Tasks

\* No accepted task is lost, run twice or overtaken: the tasks the workers took and
\* those in the queue are, in order, the tasks enqueue accepted.
InOrder == accepted = started \o tasks

\* No wakeup is lost although enqueue notifies after it unlocked the mutex: while a
\* task is queued, some worker is awake or some submitter is about to notify.
NoLostWakeup ==
    tasks # <<>> => notifying # {} \/ \E w \in Workers : pc[w] \notin {"wait", "exit"}

\* join cannot hang on a sleeping worker: when it starts to join the threads, none
\* is asleep, and none will fall asleep again.
NoSleeperAfterJoin == owner \in {"joining", "joined"} => Asleep = {}

\* When join returns every task that enqueue accepted has been run to the end.
JoinedMeansDone == owner = "joined" => Elements(accepted) \subseteq done

\* The pool as its users see it.
Abstract ==
    [queue   |-> tasks,
     running |-> [w \in {v \in Workers : pc[v] = "run"} |-> running[w]],
     phase   |-> CASE ~stop -> "open"
                   [] stop /\ owner # "joined" -> "closed"
                   [] stop /\ owner = "joined" -> "left"]
Pool == INSTANCE TaskPool WITH pool <- Abstract

\* Mutex, condition variable and sleeping workers implement the pool that the
\* parallel searches rely on: tasks begin in the order of enqueue, one per worker,
\* none is accepted once join has set stop, and join returns only when nothing is
\* queued or running.
ImplementsPool == Pool!Spec

\* Every task that enqueue accepts is eventually run to the end, whether or not the
\* pool is joined.
EveryTaskRuns == \A t \in Tasks : t \in Elements(accepted) ~> t \in done

\* join returns.
JoinReturns == stop ~> owner = "joined"
=============================================================================
