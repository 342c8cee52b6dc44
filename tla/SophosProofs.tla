---------------------------- MODULE SophosProofs ----------------------------
(***************************************************************************)
(* The Sophos engine: its thread pool, the parallel searches that run on   *)
(* such pools, and Fides, whose updates and searches it carries.           *)
(*                                                                         *)
(* ThreadPool, with any number of workers, submitters and tasks, loses     *)
(* neither a task nor a wakeup, every accepted task is done when join      *)
(* returns, and it implements TaskPool.                                    *)
(*                                                                         *)
(* The searches, which use pools as TaskPool describes them, for chains of *)
(* any length, any number of RSA threads and any set of workers: a pool is *)
(* stopped only when nothing can enqueue on it any more, every token of    *)
(* the chain is delivered exactly once, and nothing touches the results    *)
(* after the search has returned.                                          *)
(*                                                                         *)
(* Fides on a single machine, for every set of keywords and documents,     *)
(* either table and either mode: what the server holds of a keyword is the *)
(* newest part of the client's token chain, without a hole, and the        *)
(* program implements SSEIndex.                                            *)
(***************************************************************************)
EXTENDS ThreadPool, SophosParallel, Fides, FiniteSetTheorems, SequenceTheorems, TLAPS

-----------------------------------------------------------------------------
\* The thread pool.

\* A worker leaves its loop only when the pool is stopped and the queue is empty.
ExitDrained == \A w \in Workers : pc[w] = "exit" => stop /\ tasks = <<>>

\* join sets stop, and returns when every worker has left its loop.
OwnerStop ==
    /\ stop <=> owner # "up"
    /\ owner = "joined" => \A w \in Workers : pc[w] = "exit"

\* A task that was taken is being run, or was.
StartedRun ==
    \A i \in DOMAIN started :
        started[i] \in done \/ \E w \in Workers : pc[w] = "run" /\ running[w] = started[i]

PoolIInv == /\ PoolTypeOK /\ InOrder /\ NoLostWakeup /\ NoSleeperAfterJoin
            /\ ExitDrained /\ OwnerStop /\ StartedRun

\* Moving the head of one sequence to the end of another does not change their
\* concatenation.
LEMMA MoveHead ==
    ASSUME NEW S, NEW s \in Seq(S), NEW q \in Seq(S), q # <<>>
    PROVE  /\ Append(s, Head(q)) \o Tail(q) = s \o q
           /\ Head(q) \in S /\ Tail(q) \in Seq(S)
OBVIOUS

\* The initial states satisfy the inductive invariant.
LEMMA InitPoolIInv == PoolInit => PoolIInv
<1> SUFFICES ASSUME PoolInit PROVE PoolIInv
  OBVIOUS
<1> USE DEF PoolInit
<1>1. PoolTypeOK
  <2>1. <<>> \in Seq(Tasks)
    OBVIOUS
  <2> QED
    BY <2>1 DEF PoolTypeOK
<1>2. InOrder /\ StartedRun
  BY DEF InOrder, StartedRun
<1>3. NoLostWakeup /\ NoSleeperAfterJoin /\ ExitDrained /\ OwnerStop
  BY DEF NoLostWakeup, NoSleeperAfterJoin, ExitDrained, OwnerStop
<1> QED
  BY <1>1, <1>2, <1>3 DEF PoolIInv

\* A step of a submitter keeps the inductive invariant.
LEMMA EnqueueIInv ==
    ASSUME PoolIInv, NEW s \in Submitters, NEW t \in Tasks, enqueue(s, t)
    PROVE  PoolIInv'
<1> USE DEF PoolIInv
<1>1. PoolTypeOK'
  <2>1. Append(tasks, t) \in Seq(Tasks) /\ Append(accepted, t) \in Seq(Tasks)
    BY DEF PoolTypeOK
  <2>2. /\ tasks' \in Seq(Tasks) /\ accepted' \in Seq(Tasks)
        /\ notifying' \subseteq Submitters /\ rejected' \subseteq Tasks
    BY <2>1 DEF PoolTypeOK, enqueue
  <2> QED
    BY <2>2 DEF PoolTypeOK, enqueue
<1>2. InOrder'
  <2>1. CASE stop
    BY <2>1 DEF enqueue, InOrder
  <2>2. CASE ~stop
    <3>1. accepted' = Append(started \o tasks, t) /\ started \o tasks' = started \o Append(tasks, t)
      BY <2>2 DEF enqueue, InOrder
    <3>2. Append(started \o tasks, t) = started \o Append(tasks, t)
      <4>1. started \in Seq(Tasks) /\ tasks \in Seq(Tasks)
        BY DEF PoolTypeOK
      <4> QED
        BY <4>1
    <3>3. started' = started
      BY DEF enqueue
    <3> QED
      BY <3>1, <3>2, <3>3 DEF InOrder
  <2> QED
    BY <2>1, <2>2
<1>3. NoLostWakeup'
  BY DEF enqueue, NoLostWakeup
<1>4. NoSleeperAfterJoin' /\ OwnerStop'
  BY DEF enqueue, NoSleeperAfterJoin, OwnerStop, Asleep
<1>5. ExitDrained'
  BY DEF enqueue, ExitDrained
<1>6. StartedRun'
  BY DEF enqueue, StartedRun
<1> QED
  BY <1>1, <1>2, <1>3, <1>4, <1>5, <1>6

\* notify_one keeps the inductive invariant: it leaves a worker awake if there is a
\* task for one.
LEMMA NotifyOneIInv ==
    ASSUME PoolIInv, NEW s \in Submitters, notifyOne(s)
    PROVE  PoolIInv'
<1> USE DEF PoolIInv
<1>1. PoolTypeOK'
  BY DEF PoolTypeOK, notifyOne, Asleep
<1>2. InOrder'
  BY DEF InOrder, notifyOne
<1>3. NoLostWakeup'
  <2>1. CASE Asleep = {} /\ UNCHANGED pc
    BY <2>1, PoolAssumption DEF notifyOne, NoLostWakeup, Asleep, ExitDrained
  <2>2. ASSUME NEW w \in Asleep, pc' = [pc EXCEPT ![w] = "check"]
        PROVE  NoLostWakeup'
    BY <2>2 DEF NoLostWakeup, Asleep, PoolTypeOK
  <2> QED
    BY <2>1, <2>2 DEF notifyOne
<1>4. NoSleeperAfterJoin' /\ OwnerStop' /\ ExitDrained' /\ StartedRun'
  BY DEF notifyOne, NoSleeperAfterJoin, OwnerStop, ExitDrained, StartedRun, Asleep, PoolTypeOK
<1> QED
  BY <1>1, <1>2, <1>3, <1>4

\* A step of a worker that only moves it to "check" keeps the inductive invariant.
LEMMA AwakeIInv ==
    ASSUME PoolIInv, NEW w \in Workers, register(w) \/ spuriousWakeup(w)
    PROVE  PoolIInv'
<1> USE DEF PoolIInv
<1>1. /\ pc[w] \in {"start", "wait"} /\ pc' = [pc EXCEPT ![w] = "check"]
      /\ UNCHANGED <<tasks, accepted, rejected, notifying, stop, running, owner, started, done>>
  BY DEF register, spuriousWakeup, queue
<1>2. PoolTypeOK' /\ InOrder' /\ NoLostWakeup'
  BY <1>1 DEF PoolTypeOK, InOrder, NoLostWakeup
<1>3. NoSleeperAfterJoin' /\ OwnerStop' /\ ExitDrained' /\ StartedRun'
  BY <1>1 DEF NoSleeperAfterJoin, OwnerStop, ExitDrained, StartedRun, Asleep, PoolTypeOK
<1> QED
  BY <1>2, <1>3

\* The critical section of a worker keeps the inductive invariant.
LEMMA TakeIInv ==
    ASSUME PoolIInv, NEW w \in Workers, take(w)
    PROVE  PoolIInv'
<1> USE DEF PoolIInv
<1>1. CASE tasks # <<>>
  <2>1. /\ running' = [running EXCEPT ![w] = Head(tasks)]
        /\ started' = Append(started, Head(tasks))
        /\ tasks' = Tail(tasks) /\ pc' = [pc EXCEPT ![w] = "run"] /\ pc[w] = "check"
        /\ UNCHANGED <<stop, notifying, owner, accepted, done, rejected>>
    BY <1>1 DEF take
  <2>2. Head(tasks) \in Tasks /\ Tail(tasks) \in Seq(Tasks)
        /\ started' \o tasks' = started \o tasks
    BY <1>1, <2>1, MoveHead DEF PoolTypeOK
  <2>3. PoolTypeOK' /\ InOrder'
    BY <2>1, <2>2 DEF PoolTypeOK, InOrder
  <2>4. NoLostWakeup' /\ NoSleeperAfterJoin' /\ OwnerStop'
    BY <2>1 DEF NoLostWakeup, NoSleeperAfterJoin, OwnerStop, Asleep, PoolTypeOK
  <2>5. ExitDrained'
    BY <1>1, <2>1 DEF ExitDrained, PoolTypeOK
  <2>6. StartedRun'
    <3> SUFFICES ASSUME NEW i \in DOMAIN started'
                 PROVE  started'[i] \in done'
                        \/ \E v \in Workers : pc'[v] = "run" /\ running'[v] = started'[i]
      BY DEF StartedRun
    <3>1. CASE i \in DOMAIN started
      <4>1. started'[i] = started[i]
        BY <2>1, <2>2, <3>1 DEF PoolTypeOK
      <4>2. \A v \in Workers : pc[v] = "run" => pc'[v] = "run" /\ running'[v] = running[v]
        BY <2>1 DEF PoolTypeOK
      <4> QED
        BY <2>1, <3>1, <4>1, <4>2 DEF StartedRun
    <3>2. CASE i \notin DOMAIN started
      <4>1. started'[i] = Head(tasks)
        BY <2>1, <2>2, <3>2 DEF PoolTypeOK
      <4> QED
        BY <2>1, <4>1 DEF PoolTypeOK
    <3> QED
      BY <3>1, <3>2
  <2> QED
    BY <2>3, <2>4, <2>5, <2>6
<1>2. CASE tasks = <<>>
  <2>1. /\ pc[w] = "check"
        /\ \/ ~stop /\ pc' = [pc EXCEPT ![w] = "wait"]
           \/ stop /\ pc' = [pc EXCEPT ![w] = "exit"]
        /\ UNCHANGED <<tasks, running, started, stop, notifying, owner, accepted, done, rejected>>
    BY <1>2 DEF take
  <2>2. PoolTypeOK' /\ InOrder' /\ NoLostWakeup'
    BY <1>2, <2>1 DEF PoolTypeOK, InOrder, NoLostWakeup
  <2>3. NoSleeperAfterJoin' /\ OwnerStop' /\ ExitDrained'
    BY <1>2, <2>1 DEF NoSleeperAfterJoin, OwnerStop, ExitDrained, Asleep, PoolTypeOK
  <2>4. StartedRun'
    BY <2>1 DEF StartedRun, PoolTypeOK
  <2> QED
    BY <2>2, <2>3, <2>4
<1> QED
  BY <1>1, <1>2

\* The end of a task keeps the inductive invariant.
LEMMA RunIInv ==
    ASSUME PoolIInv, NEW w \in Workers, run(w)
    PROVE  PoolIInv'
<1> USE DEF PoolIInv
<1>1. PoolTypeOK' /\ InOrder' /\ NoLostWakeup'
  BY DEF run, queue, PoolTypeOK, InOrder, NoLostWakeup
<1>2. NoSleeperAfterJoin' /\ OwnerStop' /\ ExitDrained'
  BY DEF run, queue, NoSleeperAfterJoin, OwnerStop, ExitDrained, Asleep, PoolTypeOK
<1>3. StartedRun'
  BY DEF run, queue, StartedRun, PoolTypeOK
<1> QED
  BY <1>1, <1>2, <1>3

\* The steps of the owner keep the inductive invariant.
LEMMA OwnerIInv ==
    ASSUME PoolIInv, join \/ notifyAll \/ joinReturn
    PROVE  PoolIInv'
<1> USE DEF PoolIInv
<1>1. CASE join
  BY <1>1 DEF join, queue, PoolTypeOK, InOrder, NoLostWakeup, NoSleeperAfterJoin, Asleep,
     ExitDrained, OwnerStop, StartedRun
<1>2. CASE notifyAll
  <2>1. PoolTypeOK' /\ InOrder' /\ NoLostWakeup'
    BY <1>2 DEF notifyAll, queue, PoolTypeOK, InOrder, NoLostWakeup
  <2>2. NoSleeperAfterJoin' /\ OwnerStop' /\ ExitDrained' /\ StartedRun'
    BY <1>2 DEF notifyAll, queue, PoolTypeOK, NoSleeperAfterJoin, Asleep, OwnerStop,
       ExitDrained, StartedRun
  <2> QED
    BY <2>1, <2>2
<1>3. CASE joinReturn
  BY <1>3 DEF joinReturn, queue, PoolTypeOK, InOrder, NoLostWakeup, NoSleeperAfterJoin, Asleep,
     ExitDrained, OwnerStop, StartedRun
<1> QED
  BY <1>1, <1>2, <1>3

\* Every step keeps the inductive invariant.
LEMMA NextPoolIInv == PoolIInv /\ [PoolNext]_poolVars => PoolIInv'
<1> SUFFICES ASSUME PoolIInv, [PoolNext]_poolVars PROVE PoolIInv'
  OBVIOUS
<1>1. CASE UNCHANGED poolVars
  BY <1>1 DEF poolVars, PoolIInv, PoolTypeOK, InOrder, NoLostWakeup, NoSleeperAfterJoin, Asleep,
     ExitDrained, OwnerStop, StartedRun
<1>2. CASE PoolNext
  BY <1>2, EnqueueIInv, NotifyOneIInv, AwakeIInv, TakeIInv, RunIInv, OwnerIInv DEF PoolNext
<1> QED
  BY <1>1, <1>2

\* In a state of the invariant, a pool that was joined has run every task.
LEMMA IInvDone == PoolIInv => JoinedMeansDone
<1> SUFFICES ASSUME PoolIInv, owner = "joined" PROVE Elements(accepted) \subseteq done
  BY DEF JoinedMeansDone
<1>1. tasks = <<>>
  BY PoolAssumption DEF PoolIInv, OwnerStop, ExitDrained
<1>2. accepted = started
  BY <1>1 DEF PoolIInv, InOrder, PoolTypeOK
<1>3. \A i \in DOMAIN started : started[i] \in done
  BY DEF PoolIInv, OwnerStop, StartedRun
<1> QED
  BY <1>2, <1>3 DEF Elements

\* The inductive invariant holds in every reachable state of the pool.
LEMMA PoolInvariance == PoolSpec => []PoolIInv
BY InitPoolIInv, NextPoolIInv, PTL DEF PoolSpec

\* For any number of threads and tasks: no accepted task is lost or overtaken, the
\* workers take them off the queue in the order enqueue accepted them.
THEOREM AcceptedInOrder == PoolSpec => []InOrder
<1>1. PoolIInv => InOrder
  BY DEF PoolIInv
<1> QED
  BY <1>1, PoolInvariance, PTL

\* For any number of threads and tasks: while a task is queued, some worker is awake
\* or some submitter is about to notify, so the task is not forgotten.
THEOREM WakeupsKept == PoolSpec => []NoLostWakeup
<1>1. PoolIInv => NoLostWakeup
  BY DEF PoolIInv
<1> QED
  BY <1>1, PoolInvariance, PTL

\* The safety of join for any number of threads and tasks: it does not wait for a
\* sleeping worker, and when it returns every accepted task has been run.
THEOREM PoolSafety == PoolSpec => [](PoolTypeOK /\ NoSleeperAfterJoin /\ JoinedMeansDone)
<1>1. PoolIInv => PoolTypeOK /\ NoSleeperAfterJoin /\ JoinedMeansDone
  BY IInvDone DEF PoolIInv
<1> QED
  BY <1>1, PoolInvariance, PTL

-----------------------------------------------------------------------------
\* The workers that are running a task, and what they run.
RunningSet == {v \in Workers : pc[v] = "run"}
RunningMap == [w \in RunningSet |-> running[w]]
Phase == IF ~stop THEN "open" ELSE IF owner = "joined" THEN "left" ELSE "closed"

\* The abstract pool, field by field.
LEMMA AbstractFields ==
    /\ Abstract = [queue |-> tasks, running |-> RunningMap, phase |-> Phase]
    /\ DOMAIN RunningMap = RunningSet
BY DEF Abstract, RunningMap, RunningSet, Phase

\* A step after which the fields are the same is a stutter of the abstract pool.
LEMMA SameFields ==
    ASSUME UNCHANGED <<tasks, RunningMap, Phase>>
    PROVE  UNCHANGED Abstract
BY DEF Abstract, RunningMap, RunningSet, Phase

\* A new pool is a new abstract pool.
LEMMA InitPool == PoolInit => Pool!Init
<1> SUFFICES ASSUME PoolInit PROVE Abstract = Pool!NewPool
  BY DEF Pool!Init
<1>1. RunningSet = {}
  BY DEF PoolInit, RunningSet
<1>2. RunningMap = [w \in {} |-> 0]
  BY <1>1 DEF RunningMap
<1>3. tasks = <<>> /\ stop = FALSE /\ (owner = "joined") = FALSE
  BY DEF PoolInit
<1> QED
  BY <1>2, <1>3, AbstractFields DEF Pool!NewPool, Phase

\* A worker that takes a task begins it in the abstract pool.
LEMMA TakePool ==
    ASSUME PoolIInv, NEW w \in Workers, take(w)
    PROVE  Pool!Next \/ UNCHANGED Abstract
<1> USE DEF PoolIInv
<1>1. CASE tasks = <<>>
  <2>1. /\ pc[w] = "check" /\ UNCHANGED <<tasks, running, stop, owner>>
        /\ \/ pc' = [pc EXCEPT ![w] = "wait"]
           \/ pc' = [pc EXCEPT ![w] = "exit"]
    BY <1>1 DEF take
  <2>2. RunningSet' = RunningSet
    BY <2>1 DEF RunningSet, PoolTypeOK
  <2> QED
    BY <2>1, <2>2, SameFields DEF RunningMap, Phase
<1>2. CASE tasks # <<>>
  <2>1. /\ running' = [running EXCEPT ![w] = Head(tasks)]
        /\ tasks' = Tail(tasks) /\ pc' = [pc EXCEPT ![w] = "run"] /\ pc[w] = "check"
        /\ UNCHANGED <<stop, owner>>
    BY <1>2 DEF take
  <2>2. w \notin RunningSet /\ RunningSet' = RunningSet \cup {w}
    BY <2>1 DEF RunningSet, PoolTypeOK
  <2>3. RunningMap' = [v \in RunningSet \cup {w} |->
                          IF v = w THEN Head(tasks) ELSE RunningMap[v]]
    BY <2>1, <2>2 DEF RunningMap, RunningSet, PoolTypeOK
  <2>4. owner # "joined"
    BY <2>1 DEF OwnerStop
  <2>5. Pool!CanBegin(Abstract, w)
    BY <1>2, <2>2, <2>4, AbstractFields DEF Pool!CanBegin, Pool!Idle, Phase
  <2>6. Abstract' = Pool!Begun(Abstract, w)
    <3>1. Abstract' = [queue |-> Tail(tasks), running |-> RunningMap', phase |-> Phase]
      BY <2>1 DEF Abstract, RunningMap, RunningSet, Phase
    <3> QED
      BY <2>3, <3>1, AbstractFields DEF Pool!Begun
  <2> QED
    BY <2>5, <2>6 DEF Pool!Next
<1> QED
  BY <1>1, <1>2

\* A task that returns ends in the abstract pool.
LEMMA RunPool ==
    ASSUME PoolIInv, NEW w \in Workers, run(w)
    PROVE  Pool!Next
<1> USE DEF PoolIInv
<1>1. /\ pc[w] = "run" /\ pc' = [pc EXCEPT ![w] = "check"]
      /\ UNCHANGED <<tasks, stop, running, owner>>
  BY DEF run, queue
<1>2. w \in RunningSet /\ RunningSet' = RunningSet \ {w}
  BY <1>1 DEF RunningSet, PoolTypeOK
<1>3. RunningMap' = [v \in RunningSet \ {w} |-> RunningMap[v]]
  BY <1>1, <1>2 DEF RunningMap
<1>4. Abstract' = [queue |-> tasks, running |-> RunningMap', phase |-> Phase]
  BY <1>1 DEF Abstract, RunningMap, RunningSet, Phase
<1>5. Abstract' = Pool!Ended(Abstract, w)
  BY <1>3, <1>4, AbstractFields DEF Pool!Ended
<1>6. ~Pool!Idle(Abstract, w)
  BY <1>2, AbstractFields DEF Pool!Idle
<1> QED
  BY <1>5, <1>6 DEF Pool!Next

\* enqueue submits its task, or leaves a closed pool as it is.
LEMMA EnqueuePool ==
    ASSUME PoolIInv, NEW s \in Submitters, NEW t \in Tasks, enqueue(s, t)
    PROVE  Pool!Next
<1>1. UNCHANGED <<stop, pc, running, owner>>
  BY DEF enqueue
<1>2. UNCHANGED RunningMap
  BY <1>1 DEF RunningMap, RunningSet
<1>3. Abstract' = [queue |-> tasks', running |-> RunningMap, phase |-> Phase]
  BY <1>1, <1>2 DEF Abstract, RunningMap, RunningSet, Phase
<1>4. tasks' = IF stop THEN tasks ELSE Append(tasks, t)
  BY DEF enqueue
<1>5. Abstract' = Pool!Submitted(Abstract, t)
  BY <1>3, <1>4, AbstractFields DEF Pool!Submitted, Pool!IsOpen, Phase
<1> QED
  BY <1>5 DEF Pool!Next

\* The owner's steps: join closes the pool, and returns from a pool that is idle.
LEMMA OwnerPool ==
    ASSUME PoolIInv, join \/ notifyAll \/ joinReturn
    PROVE  Pool!Next \/ UNCHANGED Abstract
<1> USE DEF PoolIInv
<1>1. CASE join
  <2>1. stop' = TRUE /\ owner # "joined" /\ owner' # "joined"
        /\ UNCHANGED <<tasks, pc, running>>
    BY <1>1 DEF join, queue
  <2>2. Abstract' = [queue |-> tasks, running |-> RunningMap, phase |-> "closed"]
    BY <2>1 DEF Abstract, RunningMap, RunningSet, Phase
  <2>3. Abstract' = Pool!Closed(Abstract)
    BY <2>2, AbstractFields DEF Pool!Closed
  <2>4. Pool!IsOpen(Abstract)
    BY <1>1, AbstractFields DEF join, OwnerStop, Pool!IsOpen, Phase
  <2> QED
    BY <2>3, <2>4 DEF Pool!Next
<1>2. CASE notifyAll
  <2>1. owner # "joined" /\ owner' # "joined" /\ UNCHANGED <<tasks, stop, running>>
        /\ pc' = [w \in Workers |-> IF pc[w] = "wait" THEN "check" ELSE pc[w]]
    BY <1>2 DEF notifyAll, queue
  <2>2. RunningSet' = RunningSet
    BY <2>1 DEF RunningSet, PoolTypeOK
  <2> QED
    BY <2>1, <2>2, SameFields DEF RunningMap, Phase
<1>3. CASE joinReturn
  <2>1. owner' = "joined" /\ owner = "joining" /\ UNCHANGED <<tasks, stop, pc, running>>
        /\ \A w \in Workers : pc[w] = "exit"
    BY <1>3 DEF joinReturn, queue
  <2>2. RunningSet = {} /\ stop /\ tasks = <<>>
    BY <2>1, PoolAssumption DEF RunningSet, ExitDrained
  <2>3. Pool!CanLeave(Abstract)
    BY <2>1, <2>2, AbstractFields DEF Pool!CanLeave, Phase
  <2>4. Abstract' = [queue |-> tasks, running |-> RunningMap, phase |-> "left"]
    BY <2>1, <2>2 DEF Abstract, RunningMap, RunningSet, Phase
  <2>5. Abstract' = Pool!Left(Abstract)
    BY <2>4, AbstractFields DEF Pool!Left
  <2> QED
    BY <2>3, <2>5 DEF Pool!Next
<1> QED
  BY <1>1, <1>2, <1>3

\* Waking up, for a reason or for none, changes nothing a user of the pool sees.
LEMMA WakePool ==
    ASSUME PoolIInv,
           (\E s \in Submitters : notifyOne(s))
           \/ (\E w \in Workers : register(w) \/ spuriousWakeup(w))
    PROVE  UNCHANGED Abstract
<1> USE DEF PoolIInv
<1>1. UNCHANGED <<tasks, stop, running, owner>>
  BY DEF notifyOne, register, spuriousWakeup, queue
<1>2. RunningSet' = RunningSet
  BY DEF notifyOne, register, spuriousWakeup, Asleep, RunningSet, PoolTypeOK
<1> QED
  BY <1>1, <1>2, SameFields DEF RunningMap, Phase

\* ThreadPool implements the pool that its users rely on, for any number of workers,
\* submitters and tasks.
THEOREM PoolRefinement == PoolSpec => ImplementsPool
<1>1. ASSUME PoolIInv, [PoolNext]_poolVars PROVE [Pool!Next]_Abstract
  <2>1. CASE UNCHANGED poolVars
    BY <2>1, SameFields DEF poolVars, Phase, RunningMap, RunningSet
  <2>2. CASE PoolNext
    BY <1>1, <2>2, EnqueuePool, TakePool, RunPool, OwnerPool, WakePool DEF PoolNext
  <2> QED
    BY <1>1, <2>1, <2>2
<1> QED
  BY <1>1, InitPool, InitPoolIInv, NextPoolIInv, PTL DEF PoolSpec, ImplementsPool, Pool!Spec

-----------------------------------------------------------------------------
\* The strides of the RSA threads.

\* The places of the chain from a on in steps of m.
Stride(a, m) == {a + j * m : j \in Nat}

\* A step of an RSA thread takes one place off its stride.
LEMMA StrideStep ==
    ASSUME NEW a \in Nat, NEW m \in Nat \ {0}
    PROVE  /\ a \in Stride(a, m)
           /\ \A c \in Stride(a, m) : c \in Nat /\ c >= a
           /\ \A c : c \in Stride(a + m, m) <=> c \in Stride(a, m) /\ c # a
<1>1. \A j \in Nat : /\ a + j * m \in Nat /\ a + j * m >= a
                     /\ (a + m) + j * m = a + (j + 1) * m
                     /\ (a + m) + j * m # a
  <2> SUFFICES ASSUME NEW j \in Nat
               PROVE  /\ a + j * m \in Nat /\ a + j * m >= a
                      /\ (a + m) + j * m = a + (j + 1) * m
                      /\ (a + m) + j * m # a
    OBVIOUS
  <2>1. j * m \in Nat
    OBVIOUS
  <2>2. (j + 1) * m = j * m + m
    OBVIOUS
  <2> QED BY <2>1, <2>2
<1>2. a \in Stride(a, m)
  <2>1. a = a + 0 * m
    OBVIOUS
  <2> QED BY <2>1 DEF Stride
<1>3. \A c \in Stride(a, m) : c \in Nat /\ c >= a
  BY <1>1 DEF Stride
<1>4. ASSUME NEW c, c \in Stride(a + m, m) PROVE c \in Stride(a, m) /\ c # a
  <2>1. PICK j \in Nat : c = (a + m) + j * m
    BY <1>4 DEF Stride
  <2>2. c = a + (j + 1) * m /\ j + 1 \in Nat /\ c # a
    BY <1>1, <2>1
  <2> QED BY <2>2 DEF Stride
<1>5. ASSUME NEW c, c \in Stride(a, m), c # a PROVE c \in Stride(a + m, m)
  <2>1. PICK j \in Nat : c = a + j * m
    BY <1>5 DEF Stride
  <2>2. j # 0
    BY <1>5, <2>1
  <2>3. j - 1 \in Nat /\ (j - 1) + 1 = j
    BY <2>2
  <2>4. c = (a + m) + (j - 1) * m
    BY <1>1, <2>1, <2>3
  <2> QED BY <2>3, <2>4 DEF Stride
<1> QED BY <1>2, <1>3, <1>4, <1>5

\* The strides from 0 to m - 1 cover the chain without overlap.
LEMMA StridesPartition ==
    ASSUME NEW m \in Nat \ {0}
    PROVE  /\ \A c \in Nat : \E t \in 0..(m - 1) : c \in Stride(t, m)
           /\ \A t, u \in 0..(m - 1) : \A c : c \in Stride(t, m) /\ c \in Stride(u, m) => t = u
<1>1. ASSUME NEW c \in Nat PROVE \E t \in 0..(m - 1) : c \in Stride(t, m)
  <2>1. /\ c % m \in 0..(m - 1) /\ c \div m \in Nat
        /\ c = (c % m) + (c \div m) * m
    OBVIOUS
  <2> QED BY <2>1 DEF Stride
<1>2. ASSUME NEW t \in 0..(m - 1), NEW u \in 0..(m - 1), NEW i \in Nat, NEW j \in Nat,
             t + i * m = u + j * m, i < j
      PROVE  FALSE
  <2>1. j = i + 1 + (j - i - 1) /\ j - i - 1 \in Nat
    BY <1>2
  <2>2. j * m = i * m + m + (j - i - 1) * m /\ (j - i - 1) * m \in Nat /\ i * m \in Nat
    BY <2>1
  <2> QED BY <1>2, <2>2
<1>3. ASSUME NEW t \in 0..(m - 1), NEW u \in 0..(m - 1), NEW c, c \in Stride(t, m), c \in Stride(u, m)
      PROVE  t = u
  <2>1. PICK i \in Nat : c = t + i * m
    BY <1>3 DEF Stride
  <2>2. PICK j \in Nat : c = u + j * m
    BY <1>3 DEF Stride
  <2>3. i = j
    BY <1>2, <2>1, <2>2
  <2>4. i * m \in Nat
    OBVIOUS
  <2> QED BY <2>1, <2>2, <2>3, <2>4
<1> QED BY <1>1, <1>3

-----------------------------------------------------------------------------
\* What the operations of a pool do to the counters it holds.

Runs(T, W) == UNION {[D -> T] : D \in SUBSET W}
PoolsOf(T, W) == [queue : Seq(T), running : Runs(T, W), phase : {"open", "closed", "left"}]

\* Counter c is queued, or in the hands of a worker; no counter is so twice.
Queued(p, c) == \E i \in DOMAIN p.queue : p.queue[i].cnt = c
Running(p, c) == \E w \in DOMAIN p.running : p.running[w].cnt = c
Holds(p, c) == Queued(p, c) \/ Running(p, c)
Single(p) ==
    /\ \A i, j \in DOMAIN p.queue : p.queue[i].cnt = p.queue[j].cnt => i = j
    /\ \A v, w \in DOMAIN p.running : p.running[v].cnt = p.running[w].cnt => v = w
    /\ \A c : ~(Queued(p, c) /\ Running(p, c))

\* A pool's parts.
LEMMA PoolParts ==
    ASSUME NEW T, NEW W, NEW p \in PoolsOf(T, W)
    PROVE  /\ p = [queue |-> p.queue, running |-> p.running, phase |-> p.phase]
           /\ p.queue \in Seq(T) /\ Len(p.queue) \in Nat /\ DOMAIN p.queue = 1..Len(p.queue)
           /\ p.running = [v \in DOMAIN p.running |-> p.running[v]]
           /\ DOMAIN p.running \subseteq W
           /\ \A v \in DOMAIN p.running : p.running[v] \in T
           /\ p.phase \in {"open", "closed", "left"}
<1>1. /\ p = [queue |-> p.queue, running |-> p.running, phase |-> p.phase]
      /\ p.queue \in Seq(T) /\ p.running \in Runs(T, W) /\ p.phase \in {"open", "closed", "left"}
  BY DEF PoolsOf
<1>2. PICK D \in SUBSET W : p.running \in [D -> T]
  BY <1>1 DEF Runs
<1>3. Len(p.queue) \in Nat /\ DOMAIN p.queue = 1..Len(p.queue)
  BY <1>1, LenProperties
<1> QED BY <1>1, <1>2, <1>3

\* A task is submitted to an open pool that does not hold its counter.
LEMMA SubmittedFacts ==
    ASSUME NEW T, NEW W, NEW p \in PoolsOf(T, W), NEW t \in T, TP!IsOpen(p)
    PROVE  LET q == TP!Submitted(p, t)
           IN  /\ q \in PoolsOf(T, W) /\ q.phase = p.phase
               /\ \A c : Holds(q, c) <=> Holds(p, c) \/ c = t.cnt
               /\ Single(p) /\ ~Holds(p, t.cnt) => Single(q)
<1> DEFINE s == p.queue
           k == Len(s)
           a == Append(s, t)
           q == TP!Submitted(p, t)
<1>1. /\ p = [queue |-> s, running |-> p.running, phase |-> p.phase]
      /\ s \in Seq(T) /\ k \in Nat /\ DOMAIN s = 1..k
      /\ p.running \in Runs(T, W) /\ p.phase \in {"open", "closed", "left"}
  BY PoolParts DEF PoolsOf
<1>2. q = [queue |-> a, running |-> p.running, phase |-> p.phase]
  BY <1>1 DEF TP!Submitted
<1>3. a \in Seq(T) /\ Len(a) = k + 1 /\ \A i \in 1..(k + 1) : a[i] = IF i = k + 1 THEN t ELSE s[i]
  BY <1>1
<1>4. DOMAIN a = 1..(k + 1)
  BY <1>3, LenProperties
<1> HIDE DEF s, k, a, q
<1>5. q.queue = a /\ q.running = p.running /\ q.phase = p.phase /\ q \in PoolsOf(T, W)
  BY <1>1, <1>2, <1>3 DEF PoolsOf
<1>6. \A i \in DOMAIN a : (i \in 1..k /\ a[i] = s[i]) \/ (i = k + 1 /\ a[i] = t)
  BY <1>1, <1>3, <1>4
<1>7. /\ \A i \in 1..k : i \in DOMAIN a /\ a[i] = s[i]
      /\ k + 1 \in DOMAIN a /\ a[k + 1] = t
  BY <1>1, <1>3, <1>4
<1>8. \A c : Queued(q, c) <=> Queued(p, c) \/ c = t.cnt
  BY <1>1, <1>5, <1>6, <1>7 DEF Queued, s
<1>9. \A c : Running(q, c) <=> Running(p, c)
  BY <1>5 DEF Running
<1>10. ASSUME Single(p), ~Holds(p, t.cnt) PROVE Single(q)
  <2>1. \A i \in 1..k : s[i].cnt # t.cnt
    BY <1>1, <1>10 DEF Holds, Queued, s
  <2>2. \A i, j \in 1..k : s[i].cnt = s[j].cnt => i = j
    BY <1>1, <1>10 DEF Single, s
  <2>3. \A i, j \in DOMAIN a : a[i].cnt = a[j].cnt => i = j
    BY <1>6, <2>1, <2>2
  <2>4. \A c : ~(Queued(q, c) /\ Running(q, c))
    BY <1>8, <1>9, <1>10 DEF Single, Holds
  <2> QED BY <1>5, <1>10, <2>3, <2>4 DEF Single
<1> QED BY <1>5, <1>8, <1>9, <1>10 DEF Holds, q

\* A worker begins the first task: the pool holds what it held.
LEMMA BegunFacts ==
    ASSUME NEW T, NEW W, NEW p \in PoolsOf(T, W), NEW w \in W, TP!CanBegin(p, w)
    PROVE  LET q == TP!Begun(p, w)
           IN  /\ q \in PoolsOf(T, W) /\ q.phase = p.phase /\ p.phase # "left"
               /\ Single(p) => Single(q) /\ \A c : Holds(q, c) <=> Holds(p, c)
<1> DEFINE s == p.queue
           k == Len(s)
           r == p.running
           a == Tail(s)
           q == TP!Begun(p, w)
           b == [v \in DOMAIN r \cup {w} |-> IF v = w THEN Head(s) ELSE r[v]]
<1>1. /\ s \in Seq(T) /\ k \in Nat /\ DOMAIN s = 1..k
      /\ DOMAIN r \subseteq W /\ \A v \in DOMAIN r : r[v] \in T
      /\ p.phase \in {"open", "closed", "left"}
  BY PoolParts, ZenonT(60)
<1>2. s # <<>> /\ w \notin DOMAIN r /\ p.phase # "left"
  BY DEF TP!CanBegin, TP!Idle
<1>3. q = [queue |-> a, running |-> b, phase |-> p.phase]
  BY DEF TP!Begun
<1>4. /\ k > 0 /\ Head(s) = s[1] /\ s[1] \in T
      /\ a \in Seq(T) /\ Len(a) = k - 1 /\ \A i \in 1..(k - 1) : a[i] = s[i + 1]
  BY <1>1, <1>2, EmptySeq, HeadTailProperties, ElementOfSeq
<1>5. DOMAIN a = 1..(k - 1)
  BY <1>4, LenProperties
<1>6. /\ DOMAIN b = DOMAIN r \cup {w} /\ b[w] = s[1] /\ \A v \in DOMAIN r : b[v] = r[v]
      /\ b \in Runs(T, W)
  <2>1. /\ DOMAIN b = DOMAIN r \cup {w} /\ b[w] = s[1] /\ \A v \in DOMAIN r : b[v] = r[v]
    BY <1>2, <1>4
  <2>2. b \in [DOMAIN r \cup {w} -> T] /\ DOMAIN r \cup {w} \in SUBSET W
    BY <1>1, <1>4
  <2> QED BY <2>1, <2>2 DEF Runs
<1> HIDE DEF s, k, r, a, b, q
<1>7. /\ q.queue = a /\ q.running = b /\ q.phase = p.phase /\ q \in PoolsOf(T, W)
  BY <1>1, <1>3, <1>4, <1>6 DEF PoolsOf
<1>8. /\ \A i \in DOMAIN a : i + 1 \in 1..k /\ a[i] = s[i + 1] /\ i + 1 # 1 /\ i \in Nat
      /\ \A i \in 1..k : i # 1 => i - 1 \in DOMAIN a /\ a[i - 1] = s[i]
      /\ 1 \in 1..k
  <2>1. ASSUME NEW i \in 1..k, i # 1 PROVE i - 1 \in DOMAIN a /\ a[i - 1] = s[i]
    <3>1. i - 1 \in 1..(k - 1) /\ (i - 1) + 1 = i
      BY <1>1, <2>1
    <3> QED BY <1>4, <1>5, <3>1
  <2> QED BY <1>1, <1>4, <1>5, <2>1
<1>9. \A c : Queued(p, c) <=> Queued(q, c) \/ c = s[1].cnt
  <2>1. \A c : Queued(p, c) <=> \E i \in 1..k : s[i].cnt = c
    BY <1>1 DEF Queued, s
  <2>2. \A c : Queued(q, c) <=> \E i \in DOMAIN a : a[i].cnt = c
    BY <1>7 DEF Queued
  <2>3. ASSUME NEW c, Queued(p, c), c # s[1].cnt PROVE Queued(q, c)
    <3>1. PICK i \in 1..k : s[i].cnt = c
      BY <2>1, <2>3
    <3>2. i - 1 \in DOMAIN a /\ a[i - 1] = s[i]
      BY <1>8, <2>3, <3>1
    <3> QED BY <2>2, <3>1, <3>2
  <2>4. ASSUME NEW c, Queued(q, c) PROVE Queued(p, c)
    <3>1. PICK i \in DOMAIN a : a[i].cnt = c
      BY <2>2, <2>4
    <3> QED BY <1>8, <2>1, <3>1
  <2>5. Queued(p, s[1].cnt)
    BY <1>8, <2>1
  <2> QED BY <2>3, <2>4, <2>5
<1>10. \A c : Running(q, c) <=> Running(p, c) \/ c = s[1].cnt
  BY <1>6, <1>7 DEF Running, r
<1>11. ASSUME Single(p) PROVE Single(q)
  <2>1. \A i, j \in 1..k : s[i].cnt = s[j].cnt => i = j
    BY <1>1, <1>11 DEF Single, s
  <2>2. /\ \A v, u \in DOMAIN r : r[v].cnt = r[u].cnt => v = u
        /\ \A v \in DOMAIN r : r[v].cnt # s[1].cnt
    BY <1>1, <1>8, <1>11 DEF Single, Queued, Running, r, s
  <2>3. ASSUME NEW i \in DOMAIN a, NEW j \in DOMAIN a, a[i].cnt = a[j].cnt PROVE i = j
    <3>1. i + 1 = j + 1 /\ i \in Nat /\ j \in Nat
      BY <1>8, <2>1, <2>3
    <3> QED BY <3>1
  <2>4. \A v, u \in DOMAIN b : b[v].cnt = b[u].cnt => v = u
    BY <1>6, <2>2
  <2>5. ~Queued(q, s[1].cnt)
    BY <1>7, <1>8, <2>1 DEF Queued
  <2>6. \A c : ~(Queued(q, c) /\ Running(q, c))
    BY <1>9, <1>10, <1>11, <2>5 DEF Single
  <2> QED BY <1>7, <2>3, <2>4, <2>6 DEF Single
<1> QED BY <1>2, <1>7, <1>9, <1>10, <1>11 DEF Holds, q

\* A worker ends its task: the pool holds that counter no more.
LEMMA EndedFacts ==
    ASSUME NEW T, NEW W, NEW p \in PoolsOf(T, W), NEW w, ~TP!Idle(p, w)
    PROVE  LET q == TP!Ended(p, w)
           IN  /\ q \in PoolsOf(T, W) /\ q.phase = p.phase /\ p.running[w] \in T
               /\ Holds(p, p.running[w].cnt)
               /\ Single(p) => Single(q) /\ \A c : Holds(q, c) <=> Holds(p, c) /\ c # p.running[w].cnt
<1> DEFINE r == p.running
           b == [v \in DOMAIN r \ {w} |-> r[v]]
           q == TP!Ended(p, w)
<1>1. /\ p = [queue |-> p.queue, running |-> r, phase |-> p.phase]
      /\ DOMAIN r \subseteq W /\ \A v \in DOMAIN r : r[v] \in T
      /\ p.queue \in Seq(T) /\ p.phase \in {"open", "closed", "left"}
  <2>1. p = [queue |-> p.queue, running |-> p.running, phase |-> p.phase]
    BY DEF PoolsOf
  <2>2. /\ DOMAIN p.running \subseteq W /\ \A v \in DOMAIN p.running : p.running[v] \in T
        /\ p.queue \in Seq(T) /\ p.phase \in {"open", "closed", "left"}
    BY PoolParts
  <2> QED BY <2>1, <2>2, Zenon
<1>2. w \in DOMAIN r
  BY DEF TP!Idle
<1>3. q = [queue |-> p.queue, running |-> b, phase |-> p.phase]
  BY <1>1 DEF TP!Ended
<1>4. b \in Runs(T, W) /\ DOMAIN b = DOMAIN r \ {w} /\ \A v \in DOMAIN b : b[v] = r[v]
  <2>1. b \in [DOMAIN r \ {w} -> T] /\ DOMAIN r \ {w} \in SUBSET W
    BY <1>1
  <2> QED BY <2>1 DEF Runs
<1> HIDE DEF r, b, q
<1>5. q.queue = p.queue /\ q.running = b /\ q.phase = p.phase /\ q \in PoolsOf(T, W)
  BY <1>1, <1>3, <1>4 DEF PoolsOf
<1>6. Running(p, r[w].cnt) /\ r[w] \in T
  BY <1>1, <1>2 DEF Running, r
<1>7. \A c : Queued(q, c) <=> Queued(p, c)
  BY <1>5 DEF Queued
<1>8. ASSUME Single(p) PROVE Single(q) /\ \A c : Holds(q, c) <=> Holds(p, c) /\ c # r[w].cnt
  <2>1. \A v, u \in DOMAIN r : r[v].cnt = r[u].cnt => v = u
    BY <1>8 DEF Single, r
  <2>2. \A c : Running(q, c) <=> Running(p, c) /\ c # r[w].cnt
    BY <1>2, <1>4, <1>5, <2>1 DEF Running, r
  <2>3. ~Queued(p, r[w].cnt)
    BY <1>6, <1>8 DEF Single
  <2>4. Single(q)
    BY <1>4, <1>5, <1>7, <1>8, <2>1, <2>2 DEF Single
  <2> QED BY <1>7, <2>2, <2>3, <2>4 DEF Holds
<1> QED BY <1>5, <1>6, <1>8 DEF Holds, r, q

-----------------------------------------------------------------------------
\* The inductive invariant.

\* The tasks of pool k: those of the last pool carry what was read for them.
StageTasks(k) ==
    {t \in TokenTasks : /\ t.cnt < addCount
                        /\ Outputs(k) /\ variant # "parallel" => t.cnt \in entries /\ t.val = Read(t.cnt)}

Shape ==
    /\ variant \in Variants /\ onDisk \in BOOLEAN
    /\ addCount \in 0..MaxCount /\ entries \subseteq 0..(addCount - 1)
    /\ n \in Nat \ {0} /\ next \in [0..(n - 1) -> Nat]
    /\ pools = [k \in 1..Stages(variant) |-> pools[k]]
    /\ \A k \in 1..Stages(variant) : pools[k] \in PoolsOf(StageTasks(k), StageWorkers)
    /\ results \in [TokenValues -> Nat]
    /\ main \in 0..(Stages(variant) + 1)

\* The searching thread has joined what is upstream of where it is.
Progress ==
    /\ main > 0 => \A t \in DOMAIN next : next[t] >= addCount
    /\ \A k \in DOMAIN pools :
          /\ main < k => pools[k].phase = "open"
          /\ main > k => pools[k].phase = "left" /\ ~Busy(pools[k])

\* A counter is on its way at one place only: on the stride of an RSA thread, in the
\* queue of a pool, or in the hands of a worker.
Ahead(c) == \E t \in DOMAIN next : c \in Stride(next[t], n)
Once ==
    /\ \A t, u \in DOMAIN next : \A c : c \in Stride(next[t], n) /\ c \in Stride(next[u], n) => t = u
    /\ \A k \in DOMAIN pools : Single(pools[k])
    /\ \A k \in DOMAIN pools : \A c : Holds(pools[k], c) => ~Ahead(c)
    /\ \A k, l \in DOMAIN pools : \A c : Holds(pools[k], c) /\ Holds(pools[l], c) => k = l

\* The results are those of the counters that are on their way no more.
Settled(c) == ~Ahead(c) /\ \A k \in DOMAIN pools : ~Holds(pools[k], c)
Delivers(c) == c \in entries \/ variant = "parallel"
DeliveredAs(v) == {c \in 0..(addCount - 1) : Settled(c) /\ Delivers(c) /\ Read(c) = v}
Counted == \A v \in TokenValues : results[v] = Cardinality(DeliveredAs(v))

ParallelIInv == Shape /\ Progress /\ Once /\ Counted

-----------------------------------------------------------------------------
\* What the variants do at their stages: only the last one outputs, and what is
\* neither output nor handed on was not in the table.
LEMMA StageFacts ==
    ASSUME variant \in Variants
    PROVE  /\ Stages(variant) \in 0..3
           /\ variant = "parallel" => Stages(variant) = 1
           /\ \A k \in 1..Stages(variant) :
                 /\ Outputs(k) <=> k = Stages(variant)
                 /\ \A t : /\ Forwards(k, t) => k + 1 \in 1..Stages(variant) /\ ~Outputs(k)
                           /\ ~Forwards(k, t) /\ ~Outputs(k) => t.cnt \notin entries
                           /\ Forwards(k, t) /\ Outputs(k + 1) => t.cnt \in entries /\ ~(variant = "full" /\ k = 1)
<1>1. \/ variant = "full" /\ Stages(variant) = 3
      \/ variant = "parallel" /\ Stages(variant) = 1
      \/ variant = "callback" /\ Stages(variant) = 2
      \/ variant \in {"light", "light_callback"} /\ Stages(variant) = 0
  BY DEF Variants, Stages
<1>2. ASSUME NEW k \in 1..Stages(variant)
      PROVE  /\ Outputs(k) <=> k = Stages(variant)
             /\ \A t : /\ Forwards(k, t) => k + 1 \in 1..Stages(variant) /\ ~Outputs(k)
                       /\ ~Forwards(k, t) /\ ~Outputs(k) => t.cnt \notin entries
                       /\ Forwards(k, t) /\ Outputs(k + 1) => t.cnt \in entries /\ ~(variant = "full" /\ k = 1)
  <2>1. CASE variant = "full" /\ Stages(variant) = 3
    BY <2>1 DEF Outputs, Forwards
  <2>2. CASE variant = "parallel" /\ Stages(variant) = 1
    BY <2>2 DEF Outputs, Forwards
  <2>3. CASE variant = "callback" /\ Stages(variant) = 2
    BY <2>3 DEF Outputs, Forwards
  <2> QED BY <1>1, <2>1, <2>2, <2>3
<1> QED BY <1>1, <1>2

\* What is read for a counter of the chain, and what the invariant says of the types.
LEMMA ShapeFacts ==
    ASSUME Shape
    PROVE  /\ DOMAIN pools = 1..Stages(variant) /\ Stages(variant) \in Nat
           /\ n \in Nat \ {0} /\ DOMAIN next = 0..(n - 1) /\ \A t \in DOMAIN next : next[t] \in Nat
           /\ addCount \in Nat /\ MaxCount \in Nat /\ addCount <= MaxCount /\ Garbage = MaxCount
           /\ 0..(addCount - 1) \subseteq Counters
           /\ \A c \in 0..(addCount - 1) : Read(c) \in TokenValues
           /\ \A k \in DOMAIN pools : /\ pools[k] \in PoolsOf(StageTasks(k), StageWorkers)
                                      /\ \A c : Holds(pools[k], c) => c \in 0..(addCount - 1)
           /\ pools = <<>> <=> Stages(variant) = 0
<1>1. Stages(variant) \in Nat /\ DOMAIN pools = 1..Stages(variant)
  BY StageFacts DEF Shape
<1>2. /\ n \in Nat \ {0} /\ DOMAIN next = 0..(n - 1) /\ \A t \in DOMAIN next : next[t] \in Nat
      /\ addCount \in Nat /\ MaxCount \in Nat /\ addCount <= MaxCount /\ Garbage = MaxCount
  BY ParallelAssumption DEF Shape, Garbage
<1>3. 0..(addCount - 1) \subseteq Counters
  BY <1>2 DEF Counters
<1>4. \A c \in 0..(addCount - 1) : Read(c) \in TokenValues
  BY <1>3 DEF Read, TokenValues
<1>5. ASSUME NEW k \in DOMAIN pools, NEW c, Holds(pools[k], c) PROVE c \in 0..(addCount - 1)
  <2>1. /\ pools[k].queue \in Seq(StageTasks(k))
        /\ \A v \in DOMAIN pools[k].running : pools[k].running[v] \in StageTasks(k)
    BY <1>1, PoolParts DEF Shape
  <2>2. \A i \in DOMAIN pools[k].queue : pools[k].queue[i] \in StageTasks(k)
    BY <2>1, LenProperties
  <2>3. PICK t \in StageTasks(k) : t.cnt = c
    BY <1>5, <2>1, <2>2 DEF Holds, Queued, Running
  <2>4. c \in Counters /\ c < addCount
    BY <2>3 DEF StageTasks, TokenTasks
  <2> QED BY <1>2, <2>4 DEF Counters
<1>6. pools = <<>> <=> Stages(variant) = 0
  <2>1. ASSUME Stages(variant) = 0 PROVE pools = <<>>
    BY <2>1 DEF Shape
  <2>2. ASSUME pools = <<>> PROVE Stages(variant) = 0
    <3>1. DOMAIN pools = {}
      BY <2>2
    <3>2. CASE Stages(variant) > 0
      <4>1. 1 \in 1..Stages(variant)
        BY <1>1, <3>2
      <4> QED BY <1>1, <3>1, <4>1
    <3> QED BY <1>1, <3>2
  <2> QED BY <2>1, <2>2
<1> QED BY <1>1, <1>2, <1>3, <1>4, <1>5, <1>6 DEF Shape

\* A step after which the same counters are settled, and the results the same.
LEMMA NothingSettled ==
    ASSUME Counted, UNCHANGED <<input, results>>, \A c : Settled(c)' <=> Settled(c)
    PROVE  Counted'
<1>1. UNCHANGED <<variant, onDisk, addCount, entries>>
  BY DEF input
<1>2. \A c : Delivers(c)' = Delivers(c) /\ Read(c)' = Read(c)
  BY <1>1 DEF Delivers, Read
<1>3. \A v : DeliveredAs(v)' = DeliveredAs(v)
  BY <1>1, <1>2 DEF DeliveredAs
<1> QED BY <1>3 DEF Counted

\* A step that settles one counter, and delivers what was read for it if anything.
LEMMA OneSettled ==
    ASSUME Shape, Counted, UNCHANGED input, NEW e \in 0..(addCount - 1), ~Settled(e),
           \A c : Settled(c)' <=> Settled(c) \/ c = e,
           results' = IF Delivers(e) THEN [results EXCEPT ![Read(e)] = @ + 1] ELSE results
    PROVE  Counted' /\ results' \in [TokenValues -> Nat]
<1>1. UNCHANGED <<variant, onDisk, addCount, entries>>
  BY DEF input
<1>2. \A c : Delivers(c)' = Delivers(c) /\ Read(c)' = Read(c)
  BY <1>1 DEF Delivers, Read
<1>3. Read(e) \in TokenValues /\ addCount \in Nat /\ results \in [TokenValues -> Nat]
  BY ShapeFacts DEF Shape
<1>4. results' \in [TokenValues -> Nat]
  BY <1>3
<1>5. ASSUME NEW v \in TokenValues PROVE results'[v] = Cardinality(DeliveredAs(v)')
  <2>1. \A c : c \in DeliveredAs(v)' <=> c \in DeliveredAs(v) \/ (c = e /\ Delivers(e) /\ Read(e) = v)
    BY <1>1, <1>2 DEF DeliveredAs
  <2>2. e \notin DeliveredAs(v)
    BY DEF DeliveredAs
  <2>3. IsFiniteSet(DeliveredAs(v))
    <3>1. IsFiniteSet(0..(addCount - 1))
      BY <1>3, FS_Interval
    <3>2. DeliveredAs(v) \subseteq 0..(addCount - 1)
      BY DEF DeliveredAs
    <3> QED BY <3>1, <3>2, FS_Subset
  <2>4. results[v] = Cardinality(DeliveredAs(v)) /\ results[v] \in Nat
    BY <1>3 DEF Counted
  <2> DEFINE D == DeliveredAs(v)
             E == DeliveredAs(v)'
  <2> HIDE DEF D, E
  <2>5. CASE Delivers(e) /\ Read(e) = v
    <3>1. E = D \cup {e}
      BY <2>1, <2>5 DEF D, E
    <3>2. Cardinality(D \cup {e}) = Cardinality(D) + 1
      BY <2>2, <2>3, FS_AddElement DEF D
    <3>3. results'[v] = results[v] + 1
      BY <1>3, <2>5
    <3> QED BY <2>4, <3>1, <3>2, <3>3 DEF D, E
  <2>6. CASE ~(Delivers(e) /\ Read(e) = v)
    <3>1. E = D
      BY <2>1, <2>6 DEF D, E
    <3>2. results'[v] = results[v]
      BY <1>3, <2>6
    <3> QED BY <2>4, <3>1, <3>2 DEF D, E
  <2> QED BY <2>5, <2>6
<1> QED BY <1>4, <1>5 DEF Counted

\* The input of the search does not change, nor what is defined from it.
LEMMA InputKept ==
    ASSUME UNCHANGED input
    PROVE  /\ UNCHANGED <<variant, onDisk, addCount, entries, n>>
           /\ StageWorkers' = StageWorkers /\ \A k : StageTasks(k)' = StageTasks(k)
<1>1. UNCHANGED <<variant, onDisk, addCount, entries, n>>
  BY DEF input
<1> QED BY <1>1 DEF StageWorkers, StageTasks, Outputs, Read

\* A step that replaces pool k.
LEMMA PoolReplaced ==
    ASSUME Shape, UNCHANGED input, NEW k \in DOMAIN pools, NEW q \in PoolsOf(StageTasks(k), StageWorkers),
           pools' = [pools EXCEPT ![k] = q],
           next' \in [0..(n - 1) -> Nat], results' \in [TokenValues -> Nat],
           main' \in 0..(Stages(variant) + 1)
    PROVE  /\ Shape' /\ DOMAIN pools' = DOMAIN pools /\ pools'[k] = q
           /\ \A j \in DOMAIN pools : j # k => pools'[j] = pools[j]
<1>1. UNCHANGED <<variant, onDisk, addCount, entries, n>> /\ StageWorkers' = StageWorkers
      /\ \A j : StageTasks(j)' = StageTasks(j)
  BY InputKept
<1>2. DOMAIN pools = 1..Stages(variant) /\ \A j \in DOMAIN pools : pools[j] \in PoolsOf(StageTasks(j), StageWorkers)
  BY ShapeFacts
<1>3. /\ DOMAIN pools' = DOMAIN pools /\ pools'[k] = q
      /\ \A j \in DOMAIN pools : j # k => pools'[j] = pools[j]
      /\ pools' = [j \in DOMAIN pools |-> pools'[j]]
  OBVIOUS
<1>4. \A j \in DOMAIN pools : pools'[j] \in PoolsOf(StageTasks(j), StageWorkers)
  BY <1>2, <1>3
<1>5. pools' = [j \in 1..Stages(variant)' |-> pools'[j]]
  BY <1>1, <1>2, <1>3
<1>6. \A j \in 1..Stages(variant)' : pools'[j] \in PoolsOf(StageTasks(j)', StageWorkers')
  BY <1>1, <1>2, <1>4
<1>7. Shape'
  BY <1>1, <1>5, <1>6 DEF Shape
<1> QED BY <1>3, <1>7

\* A step after which every pool holds what it held.
LEMMA HoldingsKept ==
    ASSUME Shape, Once, UNCHANGED <<input, next>>, DOMAIN pools' = DOMAIN pools,
           \A k \in DOMAIN pools : Single(pools'[k]) /\ \A c : Holds(pools'[k], c) <=> Holds(pools[k], c)
    PROVE  Once' /\ \A c : Settled(c)' <=> Settled(c)
<1>1. n' = n /\ next' = next
  BY InputKept
<1>2. \A c : Ahead(c)' <=> Ahead(c)
  BY <1>1 DEF Ahead
<1>3. Once'
  BY <1>1, <1>2 DEF Once
<1>4. \A c : Settled(c)' <=> Settled(c)
  BY <1>2 DEF Settled
<1> QED BY <1>3, <1>4

\* A worker begins a task.
LEMMA BeginIInv ==
    ASSUME ParallelIInv, NEW k \in DOMAIN pools, NEW w \in StageWorkers, begin(k, w)
    PROVE  ParallelIInv'
<1> DEFINE q == TP!Begun(pools[k], w)
<1>1. /\ TP!CanBegin(pools[k], w) /\ pools' = [pools EXCEPT ![k] = q]
      /\ UNCHANGED <<input, next, results, main>>
  BY DEF begin
<1>2. Shape /\ Progress /\ Once /\ Counted /\ Single(pools[k])
  BY DEF ParallelIInv, Once
<1>3. pools[k] \in PoolsOf(StageTasks(k), StageWorkers)
  BY <1>2, ShapeFacts
<1>4. /\ q \in PoolsOf(StageTasks(k), StageWorkers) /\ q.phase = pools[k].phase /\ pools[k].phase # "left"
      /\ Single(q) /\ \A c : Holds(q, c) <=> Holds(pools[k], c)
  BY <1>1, <1>2, <1>3, BegunFacts
<1> HIDE DEF q
<1>5. /\ Shape' /\ DOMAIN pools' = DOMAIN pools /\ pools'[k] = q
      /\ \A j \in DOMAIN pools : j # k => pools'[j] = pools[j]
  <2>1. next' \in [0..(n - 1) -> Nat] /\ results' \in [TokenValues -> Nat] /\ main' \in 0..(Stages(variant) + 1)
    BY <1>1, <1>2 DEF Shape
  <2> QED BY <1>1, <1>2, <1>4, <2>1, PoolReplaced
<1>6. \A j \in DOMAIN pools : Single(pools'[j]) /\ \A c : Holds(pools'[j], c) <=> Holds(pools[j], c)
  BY <1>2, <1>4, <1>5 DEF Once
<1>7. Once' /\ \A c : Settled(c)' <=> Settled(c)
  BY <1>1, <1>2, <1>5, <1>6, HoldingsKept
<1>8. Counted'
  BY <1>1, <1>2, <1>7, NothingSettled
<1>9. Progress'
  <2>1. UNCHANGED <<addCount, next, main>>
    BY <1>1, InputKept
  <2>2. ~(main > k)
    BY <1>2, <1>4 DEF Progress
  <2> QED BY <1>2, <1>4, <1>5, <2>1, <2>2 DEF Progress
<1> QED BY <1>5, <1>7, <1>8, <1>9 DEF ParallelIInv

\* The searching thread joins the RSA threads.
LEMMA JoinRsaIInv ==
    ASSUME ParallelIInv, joinRsa
    PROVE  ParallelIInv'
<1>1. /\ main = 0 /\ main' = 1 /\ \A t \in DOMAIN next : next[t] >= addCount
      /\ UNCHANGED <<input, next, pools, results>>
  BY DEF joinRsa
<1>2. Shape /\ Progress /\ Once /\ Counted
  BY DEF ParallelIInv
<1>3. /\ UNCHANGED <<variant, onDisk, addCount, entries, n>> /\ StageWorkers' = StageWorkers
      /\ \A k : StageTasks(k)' = StageTasks(k)
  BY <1>1, InputKept
<1>4. DOMAIN pools = 1..Stages(variant) /\ Stages(variant) \in Nat
  BY <1>2, ShapeFacts
<1>5. Shape'
  BY <1>1, <1>2, <1>3, <1>4 DEF Shape
<1>6. Once' /\ \A c : Settled(c)' <=> Settled(c)
  <2>1. \A k \in DOMAIN pools : Single(pools[k])
    BY <1>2 DEF Once
  <2> QED BY <1>1, <1>2, <2>1, HoldingsKept
<1>7. Counted'
  BY <1>1, <1>2, <1>6, NothingSettled
<1>8. Progress'
  BY <1>1, <1>2, <1>3, <1>4 DEF Progress
<1> QED BY <1>5, <1>6, <1>7, <1>8 DEF ParallelIInv

\* The searching thread closes a pool, or goes on when its workers have returned.
LEMMA CloseIInv ==
    ASSUME ParallelIInv, NEW k \in DOMAIN pools, close(k) \/ joined(k)
    PROVE  ParallelIInv'
<1> DEFINE q == pools'[k]
<1>1. Shape /\ Progress /\ Once /\ Counted /\ Single(pools[k])
  BY DEF ParallelIInv, Once
<1>2. /\ DOMAIN pools = 1..Stages(variant) /\ Stages(variant) \in Nat
      /\ pools[k] \in PoolsOf(StageTasks(k), StageWorkers)
  BY <1>1, ShapeFacts
<1>3. \E ph \in {"closed", "left"} : pools' = [pools EXCEPT ![k] = [@ EXCEPT !.phase = ph]]
  BY DEF close, joined, TP!Closed, TP!Left
<1>4. main = k /\ UNCHANGED <<input, next, results>> /\ main' \in {k, k + 1}
  BY DEF close, joined
<1>5. /\ q \in PoolsOf(StageTasks(k), StageWorkers) /\ q.queue = pools[k].queue /\ q.running = pools[k].running
      /\ pools' = [pools EXCEPT ![k] = q]
  BY <1>2, <1>3 DEF PoolsOf
<1> HIDE DEF q
<1>6. /\ Shape' /\ DOMAIN pools' = DOMAIN pools /\ pools'[k] = q
      /\ \A j \in DOMAIN pools : j # k => pools'[j] = pools[j]
  <2>1. next' \in [0..(n - 1) -> Nat] /\ results' \in [TokenValues -> Nat] /\ main' \in 0..(Stages(variant) + 1)
    BY <1>1, <1>2, <1>4 DEF Shape
  <2> QED BY <1>1, <1>4, <1>5, <2>1, PoolReplaced
<1>7. Single(q) /\ \A c : Holds(q, c) <=> Holds(pools[k], c)
  BY <1>1, <1>5 DEF Single, Holds, Queued, Running
<1>8. \A j \in DOMAIN pools : Single(pools'[j]) /\ \A c : Holds(pools'[j], c) <=> Holds(pools[j], c)
  BY <1>1, <1>6, <1>7 DEF Once
<1>9. Once' /\ \A c : Settled(c)' <=> Settled(c)
  BY <1>1, <1>4, <1>6, <1>8, HoldingsKept
<1>10. Counted'
  BY <1>1, <1>4, <1>9, NothingSettled
<1>11. main' = k + 1 => q.phase = "left" /\ ~Busy(q)
  <2> SUFFICES ASSUME main' = k + 1 PROVE q.phase = "left" /\ ~Busy(q)
    OBVIOUS
  <2>1. joined(k)
    BY <1>2, <1>4 DEF close
  <2>2. q.phase = "left" /\ pools[k].queue = <<>> /\ DOMAIN pools[k].running = {}
    BY <1>2, <2>1 DEF joined, TP!Left, TP!CanLeave, q, PoolsOf
  <2> QED BY <1>5, <2>2 DEF Busy
<1>12. Progress'
  <2>1. UNCHANGED <<addCount, next>> /\ k \in Nat /\ k > 0
    BY <1>2, <1>4, InputKept
  <2>2. main' > 0 /\ main > 0
    BY <1>4, <2>1
  <2>3. ASSUME NEW j \in DOMAIN pools
        PROVE  /\ main' < j => pools'[j].phase = "open"
               /\ main' > j => pools'[j].phase = "left" /\ ~Busy(pools'[j])
    <3>1. CASE j = k
      BY <1>4, <1>6, <1>11, <2>1, <3>1
    <3>2. CASE j # k
      BY <1>1, <1>2, <1>4, <1>6, <2>1, <3>2 DEF Progress
    <3> QED BY <3>1, <3>2
  <2> QED BY <1>1, <1>6, <2>1, <2>2, <2>3 DEF Progress
<1> QED BY <1>6, <1>9, <1>10, <1>12 DEF ParallelIInv

\* A step of an RSA thread takes one counter off the strides.
LEMMA RsaAhead ==
    ASSUME ParallelIInv, NEW t \in DOMAIN next, rsaStep(t)
    PROVE  /\ next[t] \in 0..(addCount - 1) /\ Ahead(next[t])
           /\ \A c : Ahead(c)' <=> Ahead(c) /\ c # next[t]
           /\ \A s, u \in DOMAIN next' : \A c : c \in Stride(next[s], n)' /\ c \in Stride(next[u], n)' => s = u
           /\ next' \in [0..(n - 1) -> Nat] /\ UNCHANGED <<input, main>> /\ main = 0
<1> DEFINE e == next[t]
<1>1. /\ e < addCount /\ next' = [next EXCEPT ![t] = @ + n] /\ UNCHANGED <<input, main>>
  BY DEF rsaStep
<1>2. /\ n \in Nat \ {0} /\ DOMAIN next = 0..(n - 1) /\ \A u \in DOMAIN next : next[u] \in Nat
      /\ addCount \in Nat
  BY ShapeFacts DEF ParallelIInv
<1>3. /\ next' \in [0..(n - 1) -> Nat] /\ DOMAIN next' = DOMAIN next /\ next'[t] = e + n
      /\ \A u \in DOMAIN next : u # t => next'[u] = next[u]
  <2>1. next \in [0..(n - 1) -> Nat] /\ \A a \in Nat : a + n \in Nat
    BY <1>2 DEF ParallelIInv, Shape
  <2> QED BY <1>1, <2>1
<1>4. n' = n
  BY <1>1, InputKept
<1>5. e \in Nat
  BY <1>2
<1> HIDE DEF e
<1>6. /\ e \in Stride(e, n) /\ \A c : c \in Stride(e + n, n) <=> c \in Stride(e, n) /\ c # e
  BY <1>2, <1>5, StrideStep
<1>7. \A s, u \in DOMAIN next : \A c : c \in Stride(next[s], n) /\ c \in Stride(next[u], n) => s = u
  BY DEF ParallelIInv, Once
<1>8. \A u \in DOMAIN next : u # t => e \notin Stride(next[u], n)
  BY <1>6, <1>7 DEF e
<1>9. \A u \in DOMAIN next : \A c : c \in Stride(next'[u], n) <=> c \in Stride(next[u], n) /\ c # e
  BY <1>3, <1>6, <1>8 DEF e
<1>10. Ahead(e) /\ \A c : Ahead(c)' <=> Ahead(c) /\ c # e
  BY <1>3, <1>4, <1>6, <1>9 DEF Ahead, e
<1>11. \A s, u \in DOMAIN next' : \A c : c \in Stride(next[s], n)' /\ c \in Stride(next[u], n)' => s = u
  BY <1>3, <1>4, <1>7, <1>9
<1>12. main = 0
  <2>1. ~(next[t] >= addCount)
    BY <1>1, <1>2 DEF e
  <2> QED BY <2>1, StageFacts DEF ParallelIInv, Progress, Shape
<1> QED BY <1>1, <1>2, <1>3, <1>5, <1>10, <1>11, <1>12 DEF e

\* A step of an RSA thread preserves the invariant: without pools the token is looked
\* up on the spot, else the first pool is open and gets it.
LEMMA RsaIInv ==
    ASSUME ParallelIInv, NEW t \in DOMAIN next, rsaStep(t)
    PROVE  ParallelIInv'
<1> DEFINE e == next[t]
<1>1. /\ e \in 0..(addCount - 1) /\ Ahead(e)
      /\ \A c : Ahead(c)' <=> Ahead(c) /\ c # e
      /\ \A s, u \in DOMAIN next' : \A c : c \in Stride(next[s], n)' /\ c \in Stride(next[u], n)' => s = u
      /\ next' \in [0..(n - 1) -> Nat] /\ UNCHANGED <<input, main>> /\ main = 0
  BY RsaAhead
<1>2. Shape /\ Progress /\ Once /\ Counted
  BY DEF ParallelIInv
<1>3. /\ DOMAIN pools = 1..Stages(variant) /\ Stages(variant) \in Nat /\ (pools = <<>> <=> Stages(variant) = 0)
      /\ \A k \in DOMAIN pools : pools[k] \in PoolsOf(StageTasks(k), StageWorkers)
      /\ 0..(addCount - 1) \subseteq Counters /\ addCount \in Nat
  BY <1>2, ShapeFacts
<1>4. /\ UNCHANGED <<variant, onDisk, addCount, entries, n>> /\ StageWorkers' = StageWorkers
      /\ \A k : StageTasks(k)' = StageTasks(k)
  BY <1>1, InputKept
<1>5. \A k \in DOMAIN pools : ~Holds(pools[k], e)
  BY <1>1, <1>2 DEF Once
<1>6. \/ pools = <<>> /\ deriveAccess(e) /\ UNCHANGED pools
      \/ /\ pools # <<>> /\ pools' = Enqueue(pools, 1, [cnt |-> e, val |-> Garbage])
         /\ UNCHANGED results
  BY DEF rsaStep
<1>7. ~Settled(e)
  BY <1>1 DEF Settled
<1> HIDE DEF e
<1>8. CASE pools = <<>> /\ deriveAccess(e) /\ UNCHANGED pools
  <2>1. variant # "parallel"
    BY <1>2, <1>3, <1>8, StageFacts DEF Shape
  <2>2. results' = IF Delivers(e) THEN [results EXCEPT ![Read(e)] = @ + 1] ELSE results
    BY <1>8, <2>1 DEF deriveAccess, Push, Delivers
  <2>3. DOMAIN pools = {}
    BY <1>8
  <2>4. \A c : Settled(c)' <=> Settled(c) \/ c = e
    BY <1>1, <1>8, <2>3 DEF Settled
  <2>5. Counted' /\ results' \in [TokenValues -> Nat]
    BY <1>1, <1>2, <1>7, <2>2, <2>4, OneSettled
  <2>6. Shape'
    BY <1>1, <1>2, <1>4, <1>8, <2>5 DEF Shape
  <2>7. Once' /\ Progress'
    BY <1>1, <1>2, <1>8, <2>3 DEF Once, Progress
  <2> QED BY <2>5, <2>6, <2>7 DEF ParallelIInv
<1>9. CASE /\ pools # <<>> /\ pools' = Enqueue(pools, 1, [cnt |-> e, val |-> Garbage])
           /\ UNCHANGED results
  <2> DEFINE task == [cnt |-> e, val |-> Garbage]
             q == TP!Submitted(pools[1], task)
  <2>1. 1 \in DOMAIN pools
    BY <1>3, <1>9
  <2>2. pools' = [pools EXCEPT ![1] = q]
    BY <1>9 DEF Enqueue
  <2>3. pools[1].phase = "open" /\ Single(pools[1])
    BY <1>1, <1>2, <2>1 DEF Progress, Once
  <2>4. task \in StageTasks(1) /\ task.cnt = e
    <3>1. task \in TokenTasks
      BY <1>1, <1>3 DEF TokenTasks, TokenValues
    <3>2. e < addCount
      BY <1>1, <1>3
    <3>3. Outputs(1) => variant = "parallel"
      BY DEF Outputs
    <3> QED BY <3>1, <3>2, <3>3 DEF StageTasks
  <2> HIDE DEF task
  <2>5. /\ q \in PoolsOf(StageTasks(1), StageWorkers) /\ q.phase = pools[1].phase
        /\ \A c : Holds(q, c) <=> Holds(pools[1], c) \/ c = e
        /\ Single(q)
    BY <1>3, <1>5, <2>1, <2>3, <2>4, SubmittedFacts DEF TP!IsOpen
  <2> HIDE DEF q
  <2>6. /\ Shape' /\ DOMAIN pools' = DOMAIN pools /\ pools'[1] = q
        /\ \A j \in DOMAIN pools : j # 1 => pools'[j] = pools[j]
    <3>1. results' \in [TokenValues -> Nat] /\ main' \in 0..(Stages(variant) + 1)
      BY <1>1, <1>2, <1>9 DEF Shape
    <3> QED BY <1>1, <1>2, <2>1, <2>2, <2>5, <3>1, PoolReplaced
  <2>7. \A j \in DOMAIN pools : \A c : Holds(pools'[j], c) <=> Holds(pools[j], c) \/ (j = 1 /\ c = e)
    BY <2>5, <2>6
  <2>8. \A c : Settled(c)' <=> Settled(c)
    BY <1>1, <1>7, <2>1, <2>6, <2>7 DEF Settled
  <2>9. Counted'
    BY <1>1, <1>2, <1>9, <2>8, NothingSettled
  <2>10. Once'
    <3>1. \A j \in DOMAIN pools' : Single(pools'[j])
      BY <1>2, <2>5, <2>6 DEF Once
    <3>2. \A j \in DOMAIN pools' : \A c : Holds(pools'[j], c) => ~Ahead(c)'
      BY <1>1, <1>2, <2>6, <2>7 DEF Once
    <3>3. \A j, l \in DOMAIN pools' : \A c : Holds(pools'[j], c) /\ Holds(pools'[l], c) => j = l
      BY <1>2, <1>5, <2>6, <2>7 DEF Once
    <3> QED BY <1>1, <3>1, <3>2, <3>3 DEF Once
  <2>11. Progress'
    <3>1. \A j \in DOMAIN pools' : main' < j /\ pools'[j].phase = "open"
      BY <1>1, <1>2, <1>3, <2>5, <2>6 DEF Progress
    <3> QED BY <1>1, <1>3, <2>6, <3>1 DEF Progress
  <2> QED BY <2>6, <2>9, <2>10, <2>11 DEF ParallelIInv
<1> QED BY <1>6, <1>8, <1>9

\* A job that ends: its task leaves pool k, and what it read is output if k is the
\* last stage.
LEMMA EndStep ==
    ASSUME ParallelIInv, NEW k \in DOMAIN pools, NEW w \in StageWorkers, end(k, w)
    PROVE  LET task == pools[k].running[w]
               q == TP!Ended(pools[k], w)
           IN  /\ task \in StageTasks(k) /\ task.cnt \in 0..(addCount - 1)
               /\ Holds(pools[k], task.cnt) /\ ~(main > k)
               /\ q \in PoolsOf(StageTasks(k), StageWorkers) /\ q.phase = pools[k].phase /\ Single(q)
               /\ \A c : Holds(q, c) <=> Holds(pools[k], c) /\ c # task.cnt
               /\ Outputs(k) => Delivers(task.cnt) /\ Output(task) = Read(task.cnt)
<1> DEFINE task == pools[k].running[w]
           q == TP!Ended(pools[k], w)
<1>1. Shape /\ Progress /\ Single(pools[k])
  BY DEF ParallelIInv, Once
<1>2. /\ pools[k] \in PoolsOf(StageTasks(k), StageWorkers) /\ DOMAIN pools = 1..Stages(variant)
      /\ \A c : Holds(pools[k], c) => c \in 0..(addCount - 1)
  BY <1>1, ShapeFacts
<1>3. ~TP!Idle(pools[k], w)
  BY DEF end
<1>4. /\ q \in PoolsOf(StageTasks(k), StageWorkers) /\ q.phase = pools[k].phase /\ task \in StageTasks(k)
      /\ Holds(pools[k], task.cnt) /\ Single(q)
      /\ \A c : Holds(q, c) <=> Holds(pools[k], c) /\ c # task.cnt
  BY <1>1, <1>2, <1>3, EndedFacts
<1>5. ~(main > k)
  BY <1>1, <1>3 DEF Progress, Busy, TP!Idle
<1>6. Outputs(k) => Delivers(task.cnt) /\ Output(task) = Read(task.cnt)
  BY <1>4 DEF StageTasks, Delivers, Output
<1> QED BY <1>2, <1>4, <1>5, <1>6

\* A job that ends without handing its task on settles the counter.
LEMMA EndSettles ==
    ASSUME ParallelIInv, NEW k \in DOMAIN pools, NEW w \in StageWorkers, end(k, w),
           ~Forwards(k, pools[k].running[w])
    PROVE  ParallelIInv'
<1> DEFINE task == pools[k].running[w]
           e == task.cnt
           q == TP!Ended(pools[k], w)
<1>1. /\ task \in StageTasks(k) /\ e \in 0..(addCount - 1) /\ Holds(pools[k], e) /\ ~(main > k)
      /\ q \in PoolsOf(StageTasks(k), StageWorkers) /\ q.phase = pools[k].phase /\ Single(q)
      /\ \A c : Holds(q, c) <=> Holds(pools[k], c) /\ c # e
      /\ Outputs(k) => Delivers(e) /\ Output(task) = Read(e)
  BY EndStep
<1>2. /\ pools' = [pools EXCEPT ![k] = q]
      /\ IF Outputs(k) THEN Push(Output(task)) ELSE UNCHANGED results
      /\ UNCHANGED <<input, next, main>>
  BY DEF end
<1>3. Shape /\ Progress /\ Once /\ Counted
  BY DEF ParallelIInv
<1>4. DOMAIN pools = 1..Stages(variant) /\ variant \in Variants
  BY <1>3, ShapeFacts DEF Shape
<1>5. ~Outputs(k) => ~Delivers(e)
  <2>1. ~Outputs(k) => e \notin entries
    BY <1>4, StageFacts
  <2>2. variant = "parallel" => Outputs(k)
    BY DEF Outputs
  <2> QED BY <2>1, <2>2 DEF Delivers
<1> HIDE DEF e, q, task
<1>6. results' = IF Delivers(e) THEN [results EXCEPT ![Read(e)] = @ + 1] ELSE results
  BY <1>1, <1>2, <1>5 DEF Push
<1>7. /\ DOMAIN pools' = DOMAIN pools /\ pools'[k] = q
      /\ \A j \in DOMAIN pools : j # k => pools'[j] = pools[j]
  BY <1>2
<1>8. \A j, l \in DOMAIN pools : \A c : Holds(pools[j], c) /\ Holds(pools[l], c) => j = l
  BY <1>3 DEF Once
<1>9. \A j \in DOMAIN pools : \A c : Holds(pools'[j], c) <=> Holds(pools[j], c) /\ c # e
  BY <1>1, <1>7, <1>8
<1>10. n' = n /\ next' = next /\ \A c : Ahead(c)' <=> Ahead(c)
  BY <1>2, InputKept DEF Ahead
<1>11. ~Settled(e) /\ \A c : Settled(c)' <=> Settled(c) \/ c = e
  <2>1. ~Ahead(e)
    BY <1>1, <1>3 DEF Once
  <2> QED BY <1>1, <1>7, <1>9, <1>10, <2>1 DEF Settled
<1>12. Counted' /\ results' \in [TokenValues -> Nat]
  BY <1>1, <1>2, <1>3, <1>6, <1>11, OneSettled
<1>13. Shape'
  <2>1. next' \in [0..(n - 1) -> Nat] /\ main' \in 0..(Stages(variant) + 1)
    BY <1>2, <1>3 DEF Shape
  <2> QED BY <1>1, <1>2, <1>3, <1>12, <2>1, PoolReplaced
<1>14. Once'
  <2>1. \A j \in DOMAIN pools' : Single(pools'[j])
    BY <1>1, <1>3, <1>7 DEF Once
  <2>2. \A j \in DOMAIN pools' : \A c : Holds(pools'[j], c) => ~Ahead(c)'
    BY <1>3, <1>7, <1>9, <1>10 DEF Once
  <2>3. \A j, l \in DOMAIN pools' : \A c : Holds(pools'[j], c) /\ Holds(pools'[l], c) => j = l
    BY <1>7, <1>8, <1>9
  <2>4. \A t, u \in DOMAIN next' : \A c : c \in Stride(next[t], n)' /\ c \in Stride(next[u], n)' => t = u
    BY <1>3, <1>10 DEF Once
  <2> QED BY <2>1, <2>2, <2>3, <2>4 DEF Once
<1>15. Progress'
  <2>1. UNCHANGED <<addCount, next, main>>
    BY <1>2, InputKept
  <2> QED BY <1>1, <1>3, <1>7, <2>1 DEF Progress
<1> QED BY <1>12, <1>13, <1>14, <1>15 DEF ParallelIInv

\* A job that ends and hands its task on: the next pool is open, for the searching
\* thread has not come past this one, so nothing is dropped.
LEMMA EndForwards ==
    ASSUME ParallelIInv, NEW k \in DOMAIN pools, NEW w \in StageWorkers, end(k, w),
           Forwards(k, pools[k].running[w])
    PROVE  ParallelIInv'
<1> DEFINE task == pools[k].running[w]
           e == task.cnt
           q == TP!Ended(pools[k], w)
           m == k + 1
           h == Handed(k, task)
           r == TP!Submitted(pools[m], h)
           mid == [pools EXCEPT ![k] = q]
<1>1. /\ task \in StageTasks(k) /\ e \in 0..(addCount - 1) /\ Holds(pools[k], e) /\ ~(main > k)
      /\ q \in PoolsOf(StageTasks(k), StageWorkers) /\ q.phase = pools[k].phase /\ Single(q)
      /\ \A c : Holds(q, c) <=> Holds(pools[k], c) /\ c # e
  BY EndStep
<1>2. Shape /\ Progress /\ Once /\ Counted
  BY DEF ParallelIInv
<1>3. /\ DOMAIN pools = 1..Stages(variant) /\ variant \in Variants /\ Stages(variant) \in Nat
      /\ \A j \in DOMAIN pools : pools[j] \in PoolsOf(StageTasks(j), StageWorkers)
      /\ \A c \in 0..(addCount - 1) : Read(c) \in TokenValues
      /\ pools = [j \in 1..Stages(variant) |-> pools[j]]
  BY <1>2, ShapeFacts DEF Shape
<1>4. m \in DOMAIN pools /\ ~Outputs(k) /\ m # k
      /\ (Outputs(m) => e \in entries /\ ~(variant = "full" /\ k = 1))
  BY <1>3, StageFacts
<1>5. h.cnt = e /\ h \in StageTasks(m)
  <2>1. task \in TokenTasks /\ e < addCount
    BY <1>1 DEF StageTasks
  <2>2. CASE variant = "full" /\ k = 1
    <3>1. h = task /\ ~Outputs(m)
      BY <1>4, <2>2 DEF Handed
    <3> QED BY <2>1, <3>1 DEF StageTasks
  <2>3. CASE ~(variant = "full" /\ k = 1)
    <3>1. h = [task EXCEPT !.val = Read(e)]
      BY <2>3 DEF Handed
    <3>2. h \in TokenTasks /\ h.cnt = e /\ h.val = Read(e)
      BY <1>1, <1>3, <2>1, <3>1 DEF TokenTasks
    <3> QED BY <1>4, <2>1, <3>2 DEF StageTasks
  <2> QED BY <2>2, <2>3
<1>6. /\ pools' = Enqueue(mid, m, h) /\ UNCHANGED <<input, next, main, results>>
  BY <1>4 DEF end
<1> HIDE DEF task, e, q, h, r
<1>7. mid[m] = pools[m] /\ mid = [j \in 1..Stages(variant) |-> IF j = k THEN q ELSE pools[j]]
  BY <1>3, <1>4
<1>8. /\ DOMAIN pools' = DOMAIN pools /\ pools'[k] = q /\ pools'[m] = r
      /\ \A j \in DOMAIN pools : j \notin {k, m} => pools'[j] = pools[j]
      /\ pools' = [j \in 1..Stages(variant) |-> pools'[j]]
  BY <1>3, <1>4, <1>6, <1>7 DEF Enqueue, r
<1> HIDE DEF mid
<1>9. /\ pools[m].phase = "open" /\ Single(pools[m])
  <2>1. main < m
    BY <1>1, <1>2, <1>3, StageFacts DEF Shape
  <2> QED BY <1>2, <1>4, <2>1 DEF Progress, Once
<1>10. \A j, l \in DOMAIN pools : \A c : Holds(pools[j], c) /\ Holds(pools[l], c) => j = l
  BY <1>2 DEF Once
<1>11. ~Holds(pools[m], e)
  BY <1>1, <1>4, <1>10
<1> HIDE DEF m
<1>12. /\ r \in PoolsOf(StageTasks(m), StageWorkers) /\ r.phase = pools[m].phase /\ Single(r)
       /\ \A c : Holds(r, c) <=> Holds(pools[m], c) \/ c = e
  BY <1>3, <1>4, <1>5, <1>9, <1>11, SubmittedFacts DEF TP!IsOpen, r
<1>13. \A j \in DOMAIN pools : \A c : Holds(pools'[j], c) <=>
          (IF c = e THEN j = m ELSE Holds(pools[j], c))
  <2> SUFFICES ASSUME NEW j \in DOMAIN pools, NEW c
               PROVE  Holds(pools'[j], c) <=> (IF c = e THEN j = m ELSE Holds(pools[j], c))
    OBVIOUS
  <2>1. CASE j = m
    BY <1>8, <1>12, <2>1
  <2>2. CASE j = k
    BY <1>1, <1>4, <1>8, <2>2
  <2>3. CASE j \notin {k, m}
    <3>1. ~Holds(pools[j], e)
      BY <1>1, <1>10, <2>3
    <3> QED BY <1>8, <2>3, <3>1
  <2> QED BY <2>1, <2>2, <2>3
<1>14. UNCHANGED <<variant, onDisk, addCount, entries, n, next, main>> /\ StageWorkers' = StageWorkers
       /\ \A j : StageTasks(j)' = StageTasks(j)
  BY <1>6, InputKept
<1>15. \A c : Ahead(c)' <=> Ahead(c)
  BY <1>14 DEF Ahead
<1>16. \A c : Settled(c)' <=> Settled(c)
  BY <1>1, <1>4, <1>8, <1>13, <1>15 DEF Settled
<1>17. Counted'
  BY <1>2, <1>6, <1>16, NothingSettled
<1>18. Shape'
  <2>1. \A j \in DOMAIN pools : pools'[j] \in PoolsOf(StageTasks(j), StageWorkers)
    BY <1>1, <1>3, <1>8, <1>12
  <2>2. \A j \in 1..Stages(variant)' : pools'[j] \in PoolsOf(StageTasks(j)', StageWorkers')
    BY <1>3, <1>14, <2>1
  <2>3. pools' = [j \in 1..Stages(variant)' |-> pools'[j]]
    BY <1>8, <1>14
  <2>4. results' = results
    BY <1>6
  <2> QED BY <1>2, <1>14, <2>2, <2>3, <2>4 DEF Shape
<1>19. Once'
  <2>1. \A j \in DOMAIN pools' : Single(pools'[j])
    BY <1>1, <1>2, <1>8, <1>12 DEF Once
  <2>2. \A j \in DOMAIN pools' : \A c : Holds(pools'[j], c) => ~Ahead(c)'
    BY <1>1, <1>2, <1>8, <1>13, <1>15 DEF Once
  <2>3. \A j, l \in DOMAIN pools' : \A c : Holds(pools'[j], c) /\ Holds(pools'[l], c) => j = l
    BY <1>8, <1>10, <1>13
  <2>4. \A t, u \in DOMAIN next' : \A c : c \in Stride(next[t], n)' /\ c \in Stride(next[u], n)' => t = u
    BY <1>2, <1>14 DEF Once
  <2> QED BY <2>1, <2>2, <2>3, <2>4 DEF Once
<1>20. Progress'
  <2>1. ~(main > m)
    BY <1>2, <1>4, <1>9 DEF Progress
  <2>2. ASSUME NEW j \in DOMAIN pools
        PROVE  /\ main < j => pools'[j].phase = "open"
               /\ main > j => pools'[j].phase = "left" /\ ~Busy(pools'[j])
    <3>1. main < j => pools[j].phase = "open"
      BY <1>2 DEF Progress
    <3>2. main > j => pools[j].phase = "left" /\ ~Busy(pools[j])
      BY <1>2 DEF Progress
    <3> QED BY <1>1, <1>8, <1>12, <2>1, <3>1, <3>2
  <2> QED BY <1>2, <1>8, <1>14, <2>2 DEF Progress
<1> QED BY <1>17, <1>18, <1>19, <1>20 DEF ParallelIInv

-----------------------------------------------------------------------------
\* The invariant holds initially: all counters are on the strides.
LEMMA InitParallelIInv == ParallelInit => ParallelIInv
<1> SUFFICES ASSUME ParallelInit PROVE ParallelIInv
  OBVIOUS
<1>1. variant \in Variants /\ Stages(variant) \in Nat /\ n \in Nat \ {0} /\ MaxCount \in Nat /\ addCount \in Nat
  BY StageFacts, ParallelAssumption DEF ParallelInit
<1>2. /\ pools = [k \in 1..Stages(variant) |-> TP!NewPool] /\ DOMAIN pools = 1..Stages(variant)
      /\ \A k \in DOMAIN pools : pools[k] = TP!NewPool
  BY DEF ParallelInit
<1>3. /\ \A T, W : TP!NewPool \in PoolsOf(T, W)
      /\ TP!NewPool.phase = "open" /\ Single(TP!NewPool) /\ \A c : ~Holds(TP!NewPool, c)
  <2>1. /\ TP!NewPool.queue = <<>> /\ DOMAIN TP!NewPool.running = {} /\ TP!NewPool.phase = "open"
    BY DEF TP!NewPool
  <2>2. \A T, W : TP!NewPool.running \in Runs(T, W)
    <3> SUFFICES ASSUME NEW T, NEW W PROVE TP!NewPool.running \in Runs(T, W)
      OBVIOUS
    <3>1. TP!NewPool.running \in [{} -> T] /\ {} \in SUBSET W
      BY DEF TP!NewPool
    <3> QED BY <3>1 DEF Runs
  <2>3. \A T, W : TP!NewPool \in PoolsOf(T, W)
    BY <2>2 DEF PoolsOf, TP!NewPool
  <2>4. \A c : ~Queued(TP!NewPool, c) /\ ~Running(TP!NewPool, c)
    BY <2>1 DEF Queued, Running
  <2> QED BY <2>1, <2>3, <2>4 DEF Single, Holds
<1>4. next \in [0..(n - 1) -> Nat] /\ \A t \in 0..(n - 1) : next[t] = t
  BY <1>1 DEF ParallelInit
<1>5. Shape
  BY <1>1, <1>2, <1>3, <1>4 DEF ParallelInit, Shape
<1>6. Progress
  BY <1>1, <1>2, <1>3 DEF ParallelInit, Progress
<1>7. /\ \A t, u \in DOMAIN next : \A c : c \in Stride(next[t], n) /\ c \in Stride(next[u], n) => t = u
      /\ \A c \in Nat : Ahead(c)
  <2>1. /\ \A c \in Nat : \E t \in 0..(n - 1) : c \in Stride(t, n)
        /\ \A t, u \in 0..(n - 1) : \A c : c \in Stride(t, n) /\ c \in Stride(u, n) => t = u
    BY <1>1, StridesPartition
  <2>2. DOMAIN next = 0..(n - 1)
    BY <1>4
  <2>3. \A t \in DOMAIN next : Stride(next[t], n) = Stride(t, n)
    BY <1>4, <2>2
  <2> QED BY <2>1, <2>2, <2>3 DEF Ahead
<1>8. Once
  BY <1>2, <1>3, <1>7 DEF Once
<1>9. Counted
  <2>1. \A v : DeliveredAs(v) = {}
    BY <1>1, <1>7 DEF DeliveredAs, Settled
  <2> QED BY <2>1, FS_EmptySet DEF Counted, ParallelInit
<1> QED BY <1>5, <1>6, <1>8, <1>9 DEF ParallelIInv

\* Every step preserves the invariant.
LEMMA NextParallelIInv == ParallelIInv /\ [ParallelNext]_parallelVars => ParallelIInv'
<1> SUFFICES ASSUME ParallelIInv, [ParallelNext]_parallelVars PROVE ParallelIInv'
  OBVIOUS
<1>1. CASE rsa
  BY <1>1, RsaIInv DEF rsa
<1>2. ASSUME NEW k \in DOMAIN pools, NEW w \in StageWorkers, worker(k, w) PROVE ParallelIInv'
  <2>1. CASE begin(k, w)
    BY <2>1, BeginIInv
  <2>2. CASE end(k, w)
    BY <2>2, EndSettles, EndForwards
  <2> QED BY <1>2, <2>1, <2>2 DEF worker
<1>3. CASE searcher
  BY <1>3, JoinRsaIInv, CloseIInv DEF searcher
<1>4. CASE UNCHANGED parallelVars
  <2>1. UNCHANGED <<input, next, pools, results, main>>
    BY <1>4 DEF parallelVars, input
  <2>2. UNCHANGED <<variant, onDisk, addCount, entries, n>> /\ StageWorkers' = StageWorkers
        /\ \A k : StageTasks(k)' = StageTasks(k)
    BY <2>1, InputKept
  <2>3. Shape' /\ Progress'
    BY <2>1, <2>2 DEF ParallelIInv, Shape, Progress
  <2>4. Once' /\ \A c : Settled(c)' <=> Settled(c)
    BY <2>1, HoldingsKept DEF ParallelIInv, Once
  <2>5. Counted'
    BY <2>1, <2>4, NothingSettled DEF ParallelIInv
  <2> QED BY <2>3, <2>4, <2>5 DEF ParallelIInv
<1> QED BY <1>1, <1>2, <1>3, <1>4 DEF ParallelNext

\* The invariant holds in every reachable state.
LEMMA ParallelInvariance == ParallelSpec => []ParallelIInv
BY InitParallelIInv, NextParallelIInv, PTL DEF ParallelSpec

\* What the searching thread has gone past is done.
LEMMA IInvClosed == ParallelIInv => ClosedInOrder
<1> SUFFICES ASSUME ParallelIInv PROVE ClosedInOrder
  OBVIOUS
<1>1. Shape /\ Progress
  BY DEF ParallelIInv
<1>2. /\ DOMAIN pools = 1..Stages(variant) /\ Stages(variant) \in Nat
      /\ \A k \in DOMAIN pools : pools[k] \in PoolsOf(StageTasks(k), StageWorkers)
  BY <1>1, ShapeFacts
<1>3. Len(pools) = Stages(variant)
  <2>1. \E S : pools \in [1..Stages(variant) -> S]
    <3>1. pools \in [1..Stages(variant) -> {pools[k] : k \in 1..Stages(variant)}]
      BY <1>1 DEF Shape
    <3> QED BY <3>1
  <2>2. PICK S : pools \in [1..Stages(variant) -> S]
    BY <2>1
  <2>3. pools \in Seq(S)
    BY <1>2, <2>2, SeqDef
  <2> QED BY <1>2, <2>3, LenProperties
<1>4. ParallelTypeOK
  <2>1. ASSUME NEW k \in DOMAIN pools
        PROVE  /\ pools[k].queue \in Seq(TokenTasks)
               /\ pools[k].running \in [DOMAIN pools[k].running -> TokenTasks]
               /\ DOMAIN pools[k].running \subseteq StageWorkers
    <3>1. StageTasks(k) \subseteq TokenTasks
      BY DEF StageTasks
    <3>2. pools[k] \in PoolsOf(StageTasks(k), StageWorkers)
      BY <1>2
    <3>3. /\ pools[k].queue \in Seq(StageTasks(k))
          /\ pools[k].running = [v \in DOMAIN pools[k].running |-> pools[k].running[v]]
          /\ DOMAIN pools[k].running \subseteq StageWorkers
          /\ \A v \in DOMAIN pools[k].running : pools[k].running[v] \in StageTasks(k)
      BY <3>2, PoolParts
    <3>4. pools[k].queue \in Seq(TokenTasks)
      <4>1. /\ pools[k].queue \in [1..Len(pools[k].queue) -> StageTasks(k)] /\ Len(pools[k].queue) \in Nat
        BY <3>3, LenProperties
      <4>2. pools[k].queue \in [1..Len(pools[k].queue) -> TokenTasks]
        BY <3>1, <4>1
      <4> QED BY <4>1, <4>2, SeqDef
    <3>5. pools[k].running \in [DOMAIN pools[k].running -> TokenTasks]
      <4> DEFINE r == pools[k].running
      <4>1. r = [v \in DOMAIN r |-> r[v]] /\ \A v \in DOMAIN r : r[v] \in TokenTasks
        BY <3>1, <3>3
      <4> HIDE DEF r
      <4>2. r \in [DOMAIN r -> TokenTasks]
        BY <4>1
      <4> QED BY <4>2 DEF r
    <3> QED BY <3>3, <3>4, <3>5
  <2> QED BY <1>1, <1>3, <2>1 DEF Shape, ParallelTypeOK
<1>5. ASSUME NEW k \in DOMAIN pools, ~TP!IsOpen(pools[k])
      PROVE  /\ \A t \in DOMAIN next : next[t] >= addCount
             /\ \A j \in 1..(k - 1) : ~Busy(pools[j])
  <2>1. ~(main < k) /\ main \in Nat /\ k \in Nat /\ k > 0
    BY <1>1, <1>2, <1>5 DEF Progress, Shape, TP!IsOpen
  <2>2. \A j \in 1..(k - 1) : j \in DOMAIN pools /\ main > j
    BY <1>2, <2>1
  <2> QED BY <1>1, <2>1, <2>2 DEF Progress
<1> QED BY <1>4, <1>5 DEF ClosedInOrder

\* When the search has returned no counter is on its way.
LEMMA ReturnedSettled ==
    ASSUME ParallelIInv, Returned
    PROVE  /\ \A t \in DOMAIN next : next[t] >= addCount
           /\ \A k \in DOMAIN pools : pools[k].queue = <<>> /\ DOMAIN pools[k].running = {}
           /\ \A c \in 0..(addCount - 1) : Settled(c)
<1>1. Shape /\ Progress
  BY DEF ParallelIInv
<1>2. /\ DOMAIN pools = 1..Stages(variant) /\ Stages(variant) \in Nat /\ main = Stages(variant) + 1
      /\ n \in Nat \ {0} /\ addCount \in Nat /\ \A t \in DOMAIN next : next[t] \in Nat
  BY <1>1, ShapeFacts DEF Returned
<1>3. \A t \in DOMAIN next : next[t] >= addCount
  BY <1>1, <1>2 DEF Progress
<1>4. \A k \in DOMAIN pools : pools[k].queue = <<>> /\ DOMAIN pools[k].running = {}
  BY <1>1, <1>2 DEF Progress, Busy
<1>5. ASSUME NEW c \in 0..(addCount - 1) PROVE ~Ahead(c)
  <2>1. ASSUME NEW t \in DOMAIN next, c \in Stride(next[t], n) PROVE FALSE
    <3>1. c >= next[t]
      BY <1>2, <2>1, StrideStep
    <3> QED BY <1>2, <1>3, <3>1
  <2> QED BY <2>1 DEF Ahead
<1>6. \A k \in DOMAIN pools : \A c : ~Holds(pools[k], c)
  BY <1>4 DEF Holds, Queued, Running
<1> QED BY <1>3, <1>4, <1>5, <1>6 DEF Settled

\* The results of a search that has returned are those of the whole chain.
LEMMA IInvComplete == ParallelIInv => Complete
<1> SUFFICES ASSUME ParallelIInv, Returned, NEW v \in TokenValues PROVE results[v] = Expected(v)
  BY DEF Complete
<1>1. /\ addCount \in Nat /\ MaxCount \in Nat /\ addCount <= MaxCount /\ Garbage = MaxCount
      /\ onDisk \in BOOLEAN /\ entries \subseteq 0..(addCount - 1)
  BY ShapeFacts DEF ParallelIInv, Shape
<1> DEFINE D == {c \in 0..(addCount - 1) : Delivers(c) /\ Read(c) = v}
<1>2. results[v] = Cardinality(D)
  <2>1. DeliveredAs(v) = D
    BY ReturnedSettled DEF DeliveredAs
  <2> QED BY <2>1 DEF ParallelIInv, Counted
<1>3. /\ IsFiniteSet(0..(addCount - 1)) /\ Cardinality(0..(addCount - 1)) = addCount
  BY <1>1, FS_Interval
<1>4. IsFiniteSet(entries)
  BY <1>1, <1>3, FS_Subset
<1>5. \A c \in 0..(addCount - 1) : c # Garbage
  BY <1>1
<1>6. CASE onDisk /\ v # Garbage
  <2>1. CASE v \in entries
    <3>1. D = {v}
      BY <1>1, <1>5, <1>6, <2>1 DEF Read, Delivers
    <3>2. Expected(v) = 1
      BY <1>6, <2>1 DEF Expected
    <3> QED BY <1>2, <3>1, <3>2, FS_Singleton
  <2>2. CASE v \notin entries
    <3>1. D = {}
      BY <1>1, <1>5, <1>6, <2>2 DEF Read, Delivers
    <3>2. Expected(v) = 0
      BY <1>6, <2>2 DEF Expected
    <3> QED BY <1>2, <3>1, <3>2, FS_EmptySet
  <2> QED BY <2>1, <2>2
<1>7. CASE onDisk /\ v = Garbage
  <2>1. CASE variant = "parallel"
    <3>1. D = (0..(addCount - 1)) \ entries
      BY <1>1, <1>5, <1>7, <2>1 DEF Read, Delivers
    <3>2. Cardinality((0..(addCount - 1)) \ entries) = addCount - Cardinality(entries)
      <4>1. (0..(addCount - 1)) \cap entries = entries
        BY <1>1
      <4> QED BY <1>3, <4>1, FS_Difference, ZenonT(60)
    <3>3. Expected(v) = addCount - Cardinality(entries)
      BY <1>7, <2>1 DEF Expected
    <3> QED BY <1>2, <3>1, <3>2, <3>3
  <2>2. CASE variant # "parallel"
    <3>1. D = {}
      BY <1>1, <1>5, <1>7, <2>2 DEF Read, Delivers
    <3>2. Expected(v) = 0
      BY <1>7, <2>2 DEF Expected
    <3> QED BY <1>2, <3>1, <3>2, FS_EmptySet
  <2> QED BY <2>1, <2>2
<1>8. CASE ~onDisk /\ v # Garbage
  <2>1. D = {}
    BY <1>8 DEF Read
  <2>2. Expected(v) = 0
    BY <1>8 DEF Expected
  <2> QED BY <1>2, <2>1, <2>2, FS_EmptySet
<1>9. CASE ~onDisk /\ v = Garbage
  <2>1. CASE variant = "parallel"
    <3>1. D = 0..(addCount - 1)
      BY <1>9, <2>1 DEF Read, Delivers
    <3>2. Expected(v) = addCount
      BY <1>9, <2>1 DEF Expected
    <3> QED BY <1>2, <1>3, <3>1, <3>2
  <2>2. CASE variant # "parallel"
    <3>1. D = entries
      BY <1>1, <1>9, <2>2 DEF Read, Delivers
    <3>2. Expected(v) = Cardinality(entries)
      BY <1>9, <2>2 DEF Expected
    <3> QED BY <1>2, <3>1, <3>2
  <2> QED BY <2>1, <2>2
<1> QED BY <1>1, <1>6, <1>7, <1>8, <1>9

\* A pool is stopped only when no RSA thread and no worker of an earlier pool can
\* enqueue any more: join follows the order of the pipeline, and no token is dropped
\* by an enqueue on a stopped pool.
THEOREM StopsInOrder == ParallelSpec => []ClosedInOrder
BY ParallelInvariance, IInvClosed, PTL

\* A search that has returned has delivered every token of the chain once, whatever
\* the number of RSA threads and the order in which the pools' workers ran.
THEOREM DeliversAll == ParallelSpec => []Complete
BY ParallelInvariance, IInvComplete, PTL

\* No thread touches the results once the caller has them.
THEOREM Quiet == ParallelSpec => QuietAfterReturn
<1>1. ParallelIInv /\ [ParallelNext]_parallelVars => [Returned => UNCHANGED results]_parallelVars
  <2> SUFFICES ASSUME ParallelIInv, ParallelNext, Returned PROVE results' = results
    BY DEF parallelVars
  <2>1. /\ \A t \in DOMAIN next : next[t] >= addCount
        /\ \A k \in DOMAIN pools : DOMAIN pools[k].running = {}
        /\ addCount \in Nat /\ \A t \in DOMAIN next : next[t] \in Nat
    BY ReturnedSettled, ShapeFacts DEF ParallelIInv
  <2>2. ~rsa
    <3>1. \A t \in DOMAIN next : ~(next[t] < addCount)
      BY <2>1
    <3> QED BY <3>1 DEF rsa, rsaStep
  <2>3. ASSUME NEW k \in DOMAIN pools, NEW w \in StageWorkers, worker(k, w) PROVE results' = results
    BY <2>1, <2>3 DEF worker, begin, end, TP!Idle
  <2>4. CASE searcher
    BY <2>4 DEF searcher, joinRsa, close, joined
  <2> QED BY <2>2, <2>3, <2>4 DEF ParallelNext
<1> QED BY <1>1, ParallelInvariance, PTL DEF ParallelSpec, QuietAfterReturn

-----------------------------------------------------------------------------
\* Fides.

\* The length of the chain of w by the client's counter.
Chain(w) == AddCount(ramCounter, w)

\* Every token of the table is a token of a chain.
WithinChain == \A t \in DOMAIN edb : t.prg = prg /\ t.cnt < Chain(t.word)

\* The held counters of a keyword are the last ones of its chain: all from some
\* counter, the first one written after the last cleaning, to the end.
HeldFrom(w, m) == Held(w) = m..(Chain(w) - 1)
HeldInterval == \A w \in Keywords : \E m \in 0..Chain(w) : HeldFrom(w, m)

IInv == TypeOK /\ WithinChain /\ HeldInterval

\* The results a search of w computes from what the server holds.
Results(w) == FinalRes([c \in Held(w) |-> edb[Token(prg, w, c)]])

-----------------------------------------------------------------------------
\* The chain of every keyword has a length.
LEMMA ChainType ==
    ASSUME IInv, NEW w \in Keywords
    PROVE  Chain(w) \in Nat
BY DEF IInv, TypeOK, Chain, AddCount

\* Tokens of different keywords or counters are different.
LEMMA TokensDiffer ==
    \A p, v, w, b, c : Token(p, v, b) = Token(p, w, c) => v = w /\ b = c
<1> SUFFICES ASSUME NEW p, NEW v, NEW w, NEW b, NEW c, Token(p, v, b) = Token(p, w, c)
             PROVE  v = w /\ b = c
  OBVIOUS
<1>1. Token(p, v, b).word = v /\ Token(p, v, b).cnt = b
  BY DEF Token
<1>2. Token(p, w, c).word = w /\ Token(p, w, c).cnt = c
  BY DEF Token
<1> QED BY <1>1, <1>2

\* update_request, len times in a row, lengthens the chain of w by len and no other.
LEMMA AdvanceChain ==
    ASSUME IInv, NEW w \in Keywords, NEW len \in Nat, ramCounter' = Advance(ramCounter, w, len)
    PROVE  /\ Chain(w)' = Chain(w) + len
           /\ \A v \in Keywords \ {w} : Chain(v)' = Chain(v)
           /\ DOMAIN ramCounter' \subseteq Keywords
           /\ \A v \in DOMAIN ramCounter' : ramCounter'[v] \in Nat
<1>1. Chain(w) \in Nat
  BY ChainType
<1>2. CASE len = 0
  <2>1. ramCounter' = ramCounter
    BY <1>2 DEF Advance
  <2> QED BY <1>1, <1>2, <2>1 DEF IInv, TypeOK, Chain
<1>3. CASE len # 0
  <2>1. ramCounter' = [v \in DOMAIN ramCounter \cup {w} |->
                          IF v = w THEN Chain(w) + len - 1 ELSE ramCounter[v]]
    BY <1>3 DEF Advance, Chain
  <2>2. w \in DOMAIN ramCounter' /\ ramCounter'[w] = Chain(w) + len - 1
    BY <2>1
  <2>3. ramCounter'[w] \in Nat /\ Chain(w)' = Chain(w) + len
    BY <1>1, <1>3, <2>2 DEF Chain, AddCount
  <2>4. \A v \in Keywords \ {w} : /\ v \in DOMAIN ramCounter' <=> v \in DOMAIN ramCounter
                                  /\ v \in DOMAIN ramCounter => ramCounter'[v] = ramCounter[v]
    BY <2>1
  <2>5. \A v \in Keywords \ {w} : Chain(v)' = Chain(v)
    BY <2>4 DEF Chain, AddCount
  <2> QED BY <2>1, <2>3, <2>4, <2>5 DEF IInv, TypeOK
<1> QED BY <1>2, <1>3

\* insertKeyword and deleteKeyword: the token is new, so it is stored whichever
\* table is used; nothing else changes.
LEMMA UpdateStep ==
    ASSUME IInv, NEW op \in {"INS", "DEL"}, NEW w \in Keywords, NEW d \in Docs,
           update(op, w, d)
    PROVE  LET t == Token(prg, w, Chain(w))
           IN  /\ t \in Tokens /\ t \notin DOMAIN edb
               /\ Chain(w)' = Chain(w) + 1
               /\ \A v \in Keywords \ {w} : Chain(v)' = Chain(v)
               /\ DOMAIN ramCounter' \subseteq Keywords
               /\ \A v \in DOMAIN ramCounter' : ramCounter'[v] \in Nat
               /\ DOMAIN edb' = DOMAIN edb \cup {t}
               /\ edb'[t] = [op |-> op, ind |-> d]
               /\ \A x \in DOMAIN edb : edb'[x] = edb[x]
               /\ prg' = prg /\ answer' = answer
<1> DEFINE t == Token(prg, w, Chain(w))
<1>1. Chain(w) \in Nat
  BY ChainType
<1>2. t \in Tokens /\ t.word = w /\ t.cnt = Chain(w)
  BY <1>1 DEF Token, Tokens, IInv, TypeOK
<1>3. t \notin DOMAIN edb
  BY <1>1, <1>2 DEF IInv, WithinChain
<1>4. edb' = Store(edb, t, [op |-> op, ind |-> d]) /\ prg' = prg /\ answer' = answer
  BY DEF update, Chain
<1>5. ramCounter' = Advance(ramCounter, w, 1)
  BY DEF update
<1>6. /\ DOMAIN edb' = DOMAIN edb \cup {t}
      /\ edb'[t] = [op |-> op, ind |-> d]
      /\ \A x \in DOMAIN edb : edb'[x] = edb[x]
  <2> HIDE DEF t
  <2> QED BY <1>3, <1>4 DEF Store
<1> QED BY <1>2, <1>3, <1>4, <1>5, <1>6, AdvanceChain

\* The held counters of the updated keyword grow by the newest one.
LEMMA UpdateHeld ==
    ASSUME IInv, NEW op \in {"INS", "DEL"}, NEW w \in Keywords, NEW d \in Docs,
           update(op, w, d)
    PROVE  /\ Held(w)' = Held(w) \cup {Chain(w)}
           /\ \A v \in Keywords \ {w} : Held(v)' = Held(v)
<1> DEFINE t == Token(prg, w, Chain(w))
<1>1. /\ t \notin DOMAIN edb /\ Chain(w)' = Chain(w) + 1
      /\ \A v \in Keywords \ {w} : Chain(v)' = Chain(v)
      /\ DOMAIN edb' = DOMAIN edb \cup {t} /\ prg' = prg
  BY UpdateStep
<1>2. Chain(w) \in Nat
  BY ChainType
<1>3. ASSUME NEW c \in 0..Chain(w)
      PROVE  Token(prg, w, c) \in DOMAIN edb' <=> Token(prg, w, c) \in DOMAIN edb \/ c = Chain(w)
  BY <1>1, TokensDiffer
<1>4. \A v \in Keywords : Held(v) = {c \in 0..(Chain(v) - 1) : Token(prg, v, c) \in DOMAIN edb}
  BY DEF Held, Chain
<1>5. \A v \in Keywords : Held(v)' = {c \in 0..(Chain(v)' - 1) : Token(prg, v, c) \in DOMAIN edb'}
  BY <1>1 DEF Held, Chain
<1>6. \A v \in Keywords \ {w} : \A c :
         Token(prg, v, c) \in DOMAIN edb' <=> Token(prg, v, c) \in DOMAIN edb
  BY <1>1, TokensDiffer
<1>7. \A v \in Keywords \ {w} : Held(v)' = Held(v)
  BY <1>1, <1>4, <1>5, <1>6
<1>8. Held(w)' = Held(w) \cup {Chain(w)}
  <2>1. Held(w)' = {c \in 0..Chain(w) : Token(prg, w, c) \in DOMAIN edb'}
    BY <1>1, <1>2, <1>5
  <2>2. t \in DOMAIN edb'
    BY <1>1
  <2> HIDE DEF t
  <2> QED BY <1>2, <1>3, <1>4, <2>1, <2>2
<1> QED BY <1>7, <1>8

\* Updates keep the inductive invariant.
LEMMA UpdateIInv ==
    ASSUME IInv, NEW op \in {"INS", "DEL"}, NEW w \in Keywords, NEW d \in Docs,
           update(op, w, d)
    PROVE  IInv'
<1> DEFINE t == Token(prg, w, Chain(w))
           e == [op |-> op, ind |-> d]
<1>1. /\ t \in Tokens /\ t \notin DOMAIN edb
      /\ Chain(w)' = Chain(w) + 1
      /\ \A v \in Keywords \ {w} : Chain(v)' = Chain(v)
      /\ DOMAIN ramCounter' \subseteq Keywords
      /\ \A v \in DOMAIN ramCounter' : ramCounter'[v] \in Nat
      /\ DOMAIN edb' = DOMAIN edb \cup {t} /\ edb'[t] = e
      /\ \A x \in DOMAIN edb : edb'[x] = edb[x]
      /\ prg' = prg /\ answer' = answer
  BY UpdateStep
<1>2. e \in Values
  BY DEF Values
<1>3. Chain(w) \in Nat /\ \A v \in Keywords : Chain(v) \in Nat
  BY ChainType
<1>4. t.word = w /\ t.cnt = Chain(w) /\ t.prg = prg
  BY DEF Token
<1>5. TypeOK'
  <2> HIDE DEF t, e
  <2>1. \A x \in DOMAIN edb' : edb'[x] \in Values
    BY <1>1, <1>2 DEF IInv, TypeOK
  <2>2. prg' \in PrgKeys /\ answer' \in {<<>>} \cup (Keywords \X SUBSET Docs)
    BY <1>1 DEF IInv, TypeOK
  <2> QED BY <1>1, <2>1, <2>2 DEF IInv, TypeOK
<1>6. WithinChain'
  <2> HIDE DEF t, e
  <2>1. \A x \in DOMAIN edb : x.word \in Keywords /\ x.cnt \in Nat
    BY DEF IInv, TypeOK, Tokens
  <2>2. \A x \in DOMAIN edb : x.prg = prg /\ x.cnt < Chain(x.word)
    BY DEF IInv, WithinChain
  <2>3. ASSUME NEW x \in DOMAIN edb' PROVE x.prg = prg' /\ x.cnt < Chain(x.word)'
    <3>1. CASE x = t
      BY <1>1, <1>3, <1>4, <3>1
    <3>2. CASE x \in DOMAIN edb /\ x.word = w
      <4>1. Chain(x.word)' = Chain(w) + 1 /\ x.cnt < Chain(w) /\ x.cnt \in Nat
        BY <1>1, <2>1, <2>2, <3>2
      <4> QED BY <1>1, <1>3, <2>2, <3>2, <4>1
    <3>3. CASE x \in DOMAIN edb /\ x.word # w
      <4>1. Chain(x.word)' = Chain(x.word)
        BY <1>1, <2>1, <3>3
      <4> QED BY <1>1, <2>2, <3>3, <4>1
    <3> QED BY <1>1, <3>1, <3>2, <3>3
  <2> QED BY <2>3 DEF WithinChain
<1>7. HeldInterval'
  <2>1. ASSUME NEW v \in Keywords \ {w} PROVE \E m \in 0..Chain(v)' : HeldFrom(v, m)'
    BY <1>1, UpdateHeld DEF IInv, HeldInterval, HeldFrom
  <2>2. \E m \in 0..Chain(w)' : HeldFrom(w, m)'
    <3>1. PICK m \in 0..Chain(w) : Held(w) = m..(Chain(w) - 1)
      BY DEF IInv, HeldInterval, HeldFrom
    <3>2. Held(w)' = m..Chain(w)
      <4>1. Held(w)' = Held(w) \cup {Chain(w)}
        BY UpdateHeld
      <4> QED BY <1>3, <3>1, <4>1
    <3>3. m \in 0..Chain(w)' /\ Held(w)' = m..(Chain(w)' - 1)
      BY <1>1, <1>3, <3>1, <3>2
    <3> QED BY <3>3 DEF HeldFrom
  <2> QED BY <2>1, <2>2 DEF HeldInterval
<1> QED BY <1>5, <1>6, <1>7 DEF IInv

-----------------------------------------------------------------------------
\* The rank of a member of a finite set of integers runs through 1..|S|, each
\* rank once, so NthIn is its inverse: the loop over a std::map meets every
\* result exactly once.
LEMMA RankBijection ==
    ASSUME NEW S, IsFiniteSet(S), S \subseteq Int
    PROVE  /\ Cardinality(S) \in Nat
           /\ \A r \in 1..Cardinality(S) : NthIn(S, r) \in S
           /\ \A d \in S : RankIn(S, d) \in 1..Cardinality(S) /\ NthIn(S, RankIn(S, d)) = d
<1> DEFINE k == Cardinality(S)
           Low(d) == {e \in S : e <= d}
<1>1. k \in Nat
  BY FS_CardinalityType
<1>2. ASSUME NEW d \in S PROVE RankIn(S, d) \in 1..k
  <2>1. Low(d) \in SUBSET S /\ d \in Low(d)
    OBVIOUS
  <2>2. IsFiniteSet(Low(d)) /\ Cardinality(Low(d)) <= k
    BY <2>1, FS_Subset
  <2>3. Cardinality(Low(d)) \in Nat /\ Cardinality(Low(d)) # 0
    BY <2>1, <2>2, FS_CardinalityType, FS_EmptySet
  <2>4. RankIn(S, d) = Cardinality(Low(d))
    BY DEF RankIn
  <2> HIDE DEF k, Low
  <2> QED BY <1>1, <2>2, <2>3, <2>4
<1>3. ASSUME NEW d \in S, NEW e \in S, d < e PROVE RankIn(S, d) # RankIn(S, e)
  <2>1. Low(d) \in SUBSET Low(e) /\ Low(d) # Low(e) /\ Low(e) \in SUBSET S
    <3>1. \A x \in S : x <= d => x <= e
      BY <1>3
    <3>2. e \in Low(e) /\ e \notin Low(d)
      BY <1>3
    <3> QED BY <3>1, <3>2
  <2>2. IsFiniteSet(Low(e))
    BY <2>1, FS_Subset
  <2>3. Cardinality(Low(e)) # Cardinality(Low(d))
    <3> HIDE DEF Low
    <3> QED BY <2>1, <2>2, FS_Subset
  <2> QED BY <2>3 DEF RankIn
<1>4. \A d, e \in S : RankIn(S, d) = RankIn(S, e) => d = e
  BY <1>3
<1> DEFINE f == [d \in S |-> RankIn(S, d)]
<1>5. f \in Injection(S, 1..k)
  BY <1>2, <1>4 DEF Injection, IsInjective
<1>6. IsFiniteSet(1..k) /\ Cardinality(1..k) = k
  BY <1>1, FS_Interval
<1>7. f \in Surjection(S, 1..k)
  <2> HIDE DEF f
  <2> QED BY <1>5, <1>6, FS_Injection
<1>8. ASSUME NEW r \in 1..k PROVE \E d \in S : RankIn(S, d) = r
  BY <1>7 DEF Surjection
<1>9. \A r \in 1..k : NthIn(S, r) \in S
  BY <1>8 DEF NthIn
<1>10. \A d \in S : NthIn(S, RankIn(S, d)) = d
  BY <1>4 DEF NthIn
<1> QED BY <1>1, <1>2, <1>9, <1>10

\* The results of a search are a finite set of documents.
LEMMA ResultsType ==
    ASSUME NEW w
    PROVE  /\ Results(w) \in SUBSET Docs /\ IsFiniteSet(Results(w))
           /\ Results(w) \subseteq Int /\ Cardinality(Results(w)) \in Nat
<1>1. Results(w) \in SUBSET Docs
  BY DEF Results, FinalRes
<1> QED BY <1>1, SophosAssumption, FS_Subset, FS_CardinalityType

\* A cleaning search takes every token of the keyword out of the table, and puts
\* its results back, each once and in ascending order, under the next tokens of
\* the chain; the entries of other keywords stay.
LEMMA CleanStep ==
    ASSUME IInv, NEW w \in Keywords, searchKeyword(w), DeleteItems
    PROVE  LET len == Chain(w)
               k == Cardinality(Results(w))
           IN  /\ Chain(w)' = len + k
               /\ \A v \in Keywords \ {w} : Chain(v)' = Chain(v)
               /\ DOMAIN ramCounter' \subseteq Keywords
               /\ \A v \in DOMAIN ramCounter' : ramCounter'[v] \in Nat
               /\ \A x : x \in DOMAIN edb' <=>
                            \/ x \in DOMAIN edb /\ x.word # w
                            \/ \E r \in 1..k : x = Token(prg, w, len + r - 1)
               /\ \A x \in DOMAIN edb : x.word # w => edb'[x] = edb[x]
               /\ \A r \in 1..k : edb'[Token(prg, w, len + r - 1)]
                                    = [op |-> "INS", ind |-> NthIn(Results(w), r)]
               /\ prg' = prg /\ answer' = <<w, Results(w)>>
<1> DEFINE len == Chain(w)
           res == Results(w)
           k == Cardinality(res)
           old == Erase(edb, prg, w, Held(w))
           new == Reinserted(prg, w, len, res)
<1>1. Found(edb, prg, w, len) = Held(w)
  BY DEF Found, Held, Chain
<1>2. /\ answer' = <<w, res>> /\ prg' = prg
      /\ edb' = StoreAll(old, new)
      /\ ramCounter' = Advance(ramCounter, w, k)
  BY <1>1 DEF searchKeyword, Chain, Results
<1>3. len \in Nat /\ k \in Nat
  BY ChainType, ResultsType
<1>4. \A x \in DOMAIN edb : /\ x.word = w => x.cnt \in Held(w) /\ x = Token(prg, w, x.cnt)
                            /\ x.word # w => \A c : x # Token(prg, w, c)
  <2> SUFFICES ASSUME NEW x \in DOMAIN edb
               PROVE  /\ x.word = w => x.cnt \in Held(w) /\ x = Token(prg, w, x.cnt)
                      /\ x.word # w => \A c : x # Token(prg, w, c)
    OBVIOUS
  <2>1. x \in Tokens /\ x.prg = prg /\ x.cnt < Chain(x.word)
    BY DEF IInv, TypeOK, WithinChain
  <2>2. x = Token(prg, x.word, x.cnt) /\ x.cnt \in Nat
    BY <2>1 DEF Tokens, Token
  <2>3. x.word = w => x.cnt \in 0..(len - 1)
    BY <1>3, <2>1, <2>2
  <2>4. x.word = w => x.cnt \in Held(w)
    BY <2>2, <2>3 DEF Held, Chain
  <2> QED BY <2>2, <2>4, TokensDiffer
<1>5. /\ \A x : x \in DOMAIN old <=> x \in DOMAIN edb /\ x.word # w
      /\ \A x \in DOMAIN old : old[x] = edb[x]
  BY <1>4 DEF Erase
<1>6. /\ \A x : x \in DOMAIN new <=> \E r \in 1..k : x = Token(prg, w, len + r - 1)
      /\ \A r \in 1..k : new[Token(prg, w, len + r - 1)] = [op |-> "INS", ind |-> NthIn(res, r)]
  <2>1. new = [t \in {Token(prg, w, len + r - 1) : r \in 1..k} |->
                 [op |-> "INS", ind |-> NthIn(res, t.cnt - len + 1)]]
    BY DEF Reinserted
  <2>2. \A r \in 1..k : Token(prg, w, len + r - 1).cnt - len + 1 = r
    BY <1>3 DEF Token
  <2> HIDE DEF new, len, k, res
  <2> QED BY <2>1, <2>2
<1>7. \A x : ~(x \in DOMAIN old /\ x \in DOMAIN new)
  <2>1. \A r \in 1..k : Token(prg, w, len + r - 1).word = w
    BY DEF Token
  <2> HIDE DEF old, new, len, k
  <2> QED BY <1>5, <1>6, <2>1
<1>8. /\ \A x : x \in DOMAIN edb' <=> x \in DOMAIN old \/ x \in DOMAIN new
      /\ \A x \in DOMAIN old : edb'[x] = old[x]
      /\ \A x \in DOMAIN new : edb'[x] = new[x]
  <2> HIDE DEF old, new
  <2> QED BY <1>2, <1>7 DEF StoreAll
<1>9. /\ Chain(w)' = len + k
      /\ \A v \in Keywords \ {w} : Chain(v)' = Chain(v)
      /\ DOMAIN ramCounter' \subseteq Keywords
      /\ \A v \in DOMAIN ramCounter' : ramCounter'[v] \in Nat
  BY <1>2, <1>3, AdvanceChain
<1> HIDE DEF old, new, len, k, res
<1>10. \A x \in DOMAIN edb : x.word # w => edb'[x] = edb[x]
  BY <1>5, <1>8
<1>11. \A r \in 1..k : edb'[Token(prg, w, len + r - 1)] = [op |-> "INS", ind |-> NthIn(res, r)]
  BY <1>6, <1>8
<1>12. \A x : x \in DOMAIN edb' <=>
                 \/ x \in DOMAIN edb /\ x.word # w
                 \/ \E r \in 1..k : x = Token(prg, w, len + r - 1)
  BY <1>5, <1>6, <1>8
<1> QED BY <1>2, <1>9, <1>10, <1>11, <1>12 DEF len, k, res

\* After a cleaning search the server holds the re-insertions and nothing before.
LEMMA CleanHeld ==
    ASSUME IInv, NEW w \in Keywords, searchKeyword(w), DeleteItems
    PROVE  /\ Held(w)' = Chain(w)..(Chain(w)' - 1)
           /\ \A v \in Keywords \ {w} : Held(v)' = Held(v)
<1> DEFINE len == Chain(w)
           k == Cardinality(Results(w))
<1>1. /\ Chain(w)' = len + k /\ prg' = prg
      /\ \A v \in Keywords \ {w} : Chain(v)' = Chain(v)
      /\ \A x : x \in DOMAIN edb' <=>
                   \/ x \in DOMAIN edb /\ x.word # w
                   \/ \E r \in 1..k : x = Token(prg, w, len + r - 1)
  BY CleanStep
<1>2. len \in Nat /\ k \in Nat
  BY ChainType, ResultsType
<1>3. \A v, c : Token(prg, v, c).word = v
  BY DEF Token
<1> HIDE DEF len, k
<1>4. \A v \in Keywords : \A c :
         /\ c \in Held(v) <=> c \in 0..(Chain(v) - 1) /\ Token(prg, v, c) \in DOMAIN edb
         /\ c \in Held(v)' <=> c \in 0..(Chain(v)' - 1) /\ Token(prg, v, c) \in DOMAIN edb'
  BY <1>1 DEF Held, Chain
<1>5. \A v \in Keywords \ {w} : \A c :
         Token(prg, v, c) \in DOMAIN edb' <=> Token(prg, v, c) \in DOMAIN edb
  BY <1>1, <1>3
<1>6. ASSUME NEW c \in 0..(len + k - 1)
      PROVE  Token(prg, w, c) \in DOMAIN edb' <=> c \in len..(len + k - 1)
  <2>1. Token(prg, w, c) \in DOMAIN edb' <=> \E r \in 1..k : c = len + r - 1
    BY <1>1, <1>3, TokensDiffer
  <2>2. c \in len..(len + k - 1) => c - len + 1 \in 1..k /\ c = len + (c - len + 1) - 1
    BY <1>2
  <2>3. \A r \in 1..k : len + r - 1 \in len..(len + k - 1)
    BY <1>2
  <2> QED BY <2>1, <2>2, <2>3
<1>7. Held(w)' = len..(len + k - 1)
  <2>1. \A c : c \in Held(w)' <=> c \in 0..(len + k - 1) /\ Token(prg, w, c) \in DOMAIN edb'
    BY <1>1, <1>2, <1>4
  <2>2. len..(len + k - 1) \subseteq 0..(len + k - 1)
    BY <1>2
  <2> QED BY <1>6, <2>1, <2>2
<1>8. \A v \in Keywords \ {w} : Held(v)' = Held(v)
  <2>1. \A v \in Keywords \ {w} : \A c : c \in Held(v)' <=> c \in Held(v)
    BY <1>1, <1>4, <1>5
  <2>2. \A v : /\ Held(v) = {c \in 0..(Chain(v) - 1) : Token(prg, v, c) \in DOMAIN edb}
               /\ Held(v)' = {c \in 0..(Chain(v)' - 1) : Token(prg', v, c) \in DOMAIN edb'}
    BY DEF Held, Chain
  <2> QED BY <2>1, <2>2
<1>9. Held(w)' = len..(Chain(w)' - 1)
  BY <1>1, <1>2, <1>7
<1> QED BY <1>8, <1>9 DEF len

\* Searches keep the inductive invariant, in either mode.
LEMMA SearchIInv ==
    ASSUME IInv, NEW w \in Keywords, searchKeyword(w)
    PROVE  IInv'
<1>1. answer' = <<w, Results(w)>> /\ prg' = prg
  BY DEF searchKeyword, Results, Found, Held
<1>2. answer' \in {<<>>} \cup (Keywords \X SUBSET Docs)
  BY <1>1, ResultsType
<1>3. CASE ~DeleteItems
  <2>1. UNCHANGED <<ramCounter, edb, prg>>
    BY <1>3 DEF searchKeyword
  <2> QED BY <1>2, <2>1 DEF IInv, TypeOK, WithinChain, HeldInterval, HeldFrom, Held, Chain
<1>4. CASE DeleteItems
  <2> DEFINE len == Chain(w)
             k == Cardinality(Results(w))
  <2>1. /\ Chain(w)' = len + k
        /\ \A v \in Keywords \ {w} : Chain(v)' = Chain(v)
        /\ DOMAIN ramCounter' \subseteq Keywords
        /\ \A v \in DOMAIN ramCounter' : ramCounter'[v] \in Nat
        /\ \A x : x \in DOMAIN edb' <=>
                     \/ x \in DOMAIN edb /\ x.word # w
                     \/ \E r \in 1..k : x = Token(prg, w, len + r - 1)
        /\ \A x \in DOMAIN edb : x.word # w => edb'[x] = edb[x]
        /\ \A r \in 1..k : edb'[Token(prg, w, len + r - 1)]
                             = [op |-> "INS", ind |-> NthIn(Results(w), r)]
    BY <1>4, CleanStep
  <2>2. len \in Nat /\ k \in Nat
    BY ChainType, ResultsType
  <2>3. \A r \in 1..k : NthIn(Results(w), r) \in Docs
    BY ResultsType, RankBijection
  <2> HIDE DEF len, k
  <2>4. \A r \in 1..k : LET t == Token(prg, w, len + r - 1)
                        IN  /\ t \in Tokens /\ t.prg = prg /\ t.word = w /\ t.cnt < len + k
                            /\ edb'[t] \in Values
    <3>1. ASSUME NEW r \in 1..k
          PROVE  len + r - 1 \in Nat /\ len + r - 1 < len + k
      BY <2>2
    <3>2. ASSUME NEW c \in Nat
          PROVE  LET t == Token(prg, w, c)
                 IN  t \in Tokens /\ t.prg = prg /\ t.word = w /\ t.cnt = c
      BY DEF Token, Tokens, IInv, TypeOK
    <3>3. ASSUME NEW r \in 1..k PROVE edb'[Token(prg, w, len + r - 1)] \in Values
      <4>1. \A d \in Docs : [op |-> "INS", ind |-> d] \in Values
        BY DEF Values
      <4> QED BY <2>1, <2>3, <4>1
    <3> QED BY <3>1, <3>2, <3>3
  <2>5. TypeOK'
    <3>1. DOMAIN edb' \subseteq Tokens /\ \A x \in DOMAIN edb' : edb'[x] \in Values
      BY <2>1, <2>4 DEF IInv, TypeOK
    <3>2. prg' \in PrgKeys
      BY <1>1 DEF IInv, TypeOK
    <3> QED BY <1>2, <2>1, <3>1, <3>2 DEF TypeOK
  <2>6. WithinChain'
    <3> SUFFICES ASSUME NEW x \in DOMAIN edb' PROVE x.prg = prg' /\ x.cnt < Chain(x.word)'
      BY DEF WithinChain
    <3>1. CASE x \in DOMAIN edb /\ x.word # w
      <4>1. x.word \in Keywords /\ x.prg = prg /\ x.cnt < Chain(x.word)
        BY <3>1 DEF IInv, TypeOK, Tokens, WithinChain
      <4>2. Chain(x.word)' = Chain(x.word)
        BY <2>1, <3>1, <4>1
      <4> QED BY <1>1, <4>1, <4>2
    <3>2. CASE \E r \in 1..k : x = Token(prg, w, len + r - 1)
      <4>1. x.prg = prg /\ x.word = w /\ x.cnt < len + k
        BY <2>4, <3>2
      <4>2. Chain(x.word)' = len + k
        BY <2>1, <4>1
      <4> QED BY <1>1, <4>1, <4>2
    <3> QED BY <2>1, <3>1, <3>2
  <2>7. HeldInterval'
    <3>1. ASSUME NEW v \in Keywords \ {w} PROVE \E m \in 0..Chain(v)' : HeldFrom(v, m)'
      BY <1>4, <2>1, CleanHeld DEF IInv, HeldInterval, HeldFrom
    <3>2. \E m \in 0..Chain(w)' : HeldFrom(w, m)'
      <4>1. Held(w)' = len..(Chain(w)' - 1)
        BY <1>4, CleanHeld DEF len
      <4>2. len \in 0..Chain(w)'
        BY <2>1, <2>2
      <4> QED BY <4>1, <4>2 DEF HeldFrom
    <3> QED BY <3>1, <3>2 DEF HeldInterval
  <2> QED BY <2>5, <2>6, <2>7 DEF IInv
<1> QED BY <1>3, <1>4

\* A new client with a new table satisfies the inductive invariant.
LEMMA InitIInv == Init => IInv
<1> SUFFICES ASSUME Init PROVE IInv
  OBVIOUS
<1>1. DOMAIN ramCounter = {} /\ DOMAIN edb = {} /\ prg \in PrgKeys /\ answer = <<>>
  BY DEF Init
<1>2. TypeOK /\ WithinChain
  BY <1>1 DEF TypeOK, WithinChain
<1>3. \A w : Chain(w) = 0 /\ Held(w) = {}
  BY <1>1 DEF Chain, AddCount, Held
<1>4. \A w \in Keywords : 0 \in 0..Chain(w) /\ HeldFrom(w, 0)
  BY <1>3 DEF HeldFrom
<1>5. HeldInterval
  BY <1>4 DEF HeldInterval
<1> QED BY <1>2, <1>5 DEF IInv

\* Every step keeps the inductive invariant.
LEMMA NextIInv == IInv /\ [Next]_vars => IInv'
<1> SUFFICES ASSUME IInv, [Next]_vars PROVE IInv'
  OBVIOUS
<1>1. CASE \E op \in {"INS", "DEL"}, w \in Keywords, d \in Docs : update(op, w, d)
  BY <1>1, UpdateIInv
<1>2. CASE \E w \in Keywords : searchKeyword(w)
  BY <1>2, SearchIInv
<1>3. CASE UNCHANGED vars
  BY <1>3 DEF vars, IInv, TypeOK, WithinChain, HeldInterval, HeldFrom, Held, Chain
<1> QED BY <1>1, <1>2, <1>3 DEF Next

\* The inductive invariant holds in every reachable state.
LEMMA Invariance == Spec => []IInv
BY InitIInv, NextIInv, PTL DEF Spec

\* For any keywords, documents and number of operations, with the table in memory
\* or in RocksDB and in either mode: the server never holds a token beyond the
\* client's chain, and what it holds of a keyword is a suffix of the chain.
THEOREM SuffixHeld == Spec => []HeldIsSuffix
<1>1. IInv => HeldIsSuffix
  <2> SUFFICES ASSUME IInv PROVE HeldIsSuffix
    OBVIOUS
  <2>1. \A t \in DOMAIN edb : t.prg = prg /\ t.cnt < AddCount(ramCounter, t.word)
    BY DEF IInv, WithinChain, Chain
  <2>2. ASSUME NEW w \in Keywords, NEW c \in Held(w), NEW b \in c..(AddCount(ramCounter, w) - 1)
        PROVE  b \in Held(w)
    <3>1. PICK m \in 0..Chain(w) : Held(w) = m..(Chain(w) - 1)
      BY DEF IInv, HeldInterval, HeldFrom
    <3>2. Chain(w) \in Nat
      BY ChainType
    <3> QED BY <3>1, <3>2, <2>2 DEF Chain
  <2> QED BY <2>1, <2>2 DEF IInv, HeldIsSuffix
<1> QED BY <1>1, Invariance, PTL

-----------------------------------------------------------------------------
\* The cardinality that SSEIndex counts with is the cardinality of this module.
LEMMA SameCardinality == \A S : Index!Cardinality(S) = Cardinality(S)
BY DEF Index!Cardinality, Cardinality

\* How often a function takes a value.
Taken(f, e) == Cardinality({x \in DOMAIN f : f[x] = e})

\* Counting a value along the chain or along the log gives the same number.
LEMMA ShiftedCount ==
    ASSUME NEW m \in Nat, NEW len \in Nat, m <= len, NEW e,
           NEW vals, DOMAIN vals = m..(len - 1),
           NEW s, DOMAIN s = 1..(len - m), \A i \in 1..(len - m) : s[i] = vals[m + i - 1]
    PROVE  Taken(vals, e) = Taken(s, e) /\ Taken(s, e) \in Nat
<1> DEFINE A == {i \in 1..(len - m) : s[i] = e}
           B == {c \in m..(len - 1) : vals[c] = e}
           f == [i \in A |-> m + i - 1]
<1>1. A \in SUBSET (1..(len - m)) /\ IsFiniteSet(1..(len - m))
  BY FS_Interval
<1>2. IsFiniteSet(A) /\ Cardinality(A) \in Nat
  BY <1>1, FS_Subset, FS_CardinalityType
<1>3. ASSUME NEW i \in A PROVE m + i - 1 \in B
  OBVIOUS
<1>4. ASSUME NEW c \in B PROVE c - m + 1 \in A /\ m + (c - m + 1) - 1 = c
  <2>1. c - m + 1 \in 1..(len - m) /\ m + (c - m + 1) - 1 = c
    OBVIOUS
  <2> QED BY <2>1
<1>5. f \in Injection(A, B)
  <2>1. f \in [A -> B]
    BY <1>3
  <2>2. ASSUME NEW i \in A, NEW j \in A, f[i] = f[j] PROVE i = j
    BY <2>2
  <2> HIDE DEF f, A, B
  <2> QED BY <2>1, <2>2 DEF Injection, IsInjective
<1>6. f \in Surjection(A, B)
  <2>1. f \in [A -> B]
    BY <1>3
  <2>2. ASSUME NEW c \in B PROVE \E i \in A : f[i] = c
    BY <1>4
  <2> HIDE DEF f, A, B
  <2> QED BY <2>1, <2>2 DEF Surjection
<1>7. ExistsBijection(A, B)
  BY <1>5, <1>6 DEF ExistsBijection, Bijection
<1>8. Cardinality(B) = Cardinality(A)
  <2> HIDE DEF A, B
  <2> QED BY <1>2, <1>7, FS_Bijection
<1> QED BY <1>2, <1>8 DEF Taken

\* The abstract log of a keyword whose entries are held from counter m on.
LEMMA LogFrom ==
    ASSUME IInv, NEW w \in Keywords, NEW m \in 0..Chain(w), HeldFrom(w, m)
    PROVE  /\ Chain(w) \in Nat /\ Cardinality(Held(w)) = Chain(w) - m
           /\ StoredLog[w] = [i \in 1..(Chain(w) - m) |-> edb[Token(prg, w, m + i - 1)]]
           /\ \A i \in 1..(Chain(w) - m) : Token(prg, w, m + i - 1) \in DOMAIN edb
<1>1. Chain(w) \in Nat /\ Held(w) = m..(Chain(w) - 1)
  BY ChainType DEF HeldFrom
<1>2. Cardinality(Held(w)) = Chain(w) - m
  BY <1>1, FS_Interval
<1>3. StoredLog[w] = [i \in 1..(Chain(w) - m) |-> edb[Token(prg, w, Chain(w) - (Chain(w) - m) + i - 1)]]
  BY <1>2 DEF StoredLog, Chain
<1>4. \A i \in 1..(Chain(w) - m) : Chain(w) - (Chain(w) - m) + i - 1 = m + i - 1
  BY <1>1
<1>5. StoredLog[w] = [i \in 1..(Chain(w) - m) |-> edb[Token(prg, w, m + i - 1)]]
  BY <1>3, <1>4
<1>6. \A i \in 1..(Chain(w) - m) : m + i - 1 \in Held(w)
  BY <1>1
<1>7. \A i \in 1..(Chain(w) - m) : Token(prg, w, m + i - 1) \in DOMAIN edb
  BY <1>6 DEF Held
<1> QED BY <1>1, <1>2, <1>5, <1>7

\* A search computes what the abstract index answers for the stored log.
LEMMA SearchAnswers ==
    ASSUME IInv, NEW w \in Keywords
    PROVE  Results(w) = Index!Live(StoredLog[w])
<1>1. PICK m \in 0..Chain(w) : HeldFrom(w, m)
  BY DEF IInv, HeldInterval
<1> DEFINE len == Chain(w)
           s == StoredLog[w]
           vals == [c \in Held(w) |-> edb[Token(prg, w, c)]]
<1>2. /\ len \in Nat /\ m \in Nat /\ m <= len /\ DOMAIN vals = m..(len - 1)
      /\ DOMAIN s = 1..(len - m)
      /\ \A i \in 1..(len - m) : s[i] = edb[Token(prg, w, m + i - 1)]
  <2>1. len \in Nat /\ s = [i \in 1..(len - m) |-> edb[Token(prg, w, m + i - 1)]]
    BY <1>1, LogFrom
  <2>2. DOMAIN vals = m..(len - 1)
    BY <1>1 DEF HeldFrom
  <2> HIDE DEF len, s, vals
  <2>3. m \in Nat /\ m <= len
    BY <2>1 DEF len
  <2> QED BY <2>1, <2>2, <2>3
<1>3. \A i \in 1..(len - m) : m + i - 1 \in m..(len - 1)
  BY <1>2
<1>4. \A i \in 1..(len - m) : s[i] = vals[m + i - 1]
  BY <1>2, <1>3
<1> HIDE DEF len, s, vals
<1>5. \A op, d : /\ Occurs(vals, op, d) = Index!Times(s, op, d)
                 /\ Index!Times(s, op, d) \in Nat
  <2> SUFFICES ASSUME NEW op, NEW d
               PROVE  /\ Occurs(vals, op, d) = Index!Times(s, op, d)
                      /\ Index!Times(s, op, d) \in Nat
    OBVIOUS
  <2> DEFINE e == [op |-> op, ind |-> d]
  <2>1. Occurs(vals, op, d) = Taken(vals, e) /\ Index!Times(s, op, d) = Taken(s, e)
    BY SameCardinality DEF Occurs, Index!Times, Taken
  <2> HIDE DEF e
  <2> QED BY <1>2, <1>4, <2>1, ShiftedCount
<1>6. \A d \in Docs : Sum(vals, d) > 0 <=> Index!Times(s, "INS", d) > Index!Times(s, "DEL", d)
  <2> SUFFICES ASSUME NEW d \in Docs
               PROVE  Sum(vals, d) > 0 <=> Index!Times(s, "INS", d) > Index!Times(s, "DEL", d)
    OBVIOUS
  <2> DEFINE a == Index!Times(s, "INS", d)
             b == Index!Times(s, "DEL", d)
  <2>1. Sum(vals, d) = a - b /\ a \in Nat /\ b \in Nat
    BY <1>5 DEF Sum
  <2> HIDE DEF a, b
  <2>2. Sum(vals, d) > 0 <=> a > b
    BY <2>1
  <2> QED BY <2>2 DEF a, b
<1>7. FinalRes(vals) = Index!Live(s)
  BY <1>6 DEF FinalRes, Index!Live
<1> QED BY <1>7 DEF Results, vals, s

\* A step that leaves a keyword's chain and entries alone leaves its log alone.
LEMMA LogKept ==
    ASSUME IInv, NEW v \in Keywords, Held(v)' = Held(v), Chain(v)' = Chain(v), prg' = prg,
           \A c \in Held(v) : edb'[Token(prg, v, c)] = edb[Token(prg, v, c)]
    PROVE  StoredLog'[v] = StoredLog[v]
<1>1. PICK m \in 0..Chain(v) : HeldFrom(v, m)
  BY DEF IInv, HeldInterval
<1> DEFINE k == Cardinality(Held(v))
<1>2. Chain(v) \in Nat /\ k = Chain(v) - m /\ Held(v) = m..(Chain(v) - 1)
  BY <1>1, LogFrom DEF HeldFrom
<1>3. \A i \in 1..k : Chain(v) - k + i - 1 \in Held(v)
  BY <1>2
<1>4. StoredLog[v] = [i \in 1..k |-> edb[Token(prg, v, Chain(v) - k + i - 1)]]
  BY DEF StoredLog, Chain
<1>5. StoredLog'[v] = [i \in 1..k |-> edb'[Token(prg, v, Chain(v) - k + i - 1)]]
  BY DEF StoredLog, Chain
<1> HIDE DEF k
<1> QED BY <1>3, <1>4, <1>5

\* insertKeyword and deleteKeyword append their operation to the abstract log.
LEMMA UpdateRefines ==
    ASSUME IInv, NEW op \in {"INS", "DEL"}, NEW w \in Keywords, NEW d \in Docs,
           update(op, w, d)
    PROVE  Index!Update(op, w, d)
<1> DEFINE len == Chain(w)
           e == [op |-> op, ind |-> d]
<1>1. /\ Chain(w)' = len + 1 /\ prg' = prg /\ answer' = answer
      /\ \A v \in Keywords \ {w} : Chain(v)' = Chain(v)
      /\ edb'[Token(prg, w, len)] = e
      /\ \A x \in DOMAIN edb : edb'[x] = edb[x]
  BY UpdateStep
<1>2. /\ Held(w)' = Held(w) \cup {len}
      /\ \A v \in Keywords \ {w} : Held(v)' = Held(v)
  BY UpdateHeld
<1>3. \A v \in Keywords : \A c \in Held(v) : Token(prg, v, c) \in DOMAIN edb
  BY DEF Held
<1>4. \A v \in Keywords \ {w} : StoredLog'[v] = StoredLog[v]
  BY <1>1, <1>2, <1>3, LogKept
<1>5. PICK m \in 0..len : HeldFrom(w, m)
  BY DEF IInv, HeldInterval
<1>6. /\ len \in Nat /\ m \in Nat /\ m <= len
      /\ StoredLog[w] = [i \in 1..(len - m) |-> edb[Token(prg, w, m + i - 1)]]
      /\ \A i \in 1..(len - m) : Token(prg, w, m + i - 1) \in DOMAIN edb
  <2>1. len \in Nat
    BY ChainType
  <2> QED BY <1>5, <2>1, LogFrom
<1>7. Held(w)' = m..len
  <2>1. Held(w) = m..(len - 1)
    BY <1>5 DEF HeldFrom
  <2> HIDE DEF len
  <2> QED BY <1>2, <1>6, <2>1
<1>8. Cardinality(Held(w)') = len + 1 - m
  <2> HIDE DEF len
  <2> QED BY <1>6, <1>7, FS_Interval
<1>9. StoredLog'[w] = [i \in 1..(len + 1 - m) |-> edb'[Token(prg, w, (len + 1) - (len + 1 - m) + i - 1)]]
  BY <1>1, <1>8 DEF StoredLog, Chain
<1> HIDE DEF len, e
<1>10. ASSUME NEW i \in 1..(len + 1 - m)
       PROVE  edb'[Token(prg, w, (len + 1) - (len + 1 - m) + i - 1)]
                = IF i = len - m + 1 THEN e ELSE edb[Token(prg, w, m + i - 1)]
  <2>1. (len + 1) - (len + 1 - m) + i - 1 = m + i - 1
    <3>1. i \in Int /\ len \in Int /\ m \in Int
      BY <1>6
    <3> QED BY <3>1
  <2>2. CASE i = len - m + 1
    <3>1. m + i - 1 = len
      BY <1>6, <2>2
    <3> QED BY <1>1, <2>1, <2>2, <3>1
  <2>3. CASE i # len - m + 1
    <3>1. i \in 1..(len - m)
      BY <1>6, <2>3
    <3> QED BY <1>1, <1>6, <2>1, <2>3, <3>1
  <2> QED BY <2>2, <2>3
<1>11. StoredLog'[w] = Append(StoredLog[w], e)
  <2>1. StoredLog'[w] = [i \in 1..(len + 1 - m) |->
                           IF i = len - m + 1 THEN e ELSE edb[Token(prg, w, m + i - 1)]]
    BY <1>9, <1>10
  <2>2. len + 1 - m = (len - m) + 1 /\ len - m \in Nat
    BY <1>6
  <2> DEFINE k == len - m
             g(i) == edb[Token(prg, w, m + i - 1)]
  <2> HIDE DEF k, g
  <2>3. StoredLog[w] = [i \in 1..k |-> g(i)]
    BY <1>6 DEF k, g
  <2>4. StoredLog'[w] = [i \in 1..(k + 1) |-> IF i = k + 1 THEN e ELSE g(i)]
    BY <2>1, <2>2 DEF k, g
  <2>5. k \in Nat
    BY <2>2 DEF k
  <2>6. Append([i \in 1..k |-> g(i)], e) = [i \in 1..(k + 1) |-> IF i = k + 1 THEN e ELSE g(i)]
    BY <2>5
  <2> QED BY <2>3, <2>4, <2>6
<1>12. StoredLog' = [StoredLog EXCEPT ![w] = Append(@, e)]
  BY <1>4, <1>11 DEF StoredLog
<1> QED BY <1>1, <1>12 DEF Index!Update, e

\* A search answers from the abstract log; a cleaning search replaces the log of
\* its keyword by one insertion per result.
LEMMA SearchRefines ==
    ASSUME IInv, NEW w \in Keywords, searchKeyword(w)
    PROVE  Index!Search(w)
<1> DEFINE res == Results(w)
           len == Chain(w)
           k == Cardinality(res)
<1>1. answer' = <<w, Index!Live(StoredLog[w])>>
  BY SearchAnswers DEF searchKeyword, Results, Found, Held
<1>2. CASE ~DeleteItems
  <2>1. UNCHANGED <<ramCounter, edb, prg>>
    BY <1>2 DEF searchKeyword
  <2>2. StoredLog' = StoredLog
    BY <2>1 DEF StoredLog, Held
  <2> QED BY <1>1, <2>2 DEF Index!Search
<1>3. CASE DeleteItems
  <2>1. /\ Chain(w)' = len + k /\ prg' = prg
        /\ \A v \in Keywords \ {w} : Chain(v)' = Chain(v)
        /\ \A x \in DOMAIN edb : x.word # w => edb'[x] = edb[x]
        /\ \A r \in 1..k : edb'[Token(prg, w, len + r - 1)]
                             = [op |-> "INS", ind |-> NthIn(res, r)]
    BY <1>3, CleanStep
  <2>2. len \in Nat /\ k \in Nat
    BY ChainType, ResultsType
  <2>3. /\ Held(w)' = len..(Chain(w)' - 1)
        /\ \A v \in Keywords \ {w} : Held(v)' = Held(v)
    BY <1>3, CleanHeld
  <2>4. ASSUME NEW v \in Keywords \ {w} PROVE StoredLog'[v] = StoredLog[v]
    <3>1. \A c \in Held(v) : Token(prg, v, c) \in DOMAIN edb /\ Token(prg, v, c).word = v
      BY DEF Held, Token
    <3>2. \A c \in Held(v) : edb'[Token(prg, v, c)] = edb[Token(prg, v, c)]
      BY <2>1, <3>1
    <3> QED BY <2>1, <2>3, <3>2, LogKept
  <2>5. StoredLog' = [StoredLog EXCEPT ![w] = StoredLog'[w]]
    BY <2>4 DEF StoredLog
  <2> HIDE DEF len, k
  <2>6. Cardinality(Held(w)') = k
    <3>1. Held(w)' = len..(len + k - 1)
      BY <2>1, <2>2, <2>3
    <3> QED BY <2>2, <3>1, FS_Interval
  <2>7. StoredLog'[w] = [i \in 1..k |-> edb'[Token(prg, w, (len + k) - k + i - 1)]]
    BY <2>1, <2>6 DEF StoredLog, Chain
  <2>8. \A i \in 1..k : (len + k) - k + i - 1 = len + i - 1
    BY <2>2
  <2>9. StoredLog'[w] = [i \in 1..k |-> [op |-> "INS", ind |-> NthIn(res, i)]]
    BY <2>1, <2>7, <2>8
  <2>10. Index!Lists(StoredLog'[w], res)
    <3> DEFINE s == StoredLog'[w]
    <3>1. Len(s) = k /\ DOMAIN s = 1..k
      BY <2>2, <2>9
    <3>2. Len(s) = Index!Cardinality(res)
      BY <3>1, SameCardinality DEF k
    <3>3. \A i \in 1..k : NthIn(res, i) \in res
      BY ResultsType, RankBijection DEF k
    <3>4. \A d \in res : RankIn(res, d) \in 1..k /\ NthIn(res, RankIn(res, d)) = d
      BY ResultsType, RankBijection DEF k
    <3> HIDE DEF res
    <3>5. \A i \in 1..k : s[i] = [op |-> "INS", ind |-> NthIn(res, i)]
      BY <2>9
    <3> HIDE DEF s
    <3>6. {s[i] : i \in DOMAIN s} = {[op |-> "INS", ind |-> d] : d \in res}
      BY <3>1, <3>3, <3>4, <3>5
    <3> QED BY <3>2, <3>6 DEF Index!Lists, s
  <2>11. Index!Lists(StoredLog'[w], Index!Live(StoredLog[w]))
    BY <2>10, SearchAnswers
  <2> QED BY <1>1, <1>3, <2>5, <2>11 DEF Index!Search
<1> QED BY <1>2, <1>3

\* Fides implements the abstract index, with and without cleaning and with either
\* table, for any keywords, documents and number of operations.
THEOREM Refinement == Spec => ImplementsIndex
<1>1. Init => Index!Init
  <2> SUFFICES ASSUME Init PROVE Index!Init
    OBVIOUS
  <2>1. \A w : Held(w) = {}
    BY DEF Init, Held
  <2>2. \A w : Cardinality(Held(w)) = 0
    BY <2>1, FS_EmptySet
  <2>3. \A w \in Keywords : StoredLog[w] = <<>>
    BY <2>2 DEF StoredLog
  <2>4. StoredLog = [w \in Keywords |-> <<>>]
    BY <2>3 DEF StoredLog
  <2> QED BY <2>4 DEF Init, Index!Init
<1>2. IInv /\ [Next]_vars => [Index!Next]_(Index!vars)
  <2> SUFFICES ASSUME IInv, [Next]_vars PROVE [Index!Next]_(Index!vars)
    OBVIOUS
  <2>1. CASE \E op \in {"INS", "DEL"}, w \in Keywords, d \in Docs : update(op, w, d)
    BY <2>1, UpdateRefines DEF Index!Next, Index!Ops
  <2>2. CASE \E w \in Keywords : searchKeyword(w)
    BY <2>2, SearchRefines DEF Index!Next
  <2>3. CASE UNCHANGED vars
    BY <2>3 DEF vars, Index!vars, StoredLog, Held
  <2> QED BY <2>1, <2>2, <2>3 DEF Next
<1> QED BY <1>1, <1>2, Invariance, PTL DEF Spec, ImplementsIndex, Index!Spec
=============================================================================
