--------------------------- MODULE SophosParallel ---------------------------
(***************************************************************************)
(* The parallel searches of SophosServer.  RSA thread t of n walks down    *)
(* the token chain in steps of n from the t-th token; what is done with a  *)
(* token is either done on the spot (the light variants) or handed from    *)
(* pool to pool.  The searching thread joins the RSA threads, then the     *)
(* pools in the order of the pipeline.                                     *)
(*                                                                         *)
(*   search_parallel_full            prf_pool, token_map_pool, decrypt_pool*)
(*   search_parallel                 access_pool                           *)
(*   search_parallel_callback        access_pool, post_pool                *)
(*   search_parallel_light, search_parallel_light_callback    no pool      *)
(*                                                                         *)
(* search_parallel_full joins its last pool only in the pool's destructor. *)
(* The list it returns is constructed in place (the named object is the    *)
(* returned one), so that is still before the caller sees the list.        *)
(*                                                                         *)
(* Pools are used as TaskPool describes them; ThreadPool implements that.  *)
(***************************************************************************)
EXTENDS Naturals, Sequences, FiniteSets

CONSTANTS
    MaxCount,     \* bound: tokens of the chain that is searched
    RsaThreads,   \* the numbers of RSA threads to try
    PoolThreads   \* the workers of a pool whose size the caller chooses

ASSUME ParallelAssumption ==
    /\ MaxCount \in Nat
    /\ RsaThreads \subseteq Nat \ {0}
    /\ PoolThreads # {}

\* A value that was read from the table at a counter, or an uninitialised r.
Counters == 0..(MaxCount - 1)
Garbage == MaxCount
TokenValues == Counters \cup {Garbage}
TokenTasks == [cnt : Counters, val : TokenValues]

VARIABLES
    variant,   \* the function that runs
    onDisk,    \* UseHDD: the table is in RocksDB; from a table in memory r is never read
    addCount,  \* req.add_count
    entries,   \* the counters whose token is in the table
    n,         \* how many RSA threads there are
    next,      \* next[t]: the place in the chain of RSA thread t, once started
    pools,     \* the pools of the variant, in the order of the pipeline
    results,   \* results[v]: how often v was pushed or given to post_callback
    main       \* what the searching thread waits for: 0 the RSA threads, k pool k

TP == INSTANCE TaskPool WITH pool <- pools, Workers <- PoolThreads, Tasks <- TokenTasks

parallelVars == <<variant, onDisk, addCount, entries, n, next, pools, results, main>>
input == <<variant, onDisk, addCount, entries, n>>

Variants == {"full", "parallel", "callback", "light", "light_callback"}
Stages(v) == CASE v = "full" -> 3 [] v = "parallel" -> 1 [] v = "callback" -> 2
               [] OTHER -> 0

\* It waits for nothing any more: the function has returned.
Returned == main = Stages(variant) + 1

\* The pools of search_parallel_full have one worker each.
StageWorkers == IF variant = "full" THEN {CHOOSE w \in PoolThreads : TRUE} ELSE PoolThreads

ParallelInit ==
    /\ variant \in Variants
    /\ onDisk \in BOOLEAN
    /\ addCount \in 0..MaxCount
    /\ entries \in SUBSET (0..(addCount - 1))
    /\ n \in RsaThreads
    /\ next = [t \in 0..(n - 1) |-> t]
    /\ pools = [k \in 1..Stages(variant) |-> TP!NewPool]
    /\ results = [v \in TokenValues |-> 0]
    /\ main = 0

-----------------------------------------------------------------------------
\* What the jobs do with a token.

\* The look-up: r is assigned only when the token is found in RocksDB.
Read(c) == IF onDisk /\ c \in entries THEN c ELSE Garbage

Push(v) == results' = [results EXCEPT ![v] = @ + 1]

\* enqueue on pool k; on a stopped pool it throws and the task is gone.
Enqueue(ps, k, task) == [ps EXCEPT ![k] = TP!Submitted(@, task)]

\* derive_access of the light variants: look up and push, or nothing.
deriveAccess(c) ==
    IF c \in entries THEN Push(Read(c)) ELSE UNCHANGED results

\* The job of stage k on a task: the lookup_job and access_job hand on what they
\* found, the access_job of search_parallel pushes r whether it was found or not.
Forwards(k, task) ==
    \/ variant = "full" /\ k = 1
    \/ variant = "full" /\ k = 2 /\ task.cnt \in entries
    \/ variant = "callback" /\ k = 1 /\ task.cnt \in entries
Handed(k, task) ==
    IF variant = "full" /\ k = 1 THEN task
    ELSE [task EXCEPT !.val = Read(task.cnt)]
Outputs(k) ==
    \/ variant = "full" /\ k = 3
    \/ variant = "parallel"
    \/ variant = "callback" /\ k = 2
Output(task) == IF variant = "parallel" THEN Read(task.cnt) ELSE task.val

-----------------------------------------------------------------------------
rsaStepWide(t) ==                                        \* mutant
    LET c == next[t]
    IN  /\ c < addCount
        /\ next' = [next EXCEPT ![t] = @ + n + 1]
        /\ IF pools = <<>>
           THEN deriveAccess(c) /\ UNCHANGED pools
           ELSE /\ pools' = Enqueue(pools, 1, [cnt |-> c, val |-> Garbage])
                /\ UNCHANGED results
        /\ UNCHANGED <<input, main>>

\* rsa_job: the next token of RSA thread t, index + kN, as long as there is one.
rsaStep(t) ==
    LET c == next[t]
    IN  /\ c < addCount
        /\ next' = [next EXCEPT ![t] = @ + n]
        /\ IF pools = <<>>
           THEN deriveAccess(c) /\ UNCHANGED pools
           ELSE /\ pools' = Enqueue(pools, 1, [cnt |-> c, val |-> Garbage])
                /\ UNCHANGED results
        /\ UNCHANGED <<input, main>>

begin(k, w) ==
    /\ TP!CanBegin(pools[k], w)
    /\ pools' = [pools EXCEPT ![k] = TP!Begun(@, w)]
    /\ UNCHANGED <<input, next, results, main>>

\* A job of stage k ends; what it hands on is in the next pool before that.
end(k, w) ==
    /\ ~TP!Idle(pools[k], w)
    /\ LET task  == pools[k].running[w]
           ended == [pools EXCEPT ![k] = TP!Ended(@, w)]
       IN  /\ pools' = IF Forwards(k, task)
                       THEN Enqueue(ended, k + 1, Handed(k, task)) ELSE ended
           /\ IF Outputs(k) THEN Push(Output(task)) ELSE UNCHANGED results
    /\ UNCHANGED <<input, next, main>>

joinRsaAtOnce ==                                         \* mutant
    /\ main = 0
    /\ main' = 1
    /\ UNCHANGED <<input, next, pools, results>>
joinRsaBeyond ==                                         \* mutant
    /\ main = 0
    /\ \A t \in DOMAIN next : next[t] > addCount
    /\ main' = 1
    /\ UNCHANGED <<input, next, pools, results>>

\* The searching thread joins the RSA threads.
joinRsa ==
    /\ main = 0
    /\ \A t \in DOMAIN next : next[t] >= addCount
    /\ main' = 1
    /\ UNCHANGED <<input, next, pools, results>>

closeLastFirst(k) ==                                     \* mutant
    LET l == Len(pools) + 1 - k
    IN  /\ main = k /\ TP!IsOpen(pools[l])
        /\ pools' = [pools EXCEPT ![l] = TP!Closed(@)]
        /\ UNCHANGED <<input, next, results, main>>

\* It closes pool k, and goes on when the workers of that pool have returned.
close(k) ==
    /\ main = k /\ TP!IsOpen(pools[k])
    /\ pools' = [pools EXCEPT ![k] = TP!Closed(@)]
    /\ UNCHANGED <<input, next, results, main>>
joined(k) ==
    /\ main = k /\ TP!CanLeave(pools[k])
    /\ pools' = [pools EXCEPT ![k] = TP!Left(@)]
    /\ main' = k + 1
    /\ UNCHANGED <<input, next, results>>

rsa == \E t \in DOMAIN next : rsaStep(t)
worker(k, w) == begin(k, w) \/ end(k, w)
searcher == joinRsa \/ \E k \in DOMAIN pools : close(k) \/ joined(k)

ParallelNext ==
    \/ rsa
    \/ \E k \in DOMAIN pools : \E w \in StageWorkers : worker(k, w)
    \/ searcher

\* Every thread that can go on does: the threads of the RSA loop, the workers of
\* the pools (ThreadPool's EveryTaskRuns) and the searching thread.
ParallelFairness ==
    /\ \A t \in 0..(MaxCount - 1) : WF_parallelVars(t \in DOMAIN next /\ rsaStep(t))
    /\ \A k \in 1..3 : \A w \in PoolThreads :
          WF_parallelVars(k \in DOMAIN pools /\ w \in StageWorkers /\ worker(k, w))
    /\ WF_parallelVars(searcher)

ParallelSpec == ParallelInit /\ [][ParallelNext]_parallelVars /\ ParallelFairness

-----------------------------------------------------------------------------
\* Types of the input, the threads, the pools and the results.
ParallelTypeOK ==
    /\ variant \in Variants /\ onDisk \in BOOLEAN
    /\ addCount \in 0..MaxCount /\ entries \subseteq 0..(addCount - 1)
    /\ next \in [0..(n - 1) -> Nat]
    /\ \A k \in DOMAIN pools :
          /\ pools[k].queue \in Seq(TokenTasks)
          /\ pools[k].running \in [DOMAIN pools[k].running -> TokenTasks]
          /\ DOMAIN pools[k].running \subseteq StageWorkers
    /\ results \in [TokenValues -> Nat]
    /\ main \in 0..(Len(pools) + 1)

\* The tasks of a pool, and the counters they are about.
Busy(p) == p.queue # <<>> \/ DOMAIN p.running # {}

\* A pool is stopped only when nothing upstream of it can still enqueue: join
\* follows the order of the pipeline, so no enqueue throws on a stopped pool and
\* no token is dropped on the way.  The types are right throughout.
ClosedInOrder == ParallelTypeOK /\
    \A k \in DOMAIN pools : ~TP!IsOpen(pools[k]) =>
        /\ \A t \in DOMAIN next : next[t] >= addCount
        /\ \A j \in 1..(k - 1) : ~Busy(pools[j])

\* How often the search must deliver v.
Expected(v) ==
    CASE onDisk /\ v # Garbage -> IF v \in entries THEN 1 ELSE 0
      [] onDisk /\ v = Garbage -> IF variant = "parallel" THEN addCount - Cardinality(entries) ELSE 0
      [] ~onDisk /\ v # Garbage -> 0
      [] ~onDisk /\ v = Garbage -> IF variant = "parallel" THEN addCount ELSE Cardinality(entries)

\* When a parallel search returns it has delivered every entry of the chain once,
\* like the sequential one: the strides of the RSA threads cover the chain without
\* overlap and no pool is left with work.  search_parallel also delivers one value
\* for every missing entry, and without RocksDB all values are uninitialised.
Complete == Returned => \A v \in TokenValues : results[v] = Expected(v)

\* The list is not touched any more once the caller has it.
QuietAfterReturn == [][Returned => UNCHANGED results]_parallelVars

\* The search returns: no thread waits for a pool that is never joined, and every
\* join ends.
Returns == <>(Returned)
=============================================================================
