---------------------------- MODULE DianaSearch -----------------------------
(***************************************************************************)
(* DianaServer::search_simple_parallel: the leaves of a token list are     *)
(* split among threads by their number, each thread walks the list to find *)
(* its share, and the threads' result lists are spliced.  A behaviour is   *)
(* one call; its arguments, a request of DianaClient and a thread count,   *)
(* are chosen in the initial state.  Threads share nothing they write      *)
(* (delete_results = FALSE).                                               *)
(***************************************************************************)
EXTENDS TokenTree

CONSTANTS
    MaxEntries,   \* bound: entries of the keyword
    MaxThreads    \* bound: threads asked for

ASSUME SearchAssumption ==
    /\ MaxEntries \in 1..2^TreeDepth
    /\ MaxThreads \in Nat \ {0}

VARIABLES
    add_count,    \* req.add_count: entries of the keyword, deleted or not
    deleted,      \* the entries the client left out of the request
    list,         \* req.token_list
    threads,      \* threads_count after the minimum with add_count
    walk,         \* walk[t]: where thread t is in its job
    lists,        \* result_lists[t]
    results       \* <<>> until the call returns, then <<the list it returns>>

vars == <<add_count, deleted, list, threads, walk, lists, results>>

ThreadIds == 0..(threads - 1)

\* A mutant: the remainder of the division is forgotten.
max_index_short(t) == (t + 1) * (add_count \div threads)

\* The share of thread t, computed as the loop that starts the threads does.
step == add_count \div threads
remaining == add_count % threads
max_index(t) == (t + 1) * step + (IF t < remaining THEN t + 1 ELSE remaining)
\* A mutant: shares overlap by one entry.
min_index_low(t) == IF t = 0 THEN 0 ELSE max_index(t - 1) - 1
min_index(t) == IF t = 0 THEN 0 ELSE max_index(t - 1)

\* A job: key_it as a position in the list, and the local bounds.
Job(t) ==
    [at |-> 1, lo |-> min_index(t), hi |-> Min({max_index(t), add_count}) - 1,
     st |-> "walking"]

Init ==
    /\ add_count \in 1..MaxEntries
    /\ deleted \in SUBSET (0..add_count - 1)
    /\ list = token_list(add_count, deleted)
    /\ \E asked \in 1..MaxThreads :
          threads = IF asked > add_count THEN add_count ELSE asked
    /\ walk = [t \in ThreadIds |-> Job(t)]
    /\ lists = [t \in ThreadIds |-> <<>>]
    /\ results = <<>>

-----------------------------------------------------------------------------
LeafCount(t) == 2^(list[walk[t].at].depth)

\* Move thread t to the next token; the loop ends after the last one.
Advance(t, lo, hi) ==
    walk' = [walk EXCEPT ![t] =
                [at |-> @.at + 1, lo |-> lo, hi |-> hi,
                 st |-> IF @.at = Len(list) THEN "done" ELSE "walking"]]

Derive(t, to) ==
    lists' = [lists EXCEPT ![t] =
                 @ \o derive_leaves(list[walk[t].at].token, list[walk[t].at].depth,
                                    walk[t].lo, to)]

\* Mutants: the test is off by one; the walk does not move on.
skipStay(t) == LeafCount(t) <= walk[t].lo /\ UNCHANGED <<walk, lists>>

\* The token lies before the thread's share.
skip(t) ==
    /\ LeafCount(t) <= walk[t].lo
    /\ Advance(t, walk[t].lo - LeafCount(t), walk[t].hi - LeafCount(t))
    /\ UNCHANGED lists

\* The share ends inside this token.
last(t) ==
    /\ LeafCount(t) > walk[t].lo /\ LeafCount(t) > walk[t].hi
    /\ Derive(t, walk[t].hi)
    /\ walk' = [walk EXCEPT ![t].st = "done"]

\* The share goes on behind this token.
take(t) ==
    /\ LeafCount(t) > walk[t].lo /\ LeafCount(t) <= walk[t].hi
    /\ Derive(t, LeafCount(t) - 1)
    /\ Advance(t, 0, walk[t].hi - LeafCount(t))

\* With an empty list the loop reads the list's own header as if it were a token:
\* the 16 bytes are no token of the tree, so nothing it derives is in the table,
\* and the depth is a byte of kw_token.  From 64 on, 1UL << depth wraps, the
\* descent takes the whole subtree and the thread does not come back.
walkOffEmptyList(t) ==
    /\ list = <<>>
    /\ \E st \in {"done", "hung"} : walk' = [walk EXCEPT ![t].st = st]
    /\ UNCHANGED lists

job(t) ==
    /\ walk[t].st = "walking"
    /\ \/ list # <<>> /\ (skip(t) \/ last(t) \/ take(t))
       \/ walkOffEmptyList(t)
    /\ UNCHANGED <<add_count, deleted, list, threads, results>>

\* All threads are joined and their lists spliced in the order of the threads.
merge ==
    /\ results = <<>>
    /\ \A t \in ThreadIds : walk[t].st = "done"
    /\ results' = <<FlattenSeq([i \in 1..threads |-> lists[i - 1]])>>
    /\ UNCHANGED <<add_count, deleted, list, threads, walk, lists>>

Next == (\E t \in ThreadIds : job(t)) \/ merge

\* The operating system runs every thread, and the caller joins them.
Fairness ==
    /\ \A t \in 0..(MaxThreads - 1) : WF_vars(t \in ThreadIds /\ job(t))
    /\ WF_vars(merge)

Spec == Init /\ [][Next]_vars /\ Fairness

-----------------------------------------------------------------------------
\* The walk stays inside the list and the local bounds do not wrap around
\* (the code's comment: "no underflow").
TypeOK ==
    /\ threads \in 1..MaxThreads
    /\ \A t \in ThreadIds :
          /\ walk[t].st \in {"walking", "done", "hung"}
          /\ walk[t].lo \in Nat /\ walk[t].hi \in Nat /\ walk[t].lo <= walk[t].hi
          /\ walk[t].st = "walking" => walk[t].at \in 1..Len(list) \/ list = <<>>

Wanted == {Leaf(i) : i \in (0..add_count - 1) \ deleted}

\* covering_list: the tokens stand for exactly the entries that are not deleted,
\* each once, whatever is deleted; without deletions they are in order.
ListCoversWanted ==
    /\ ToSet(search(list)) = Wanted
    /\ IsInjective(search(list))
    /\ deleted = {} => \A i \in 1..add_count : search(list)[i] = Leaf(i - 1)

\* Threads never look up the same entry, nor one outside the request: this is what
\* lets them run without a lock.  Each walk stays inside the token list.
SharesDisjoint ==
    /\ TypeOK
    /\ \A t \in ThreadIds :
          IsInjective(lists[t]) /\ ToSet(lists[t]) \subseteq Wanted
    /\ \A t, u \in ThreadIds :
          t # u => ToSet(lists[t]) \cap ToSet(lists[u]) = {}

\* The parallel search looks up what the two sequential ones do, and in the same
\* order, for every number of threads.
AgreesWithSequential ==
    results # <<>> => results[1] = search(list) /\ results[1] = search_simple(list)

\* The call returns, unless there was nothing to search for.
Returns == list # <<>> ~> results # <<>>
=============================================================================
