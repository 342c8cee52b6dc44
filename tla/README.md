# A TLA+ model of the SSE repository

The repository implements dynamic searchable symmetric encryption: a client
keeps keys and counters, a server keeps an encrypted index, and updates and
searches for a keyword go from one to the other. This directory models the
schemes' state machines, checks them with TLC on small instances and proves the
central results with TLAPS. All paths below are relative to `src/src/`.

## 1. Inventory

| Part | State | Operations | Talks to |
|---|---|---|---|
| Mitra client and server (`mitra/Client`, `mitra/Server`) | `FileCnt`, `SrcCnt` (maps from key *buffers* to counters), `DictW` | update, search (with cleaning) | direct calls |
| Mitra over gRPC (`mitra/Mitra*Runner`) | the same, in two processes | setup, update, batchUpdate, search | four blocking calls |
| Sophos engine (`fides/sophos_*`) | token counters, PRG and trapdoor keys, token table (std::map or RocksDB) | update_request, search_request; update, search, parallel searches | used by Fides; RocksDB; thread pools |
| Fides (`fides/FidesClient`) | key files | insertKeyword, deleteKeyword, searchKeyword | Sophos |
| Fides over gRPC (`fides/Fides*Runner`) | server pointer, table | setup, update, batchUpdate, search | four blocking calls |
| Orion (`orion/Orion`) | `UpdtCnt`, `LastIND`, two oblivious maps, staged maps | insert, remove, search, setup variants | two OMAPs |
| OMAP, AVLTree, ORAM, RAMStore (`orion/`, copied in `horus/`) | root id and position; buckets; stash and cache | find, insert, batchInsert, batchSearch; ReadNode, WriteNode, start, finalize | each layer calls the next |
| Horus, PRFORAM (`horus/`) | `UpdtCnt`, `SrchCnt`, `Access`, `LastIND`, `latestUpdatedCounter`; boxes at PRF positions, stash | as Orion; search in rounds of batched reads | OMAP and PRFORAM |
| ThreadPool (`utils/thread_pool.hpp`) | queue, stop flag, workers | enqueue, worker loop, join | Sophos parallel search |
| Diana (`diana/`) | `keywordsToken`, `keywordsCounter`, `ramCounter` of two instances (insertions, deletions); their tables; `delCntMap` | insertKeyword, deleteKeyword, searchKeyword (deletions, then insertions, then re-insertion), parallel search over a token list | direct calls, or six blocking calls |
| Token tree (`diana/token_tree`) | none | derive_node, covering_list with and without deletions, derive_leaves | Diana, Janus |
| Janus (`janus/`) | two Diana instances in memory or RocksDB; search counters and result cache always in RocksDB | insertKeyword, deleteKeyword, searchKeyword | Diana, RocksDB, puncturable encryption (third party) |
| RocksDB wrappers (`utils/rocksdb_wrapper`) | a database | get, put, remove; counters; lists | Fides, Diana, Janus |

Where it is hard:

* **State kept under a key that changes.** Mitra uses one 16-byte buffer as the
  map key of its counters and as the PRF input that `getAESRandomValue` writes
  into; the key read before a loop is not the key written after it.
* **Partial failure.** Clients move their counters before the call that stores
  the entry; no call is retried, and most statuses are only printed. In cleaning
  mode a search is a read, a delete and a re-insertion in three steps.
* **Restarts.** Mitra keeps everything in memory. Fides keeps key files and,
  optionally, a RocksDB table, but not the counters; Diana likewise, and its
  `delCntMap` is in memory whatever the setting. Janus keeps its search counters
  and its cache, and loses the counters of the updates since the last search.
* **Two structures that must agree.** Orion's two maps, the client's counters and
  the server's table, the tree and its positions in the ORAM, Horus' map and its
  boxes.
* **Shuffling.** Every operation on the oblivious map moves every node it read to a
  random leaf, writes all fetched paths anew and must leave each parent with the
  right position of its children, the cache included.
* **Limits.** Both ORAMs have room for a fixed number of writes.
* **Concurrency.** The thread pool, the searches that connect several pools into
  a pipeline, and the threads among which Diana splits a token list.
* **Boundaries.** Covering lists around powers of two, for one entry, and when
  every entry is deleted.

What makes each part correct: a search returns exactly the documents inserted
more often than deleted (Mitra, Fides), inserted and never removed (Orion), or
inserted and not deleted since (Diana, Horus, Janus, for the uses named below); the
oblivious map is a map; a node is always on the path that its parent names;
a deletion hides no document but its own;
an entry that the client's counters reach is never overwritten; the server holds
what the client's counters say it holds; no task is lost and join returns. The
hazards, each at its line, are listed in `PROJECT.json`.

## 2. Modules

| Module | Models | How |
|---|---|---|
| `SSEIndex` | abstract specification of Mitra and Fides | one log of updates per keyword; a search answers with the live documents |
| `TombstoneIndex` | abstract specification of Orion | live and removed documents per keyword |
| `MitraCommon` | `mitra/Client.cpp`, `mitra/Server.cpp`, shared operators | key buffers as records of their byte fields, PRF output = its input, ciphertext = plaintext with its mask |
| `Mitra` | the single-process program | one action per operation; implements `SSEIndex` |
| `MitraRunner` | `MitraClientRunner`, `MitraServerRunner` | the client's one outstanding call is the variable `call`; one action per request, handler and return; lost calls and restarts |
| `Sophos` | `sophos_client`, `sophos_server`, operators | token = (PRG key, keyword, counter) |
| `Fides` | `FidesClient` | implements `SSEIndex`, with compaction in cleaning mode |
| `FidesRunner` | `FidesClientRunner`, `FidesServerRunner`, the RocksDB wrapper's open | as `MitraRunner` |
| `OMAP` | what the oblivious map does for a caller | operators on finite functions |
| `MapSpec` | abstract specification of the oblivious map | the operators of `OMAP` as a state machine, with the refusal of a full tree |
| `ORAM` | `orion/ORAM.cpp`, `RAMStore.cpp` | operators on a record of the class's fields; random leaves are arguments |
| `AVLTree` | `orion/AVLTree.cpp` | recursive operators from ORAM to ORAM, TLC only |
| `ObliviousMap` | `orion/OMAP.cpp` | one action per call, all random choices explored; implements `MapSpec` |
| `SetIndex` | abstract specification of Horus | the set of live documents per keyword |
| `PRFORAM` | `horus/PRFORAM.cpp` | operators on a record of the class's fields |
| `Horus` | `horus/Horus.cpp` | one action per function, and one per round of a search; over `OMAP` and `PRFORAM`; implements `SetIndex` |
| `Janus` | `janus/`, the counters and lists of `rocksdb_wrapper` | the operators of `DianaScheme` for its two instances; a search in three steps, so that a restart can fall between them |
| `Orion` | `orion/Orion.cpp` | one action per function; implements `TombstoneIndex` |
| `TaskPool` | abstract specification of a pool | tasks are taken in order, each once; join returns when all are done |
| `ThreadPool` | `utils/thread_pool.hpp` | one action per critical section and per notification; implements `TaskPool` |
| `SophosParallel` | the five parallel searches of `sophos_server.cpp` | the RSA threads and a pipeline of `TaskPool`s (the same module `ThreadPool` is shown to implement) |
| `TokenTree` | `diana/token_tree.cpp`, the sequential searches of `diana_server.hpp` | a token is its path from the root; recursive operators, TLC only |
| `DianaSearch` | `search_simple_parallel` | one behaviour per call; one action per token a thread meets |
| `DianaScheme` | `diana_client.hpp`, `diana_server.hpp`, `DianaInterface.cpp`, operators | key = (keyword, number), token = (key, counter), hash = its input |
| `Diana` | `DianaInterface`, `DianaClientRunner`, `DianaServerRunner` | both modes in one specification, the constructor's arguments chosen in `Init`; the order of the leaves is the constant `LeafOrder`, which the instance takes from `TokenTree` |
| `MitraProofs`, `MitraRunnerProofs`, `FidesRunnerProofs`, `OrionProofs`, `HorusProofs`, `DianaProofs`, `JanusProofs` | | theorems about the module each is named after |
| `SophosProofs` | | theorems about the Sophos engine: `ThreadPool`, `SophosParallel`, whose searches run on such pools, and `Fides`; it extends all three, so the definitions that every specification has carry a name of their own in the first two (`PoolInit`, `PoolSpec`, `ParallelInit`, `ParallelSpec`, ...) |
| `MC*` | | instances for TLC |

Operators marked `\* mutant` are deliberate mistakes. They appear in no
specification; each shows that some property would notice the mistake
(`PROJECT.json`, "mutants"). The type invariant of a module is a conjunct of its
first invariant where a run checks it, and part of the inductive invariant of every
proof module.

The files `OMAP`, `AVLTree`, `ORAM`, `RAMStore`, `Bid` and `AES` of `horus/` are copies
of those in `orion/`; one set of modules stands for both, and the `map` of
`PROJECT.json` points `ORAM`, `AVLTree` and `ObliviousMap` to `orion/`, `OMAP` to
`horus/`.

### Abstractions

* The PRF is injective and the trapdoor permutation invertible: an output is
  represented by its input. XOR with a wrong mask yields garbage: an identifier
  `Junk` that is no document's, or nothing (Mitra's op byte is random then).
* Keywords differ in the bytes before the stamped fields (7 with cleaning, 11
  without); longer keywords that agree there share a buffer in the code too.
* Diana's key is the keyword's text followed by a number; the model has a pair,
  so it supposes that no keyword is another one followed by digits.
* `setupMode` of the Mitra, Fides and Diana clients is never set by a caller and
  left out. `Server.useRocksDB` is forced to false by the constructor of Mitra's
  server, so the dictionary is in memory.
* A call that failed at the client is not executed later by the server.
* Fides' client never fills `public_key` into the setup message, so client and
  server work only in one directory with shared key files; the model has that.
* Undefined behaviour is a choice. An empty token list: the code reads the list's
  header as a token, and the depth it finds there either ends the search or, from
  64 on, makes it endless (`DianaSearch!walkOffEmptyList`, `Diana` "hung"). A
  counter outside the array of `covering_list`: the client dies or carries on.
  `delCntMap[item]` for an unknown item: a block of zeros, which does not decrypt
  to a number, so the client aborts. A call to a server that is not set up, or a
  tree node that is not where its parent says: the process dies. An uninitialised
  `r` in `search_parallel`: a value that is no entry's. `box->pos` read after
  `WritePath` has deleted the box (`PRFORAM!Targets`): the old position, or what an
  allocation since then left there, which is zero or the position of a box of the
  stash; the levels above the box's own then write another path.
* `search_parallel_full` returns its local list by name; the model supposes that
  it is constructed in place, as the usual compilers do. The parallel searches
  are run with at least one RSA thread.
* Diana's own threads run with `delete_results = false`. Janus fetches its key shares
  with `delete_results = true`: its threads erase from one `std::map` without a lock
  unless `usehdd` is set, and the model lets any set of lookups miss when there are two
  or more.
* Block identifiers are integers in the order in which the code compares them. The
  position a node keeps for a child it does not have is arbitrary in the code and 0
  in the model. Buckets are not read twice in one operation (`readviewmap`); reading
  them again would change nothing.
* An exception of an ORAM (no room left) is caught nowhere, so it ends the program.
* Horus' PRF is a constant of the model; the code's has a fixed key. Identifiers of
  boxes are ordered as the code's bytes are while counters stay below 256.
* Of the puncturable encryption behind Janus (`third_party/crypto`) the model keeps what
  the exponents of the key shares add up to: decryption yields the document if the
  numbers of the shares are 1 to n, a random number otherwise, and nothing if the tag is
  punctured.
* Timers, logs and printed statistics are left out.

## 3. Runs

| Run | Shows | Bounds |
|---|---|---|
| `mitra_index` | Mitra with cleaning implements the index; the entries that counters reach stay decodable and are never overwritten | 2 keywords, 2 documents, 2 updates per keyword, 2 cleaning searches between updates |
| `mitra_faults` | over gRPC, with and without cleaning, under two faults placed anywhere, which searches are exact, and what the others can return | 1 keyword, 2 documents, 3 updates, 3 searches, 2 faults |
| `fides_index` | Fides with cleaning implements the index | 2 keywords, 2 documents, 3 tokens per keyword |
| `fides_faults` | in memory and on RocksDB, with and without cleaning: the ledger of what should be stored matches the server through a lost call and a restart, and a second setup that leaves no database | 1 keyword, 2 documents, 3 tokens, 2 searches, 1 lost call, 1 restart |
| `orion_index` | Orion implements its index, setup included | 2 keywords, 2 documents, no other bound |
| `pool` | safety and liveness of the thread pool, and that it implements `TaskPool` | 2 workers, 2 submitters, 3 tasks |
| `sophos_parallel` | all five parallel searches: pools are stopped in the order of the pipeline, the search returns and has then delivered every entry, and delivers nothing after it | chains of up to 3 tokens with any of them missing, 1, 2 and 4 RSA threads, pools of 2 workers |
| `diana_search` | token lists stand for exactly the wanted entries; threads look up disjoint shares, together what the sequential searches do; the call returns unless nothing is wanted | tree of depth 4, up to 9 entries, every set of deletions, up to 3 threads |
| `diana` | in all eight settings: tables stay within the counters, a deletion hides only its own document, searches in regular use are exact and complete | 2 keywords, 2 documents, 4 updates, 2 searches, 1 lost call, 1 restart, tree of depth 3 |
| `omap` | the oblivious map keeps every node on the path its parent knows, stays a complete AVL tree, answers every call and implements `MapSpec` | buckets of 1 block with trees of depth 0 and 2 and of 4 blocks with depth 1, up to 8 keys, batches of 4 to 8, every choice of leaves |
| `horus` | the boxes of a slot are those the bisection expects, Horus implements its index, both unless a write to another path has damaged the tree; every round of a search narrows it, always | 1 keyword, 2 documents, 2 searches, access counts up to 3, 14 writes, tree of depth 2 with buckets of 2 |
| `janus` | a search reads exactly the updates since the last one, is exact in regular use, and brings back no deleted document | 1 keyword, documents 1 and 300, 5 updates, 3 searches, 2 restarts, both settings of `usehdd` |

Why the bounds are enough: the schemes treat keywords independently, so two show
interference; two documents and two or three updates give every relation between
insertions and deletions of a document, a hole before, between and after stored
entries, and a result of zero, one and two documents; two faults give every pair
(a lost call after a restart, a lost search and a lost batch). Nine entries in a
tree of 16 leaves cover every shape of a covering list up to and just past a
power of two, and shares that end before, inside and after a token. Five and six nodes
need single and double rotations; buckets of one block leave blocks in the cache and
fill the tree, depth 0 fills it at once; buckets of 4, the code's `Z`, have room for
trees below, at and above the height up to which positions are refreshed (seven keys
are as high as that, eight are higher). Two documents of Horus give a slot that is
freed, moved into and filled again before and after a search, and 14 writes run out.
Documents 1 and 300 lie on either side of what one byte holds. Runs switch the
deadlock check off where the system really stops: bounded updates are used up,
or the pool is joined. Orion never stops and is checked for deadlock.

**Regular use** (`Diana`). `AnswerExact` and `SearchCompletes` promise something
only for keywords in regular use: no document is inserted twice under one key,
none is deleted that is not live, the keyword is not searched before its first
update without cleaning, and no call of a cleaning search failed. Each of these
is a way in which the code really loses or repeats a document, or aborts
(`PROJECT.json`, "hazards"); the model takes all of them, and the promise is what
remains. Lost updates are part of regular use.

In `Janus` a keyword is in regular use while no live document is inserted again and
none that was deleted since the last search (its tag is punctured until then).
`AnswerExact` further asks for at most one deletion between two searches (`crowded`);
`DeletedStaysDeleted` holds for every use, the lost key shares of the race excepted.
In `Horus` a setup inserts no document twice and none after it has removed one
(`SetupMixed`). `SlotsReadable` and `SetIndex` promise right boxes and right results
until a write whose box was deleted under it has lost or duplicated a box
(`srch.damaged`, section 6); the run takes such writes, with every position the freed
memory may hold at every level, and goes on after them. And in `Orion` a setup inserts
no document that is set up already (`Duplicates`).

**Fairness** is assumed for threads only: a worker of a pool, an RSA thread, the
searching thread and a thread of Diana's search that can take its next step
eventually takes it (the operating system schedules every thread), and a task
terminates (the tasks are finite loops). Submitting a task, joining the pool and
waking up spuriously are never forced. That a search of Horus ends is stated without
fairness: `RoundsClose` gives a natural number that every round makes smaller. The
schemes themselves are checked for
safety only: their calls block without a deadline and are never retried.

## 4. Proofs

The theorems hold for every set of keywords and documents and every bound. Each
proof module has an inductive invariant `IInv`, a lemma per action that the action
keeps it, and theorems that follow from it. `IInv` is stronger than what the runs
check, because the checked invariants do not carry over a step by themselves; what
was added is named below.

* `MitraProofs`. The inductive invariant is `TypeOK`, *KnownCounted* (an unstamped
  buffer with a positive counter is a known keyword), *EntriesDecodable* and
  *EntriesReal* (what is stored there is a real document). The core of the
  argument: a buffer that a search has stamped is never the fresh buffer of a
  keyword, because its op or count field is not zero, so the counters that
  cleaning writes, and the entries it re-inserts under the next epoch, never
  meet those of the current one. `TypeCorrect`, `Decodability`, `EntriesKept`
  and the refinement `Refinement` follow. The refinement needs that the client's
  tally over positions of the reply equals the abstract tally over the log:
  nothing is missing in the reply, so position and counter agree.
* `MitraRunnerProofs`. `Exactness` and `NothingForeign`, through lost requests and
  replies, restarts of either process and second setups. `sent` is the history of a
  keyword's updates, with a mark on those that reached the server. *Epochs*: the search
  counter that an update or a search looks up is not 0 only after a search that came
  back empty (the disagreement of section 6), so a keyword that had none has its
  entries under epoch 0. *Ledger*: a server that has met only this client has nothing
  beyond the client's counters, for such a keyword has exactly the marked updates,
  each with its value, and lists as inserted only documents that were inserted for the
  keyword, or garbage. *InFlight* is what an outstanding call knows: an update is the
  last record, a search has the addresses of all counters, its reply the entries of a
  prefix of them, a batch only addresses of later epochs, so it meets no entry of
  epoch 0 whether it arrives or not. *Answers* carries both properties from the reply to the end of the
  cleaning. The arithmetic is in `RankBijection` and `SearchFinds`: the server packs
  the entries it found into a list, so that position and counter agree only if nothing
  before was missing.
* `SophosProofs`, Fides. `SuffixHeld` and `Refinement`, with cleaning or without and with
  either table. The invariant: every token in the table belongs to a chain
  (*WithinChain*), so the next token is new and is stored whichever table is used;
  and the held counters of a keyword are an interval that ends with its chain
  (*HeldInterval*), which begins at the first re-insertion of the last cleaning
  search. The interval is the abstract log of the refinement; a cleaning search maps
  to its compaction, because the loop over a `std::map` meets every result once.
* `FidesRunnerProofs`. `LedgerMatches`, `Exact` and `IndexPreserved`, through lost
  calls, crashes, restarts of either process and second setups. The ledger has a
  record for every counter; on a server that knows only this client's tokens a record
  is marked as stored exactly if its token is in the table, with its value. What the
  invariant adds is *InFlight*: what an outstanding call knows of the ledger (an
  update's record is the last one and not stored, a reply matches the stored records,
  the records before a batch are not stored).
* `OrionProofs`. For callers that do not set a document up twice
  (`~Duplicates`), `Consistency` and `Refinement`. The inductive invariant adds
  to `ListsConsistent` the types and, per phase, which maps are still empty;
  it is needed because `remove` trusts `LastIND` and the position map at once.
* `HorusProofs`. `Readability`, `Progress` and `Refinement`, for every depth of the tree,
  every bucket size and every PRF, and for setups in which no insertion follows a
  removal or repeats a document (`~SetupMixed`; the other setups really do hide a
  document, `Horus.cpp:82` in the hazards). The proof has three layers.
  *The ORAM* (`Fine`): buckets are within their size, boxes and remaining writes
  together fit the tree, and every copy of a box is in the stash or in a bucket on the
  path of its leaf (`Sound`), which is the leaf its identifier has, and holds a document
  or a start within the access count (`Lawful`). Writing back from the leaves up keeps this whichever paths were fetched,
  whichever are written and whichever boxes find room. That is all that is left once a
  write has read its leaf from a deleted box and gone to another path. As long as no
  such write lost or duplicated a box (`~srch.damaged`), the copies of a box agree
  (`Agree`), so reads change nothing and a write changes only its box (`Contents`). The
  levels are an induction done by greatest counterexample, and leaves share buckets
  level by level, which is arithmetic of powers of two.
  *One keyword* (`Good`): the map from documents to slots and the one from slots to
  documents are inverse, both with the slot's access count, and in the row of boxes of
  a slot under the current search number there is a document at that count, nothing
  beyond it, and documents without a gap from the start that box 1 names (`Readable`);
  rows of later search numbers are empty. The gap is what makes it more than
  `SlotsReadable`: slots beyond the list must also be fit to be filled again, which
  `latestUpdatedCounter` decides. `add`, the two cases of `remove` and the rewriting at
  the end of a search keep it. `Good` speaks of the rows there should be; they are the
  rows in the ORAM unless it is damaged, so that the map's own part survives damage.
  *The whole state* (`IInv`): `Good` for the map and the boxes in operation, for the
  staged pairs in a setup (*Loading*); and while a search runs (*Scanning*) the
  interval of every slot is well-formed, and if nothing is damaged (`ItemOK`) the
  access count of every slot is in its interval, the boxes from the left end up to it
  are documents, and what was read last is the left end. A round halves the interval,
  whatever it reads, which is `Progress`; it does not lose the count, and when it closes
  the slot's document is the result, which is `Refinement`.
  What the code guarantees is thus: `Progress` always; that boxes are on their paths
  always; readable slots (`Readability`) and exact answers (`Refinement`) as long as no
  write to a deleted box's position has damaged the tree, after which `SetIndex` lets a
  search name any documents and die, while what is listed must still change as the calls say.
* `SophosProofs`, the pool. `PoolSafety`, `AcceptedInOrder`, `WakeupsKept`: for any numbers
  of workers, submitters and tasks. The invariant relates the program counters to the
  queue: a worker leaves only when the pool is stopped and the queue empty, a stopped
  pool accepts nothing, and a queued task leaves a worker awake or a notification
  pending. `PoolRefinement` shows that every step of the pool is one of `TaskPool`'s
  or a stutter, which is what `SophosParallel` builds on.
* `SophosProofs`, the searches. `StopsInOrder`, `DeliversAll` and `Quiet` for all five
  variants, any chain, any holes in it and any numbers of RSA threads and workers.
  *Once*: a counter is on its way at one place only, ahead on the stride of an RSA
  thread, in a queue, or in the hands of a worker; the strides of the threads
  partition the chain, which is arithmetic modulo their number. *Counted*: the
  results are those of the counters that are on their way no more. *Progress*: the
  searching thread has joined what is upstream of where it is, so a job never hands
  its task to a stopped pool.
* `DianaProofs`. `TablesBounded`, `RevokesOwn`, `Exact` and `Completes` in all eight
  settings, through lost calls, crashes and restarts. The invariant says of a client
  that a keyword's key is the one its counter says and that no key beyond the
  counters was ever used (*ClientOK*), so a cleaning search moves on to an unused key;
  of a server that started empty that its tables lie below the client's counters
  (*Within*) and that `delCntMap` leads to its own document (*Own*); of a keyword in
  regular use that its key has one entry per document that was stored and one deletion
  per document that is not live (*Agree*); of an outstanding call what it knows of the
  client (*Asked*) and of the tables (*InFlight*: a request that was not handled is not
  in them, a reply tells what they hold). *Nameless* is about the key `""`: with
  cleaning it is a keyword's key only during its search, without, never that of a
  keyword in regular use. In one process `delCntMap` stays below the client's counters
  even after a restart (*OneProcess*), so what the search leaves out is inside the
  array.
* `JanusProofs`. `TablesMatch`, `Exact` and `StaysDeleted`, for either setting of
  `usehdd` and restarts between any two steps of a search. *Storage*: nothing is
  stored under a later meta keyword, and the entries that the counters in memory reach
  are the pending updates, in order. *InFlight*: a search in progress holds its
  keyword's pending updates, which no other step touches. *History* says what the
  cache must hold for the documents of the last search that ended.

`Diana` and `Janus` take the order of the leaves as the constant `LeafOrder`. Their
proofs assume of it only `LeafOrderAssumption`: every leaf below n that is not left out
is there, once. That is what `ListCoversWanted` and `AgreesWithSequential` check of the
code in `DianaSearch`, and TLC evaluates the assumption for the order that `TokenTree`
computes in every run of the two. `DianaScheme` states `InsertAll` and
`OutOfArray` in closed form, not as a loop, for the provers' sake.

What the proof attempts changed in the models:

* `FidesRunner`, `MitraRunner`: what a search returned does not outlive the client's
  process; the models had kept the last answer across a restart of the client.
* `MitraRunner`: `NoForeignDocuments` spoke only of searches that had seen an update;
  that hypothesis was not needed and is gone. `RunnerAssumption` now says what the
  documents are: finitely many integers, none of which is the garbage value.
* `Diana`: the contents of a search reply that was lost reached the client all the
  same; now the client goes on with an empty reply, as the code does.
* `Janus`: the identifier that stands for a failed decryption was also one that a
  cached byte can turn into; it now lies below every byte.
* `Horus`: the bound on access counts now holds for a removal during a setup too, and
  `HorusAssumption` says what makes a box identifier unique: keywords and counters are
  below `Radix`. `PowerAssumption` only defines the powers of two, which the provers do
  not know; TLC evaluates it. `PRFORAM` fetches all paths of a batch at once instead of
  one after the other, in closed form.

Only model-checked:

* liveness (`EveryTaskRuns`, `JoinReturns`, the returns of the parallel searches): it
  needs fairness, which the prover does not handle;
* `ListCoversWanted`, `SharesDisjoint` and `AgreesWithSequential` of `DianaSearch` (over
  `TokenTree`), `OnKnownPath`, `Balanced`, `CallsAnswered` and the refinement of
  `ObliviousMap` (over `AVLTree`): token lists and trees are built by recursive
  operators, and what such an operator computes for every input needs an induction over
  data that the prover cannot do.

Every other property that a run checks is stated by a theorem.

## 5. Not modelled

All parts that keep state are modelled.

Left out for good: the database generator and the benchmarks (test data), timers,
logging, JSON, printing of trees and statistics (output), the ciphers and hash
functions (only injectivity, and that decryption inverts encryption, is used), and
functions that nothing calls: `JanusServer::search`, `PRFORAM::ReadBox`,
`RocksDBCounter::increment`, `get_and_increment` and `remove_key`,
`DianaClient::bulk_update_request`, `IdentifiedThreadPool`.

## 6. Disagreements found

The models follow the code in each of these, and the properties say what remains true.

* Mitra over gRPC (`mitra/Client.cpp:115`): a search for a keyword that has no update
  yet leaves its search counter at 1; updates made then are masked under epoch 1 but
  unmasked under epoch 0, so the next search returns garbage. The single-process
  program returns early for such a keyword and is not affected.
* Fides (`fides/sophos_client.cpp:104`): the client announces "Restart client and
  server" for existing key files, but its token counters and PRG key are not among
  them; what was inserted is not found.
* Orion (`orion/Orion.cpp:34`): `setupInsert` does not ignore a document that is set up
  already, as `insert` does; after one removal the search still returns it. With
  `Duplicates = TRUE` TLC finds it as a violation of `ListsConsistent`.
* Oblivious map (`orion/ORAM.cpp:307`): positions are refreshed up to height depth + 2
  only. With `Z = 4` the tree has room for more: eight keys in a tree of depth 1 have
  height 4. The nodes above keep the leaves their children had before, a search takes a
  key below them for absent, and an insertion dereferences null. `ObliviousMap` has
  these outcomes; its properties speak of trees up to that height (`outgrown`). Orion
  and Horus are modelled on a map that works, that is, on trees up to that height.
* Horus (`horus/Horus.cpp:82`): `setupInsert` after a `setupRemove` fills the freed slot
  under access count 1 although a box with a higher count may be there, which the
  search then takes for the document; set up twice, a document takes two slots, as in
  Orion. `beginSetup` does not clear `setupPairsPos`,
  whose entries `endSetup` pairs with the others by their order; it does no harm while
  there is one setup.
* Horus (`horus/Horus.cpp:319`): `maxSize` 1 makes the modulus zero.
* PRFORAM (`horus/PRFORAM.cpp:162`, `217`): `Access` for writing passes `box->pos` to
  `WritePath` at every level, and `WritePath` deletes the box where it finds room for
  it. The levels above read the position of a deleted box. When the memory was used
  again they write the path of another leaf, whose buckets were not fetched: the boxes in
  them are lost, and older copies stay where the path was not written. A search then
  misses documents, returns deleted ones or dies in `stoi`. The variable `srch.damaged`
  records that a write has lost or duplicated a box.
* PRFORAM (`horus/PRFORAM.cpp:180`): every write uses room up, also of boxes that are
  overwritten or belong to earlier search numbers; after as many writes as the tree has
  slots Horus throws, however few documents it holds.
* Janus (`janus/janus_client.cpp:162`): the first two deletions since a search carry the
  same number, so the key no longer fits and the documents of that search are
  decrypted to garbage.
* Janus (`janus/janus_server.cpp:43`): `deserialize` copies eight bytes as eight
  identifiers: the first byte, sign-extended, becomes the identifier, the rest is
  written past it. Cached identifiers of 128 and more come back wrong.
* Janus (`diana/diana_server.hpp:89`): without `usehdd` the threads that fetch the key
  shares erase from one map without a lock; a deletion may be forgotten.
* Janus: a document inserted again after its deletion, before the next search, is not
  found, because the key is punctured on its tag.
