-------------------------------- MODULE Janus --------------------------------
(***************************************************************************)
(* Janus (JanusInterface, JanusClient, JanusServer): insertions are        *)
(* ciphertexts and deletions are key shares of a puncturable encryption,   *)
(* each kind kept by a Diana instance of its own under the meta keyword,   *)
(* which is the keyword and the number of searches it has seen.  A search  *)
(* takes what was added and deleted since the last one, and the server's   *)
(* cache of earlier results.                                               *)
(*                                                                         *)
(* Client and server are one process, which may die and restart between    *)
(* any two writes: the search counters and the cache are in RocksDB, the   *)
(* counters of the two Diana clients are in memory, and so are the tables  *)
(* of the Diana servers without usehdd.                                    *)
(*                                                                         *)
(* A document is its 64-bit identifier.  Ciphertexts and key shares carry  *)
(* a tag, which determines keyword and document; within one keyword the    *)
(* document stands for the tag.                                            *)
(***************************************************************************)
EXTENDS DianaScheme, Integers

CONSTANTS
    MaxUpdates, MaxSearches, MaxRestarts   \* bounds

ASSUME JanusAssumption ==
    /\ Docs \subseteq Nat
    /\ {MaxUpdates, MaxSearches, MaxRestarts} \subseteq Nat

\* A search request without deletions covers every leaf once (DianaSearch checks
\* this of the token tree).
ASSUME LeafOrderAssumption ==
    \A n \in 0..MaxUpdates :
        /\ DOMAIN LeafOrder(n, {}) = 1..n
        /\ ToSet(LeafOrder(n, {})) = 0..(n - 1)

VARIABLES
    usehdd,             \* the constructor's argument
    search_counter,     \* search_counter_map_ (RocksDBCounter)
    added, deleted,     \* ramCounter of insertion_client_ and deletion_client_
    insertions, shares, \* tables of insertion_server_ and deletion_server_
    cache,              \* cached_results_edb_ (RockDBListStore)
    call,               \* the search in progress, or Idle
    answer,             \* outcome of the last search
    live,               \* history: documents whose last update is an insertion
    durable,            \* history: live, as of the last search that ended
    pending,            \* history: updates since the last search or restart
    regular, crowded,   \* history: how the keywords have been used
    updates, searches, restarts   \* counters for the bounds

persistent == <<usehdd, search_counter, cache>>
history == <<live, durable, pending, regular, crowded>>
bounds == <<updates, searches, restarts>>
vars == <<persistent, added, deleted, insertions, shares, call, answer, history, bounds>>

Idle == [st |-> "idle"]
NoUpdates == [ins |-> << >>, del |-> << >>]
NoAnswer == [res |-> << >>, expected |-> {}, trusted |-> FALSE, crowded |-> FALSE]
Garbage == -129  \* a decryption with the wrong key: neither an identifier nor a byte

Init ==
    /\ usehdd \in BOOLEAN
    /\ search_counter = [w \in Keywords |-> 0]
    /\ added = Empty /\ deleted = Empty
    /\ insertions = Empty /\ shares = Empty
    /\ cache = [w \in Keywords |-> << >>]
    /\ call = Idle /\ answer = NoAnswer
    /\ live = [w \in Keywords |-> {}] /\ durable = [w \in Keywords |-> {}]
    /\ pending = [w \in Keywords |-> NoUpdates]
    /\ regular = Keywords /\ crowded = {}
    /\ updates = 0 /\ searches = 0 /\ restarts = 0

meta_keywordFixed(w) == Key(w, 0)                                  \* mutant
meta_keyword(w) == Key(w, search_counter[w])

-----------------------------------------------------------------------------
\* The puncturable encryption.  The exponent of a share is l_d - l_(d-1) for its number
\* d, with -alpha for l_0, and that of the first share -l_n: they add up to alpha if
\* the numbers are 1 to n; else decryption yields a random number.  A ciphertext
\* whose tag is that of a share is not decrypted at all.
KeyFits(n, ks) == Len(ks) = n /\ {ks[i].no : i \in DOMAIN ks} = 1..n
RemovedTags(ks) == {ks[i].doc : i \in DOMAIN ks}
Decrypted(cts, n, ks) ==
    LET open == Subsequence(cts, {i \in DOMAIN cts : cts[i] \notin RemovedTags(ks)})
    IN  [i \in DOMAIN open |-> [ind |-> IF KeyFits(n, ks) THEN open[i] ELSE Garbage, tag |-> open[i]]]

\* An entry read back from the cache: deserialize copies the first of eight bytes,
\* a signed char, into the identifier (and the others to the words after it).
Byte(n) == IF n % 256 < 128 THEN n % 256 ELSE (n % 256) - 256
Restored(e) == [e EXCEPT !.ind = IF @ = Garbage THEN Garbage ELSE Byte(@)]

\* The cached results that are not removed now.
FilteredNone(entries, ks) == [i \in DOMAIN entries |-> Restored(entries[i])]   \* mutant
Filtered(entries, ks) ==
    Subsequence([i \in DOMAIN entries |-> Restored(entries[i])],
                {i \in DOMAIN entries : entries[i].tag \notin RemovedTags(ks)})

\* What is put into the cache.
NewCacheOnly(new, old) == new                                      \* mutant
NewCache(new, old) == new \o old

-----------------------------------------------------------------------------
\* insertion_request and insert_entry.  Regular use: the document is not live and
\* was not deleted since the last search, for the key is punctured on its tag then.
insertKeyword(w, d) ==
    LET key == meta_keyword(w)
    IN  /\ call = Idle
        /\ updates < MaxUpdates /\ updates' = updates + 1
        /\ added' = Increment(added, key)
        /\ insertions' = Update(insertions, <<key, Count(added, key)>>, d, usehdd)
        /\ live' = [live EXCEPT ![w] = @ \cup {d}]
        /\ pending' = [pending EXCEPT ![w].ins = Append(@, d)]
        /\ regular' = IF d \in live[w] \cup ToSet(pending[w].del) THEN regular \ {w} ELSE regular
        /\ UNCHANGED <<persistent, deleted, shares, call, answer, durable, crowded, searches, restarts>>

\* get_match_count is the last counter used, 0 if there is none.
get_match_count(key) == IF key \in DOMAIN deleted THEN deleted[key] ELSE 0

\* deletion_request and delete_entry.
deleteKeyword(w, d) ==
    LET key == meta_keyword(w)
        ks == [no |-> get_match_count(key) + 1, doc |-> d]
    IN  /\ call = Idle
        /\ updates < MaxUpdates /\ updates' = updates + 1
        /\ deleted' = Increment(deleted, key)
        /\ shares' = Update(shares, <<key, Count(deleted, key)>>, ks, usehdd)
        /\ live' = [live EXCEPT ![w] = @ \ {d}]
        /\ pending' = [pending EXCEPT ![w].del = Append(@, d)]
        /\ crowded' = IF pending[w].del # << >> THEN crowded \cup {w} ELSE crowded
        /\ UNCHANGED <<persistent, added, insertions, call, answer, durable, regular, searches, restarts>>

-----------------------------------------------------------------------------
Without(f, key) == [k \in DOMAIN f \ {key} |-> f[k]]

\* search_request.
search_request(w) ==
    LET key == meta_keyword(w)
        n == Count(added, key)
        m == Count(deleted, key)
    IN  /\ call = Idle
        /\ searches < MaxSearches /\ searches' = searches + 1
        /\ call' = [st |-> "sent", w |-> w, key |-> key, adds |-> n, dels |-> m, ks |-> << >>]
        /\ search_counter' = [search_counter EXCEPT ![w] = IF n > 0 \/ m > 0 THEN @ + 1 ELSE @]
        /\ added' = Without(added, key) /\ deleted' = Without(deleted, key)
        /\ UNCHANGED <<usehdd, cache, insertions, shares, answer, history, updates, restarts>>

\* search_parallel up to the decryptor: the threads of search_simple_parallel fetch
\* and erase the key shares.  Without usehdd they erase from one std::map without a
\* lock: with two shares or more a lookup may miss its entry.
collectKeyShares ==
    LET tokens == {<<call.key, i>> : i \in 0..(call.dels - 1)}
    IN  /\ call.st = "sent"
        /\ \E lost \in SUBSET (tokens \cap DOMAIN shares) :
              /\ lost # {} => ~usehdd /\ call.dels > 1
              /\ call' = [call EXCEPT !.st = "keyed",
                             !.ks = Found([ins |-> [t \in DOMAIN shares \ lost |-> shares[t]]],
                                          call.key, call.dels, {})]
              /\ shares' = [t \in DOMAIN shares \ (tokens \ lost) |-> shares[t]]
        /\ UNCHANGED <<persistent, added, deleted, insertions, answer, history, bounds>>

\* The rest of search_parallel: cached_res_job, which is joined at once, then the
\* insertions, then the new cache.
searchKeyword ==
    LET w   == call.w
        old == Filtered(cache[w], call.ks)
        new == Decrypted(Found([ins |-> insertions], call.key, call.adds, {}), call.dels, call.ks)
    IN  /\ call.st = "keyed"
        /\ cache' = [cache EXCEPT ![w] = NewCache(new, old)]
        /\ answer' = [res |-> new \o old, expected |-> live[w],
                      trusted |-> w \in regular \ crowded, crowded |-> w \in crowded]
        /\ call' = Idle
        /\ durable' = [durable EXCEPT ![w] = live[w]]
        /\ pending' = [pending EXCEPT ![w] = NoUpdates]
        /\ UNCHANGED <<usehdd, search_counter, added, deleted, insertions, shares, live, regular, crowded, bounds>>

\* The process dies, or ends between two calls, and the constructor runs again.
restart ==
    /\ restarts < MaxRestarts /\ restarts' = restarts + 1
    /\ added' = Empty /\ deleted' = Empty
    /\ insertions' = IF usehdd THEN insertions ELSE Empty
    /\ shares' = IF usehdd THEN shares ELSE Empty
    /\ call' = Idle
    /\ live' = durable
    /\ pending' = [w \in Keywords |-> NoUpdates]
    /\ UNCHANGED <<persistent, answer, durable, regular, crowded, updates, searches>>

Next ==
    \/ \E w \in Keywords, d \in Docs : insertKeyword(w, d) \/ deleteKeyword(w, d)
    \/ \E w \in Keywords : search_request(w)
    \/ collectKeyShares \/ searchKeyword \/ restart

Spec == Init /\ [][Next]_vars

-----------------------------------------------------------------------------
\* What a search will read is what was written since the last one: between calls,
\* the entries below the counters in memory are exactly the pending updates, although
\* a restart left older entries under the same meta keyword behind, and nothing is
\* stored yet under a later meta keyword.
TablesMatchPending ==
    call = Idle => \A w \in Keywords :
        LET key == meta_keyword(w)
            reach(table, ram) == [i \in 1..Count(ram, key) |-> table[<<key, i - 1>>]]
        IN  /\ reach(insertions, added) = pending[w].ins
            /\ LET ks == reach(shares, deleted)
               IN  [i \in DOMAIN ks |-> ks[i].doc] = pending[w].del
            /\ \A t \in DOMAIN insertions \cup DOMAIN shares :
                  t[1].word = w => t[1].no <= search_counter[w]

\* A keyword in regular use, deleted from at most once between two searches: the
\* search answers with one result for every live document and no other; a restart,
\* in the middle of a search too, costs the updates since the last search and
\* nothing else.  A result is the document's identifier when that is below 128.
AnswerExact ==
    answer.trusted =>
        LET tags == [i \in DOMAIN answer.res |-> answer.res[i].tag]
        IN  /\ IsInjective(tags) /\ ToSet(tags) = answer.expected
            /\ \A i \in DOMAIN tags : tags[i] < 128 => answer.res[i].ind = tags[i]

\* However a keyword is used, a search brings up no document that was deleted after
\* its last insertion; only where key shares were lost to the race (no usehdd, two
\* deletions between searches) can it.  And without two deletions between searches
\* there is never a result decrypted with a key that does not fit.
DeletedStaysDeleted ==
    \A i \in DOMAIN answer.res :
        /\ usehdd \/ ~answer.crowded => answer.res[i].tag \in answer.expected
        /\ ~answer.crowded => answer.res[i].ind # Garbage
=============================================================================
