---------------------------- MODULE JanusProofs -----------------------------
(***************************************************************************)
(* Janus, for every set of keywords and documents, either kind of table,   *)
(* every order in which the token tree lists its leaves and any number of  *)
(* updates, searches and restarts within the bounds.                       *)
(***************************************************************************)
EXTENDS Janus, FiniteSetTheorems, SequenceTheorems, TLAPS

-----------------------------------------------------------------------------
\* Lemmas about the operators of DianaScheme.

\* The members of a finite set of numbers are its first, second, ... one, each
\* once: Nth runs through the set.
LEMMA NthBijection ==
    ASSUME NEW J, IsFiniteSet(J), J \subseteq Int
    PROVE  /\ Cardinality(J) \in Nat
           /\ \A p \in 1..Cardinality(J) : Nth(J, p) \in J
           /\ \A j \in J : \E p \in 1..Cardinality(J) : Nth(J, p) = j
           /\ \A p, q \in 1..Cardinality(J) : Nth(J, p) = Nth(J, q) => p = q
<1> DEFINE k == Cardinality(J)
           Low(j) == {i \in J : i <= j}
           rank(j) == Cardinality(Low(j))
<1>1. k \in Nat
  BY FS_CardinalityType
<1>2. ASSUME NEW j \in J PROVE rank(j) \in 1..k
  <2>1. Low(j) \in SUBSET J /\ j \in Low(j)
    OBVIOUS
  <2>2. IsFiniteSet(Low(j)) /\ Cardinality(Low(j)) <= k
    BY <2>1, FS_Subset
  <2>3. Cardinality(Low(j)) \in Nat /\ Cardinality(Low(j)) # 0
    BY <2>1, <2>2, FS_CardinalityType, FS_EmptySet
  <2> HIDE DEF k, Low
  <2> QED BY <1>1, <2>2, <2>3
<1>3. ASSUME NEW i \in J, NEW j \in J, i < j PROVE rank(i) # rank(j)
  <2>1. Low(i) \in SUBSET Low(j) /\ Low(i) # Low(j) /\ Low(j) \in SUBSET J
    <3>1. \A x \in J : x <= i => x <= j
      BY <1>3
    <3>2. j \in Low(j) /\ j \notin Low(i)
      BY <1>3
    <3> QED BY <3>1, <3>2
  <2>2. IsFiniteSet(Low(j))
    BY <2>1, FS_Subset
  <2> HIDE DEF Low
  <2> QED BY <2>1, <2>2, FS_Subset
<1>4. \A i, j \in J : rank(i) = rank(j) => i = j
  BY <1>3
<1> DEFINE f == [j \in J |-> rank(j)]
<1> HIDE DEF rank, k
<1>5. f \in Injection(J, 1..k)
  BY <1>2, <1>4 DEF Injection, IsInjective
<1>6. IsFiniteSet(1..k) /\ Cardinality(1..k) = k
  BY <1>1, FS_Interval
<1>7. f \in Surjection(J, 1..k)
  <2> HIDE DEF f
  <2> QED BY <1>5, <1>6, FS_Injection DEF k
<1>8. ASSUME NEW p \in 1..k PROVE \E j \in J : rank(j) = p
  BY <1>7 DEF Surjection
<1>9. \A p : Nth(J, p) = CHOOSE j \in J : rank(j) = p
  BY DEF Nth, rank
<1>10. \A p \in 1..k : Nth(J, p) \in J /\ rank(Nth(J, p)) = p
  BY <1>8, <1>9
<1>11. \A j \in J : Nth(J, rank(j)) = j
  BY <1>4, <1>9
<1> QED BY <1>1, <1>2, <1>10, <1>11 DEF k

\* The subsequence of s at the positions J holds what s holds there, each once.
LEMMA SubsequenceFacts ==
    ASSUME NEW n \in Nat, NEW J \in SUBSET (1..n), NEW S, NEW s, \A j \in J : s[j] \in S
    PROVE  LET q == Subsequence(s, J)
           IN  /\ q \in Seq(S) /\ Cardinality(J) \in Nat
               /\ DOMAIN q = 1..Cardinality(J) /\ Len(q) = Cardinality(J)
               /\ \A p \in DOMAIN q : \E j \in J : q[p] = s[j]
               /\ \A j \in J : \E p \in DOMAIN q : q[p] = s[j]
               /\ (\A i, j \in J : s[i] = s[j] => i = j) =>
                     \A p, r \in DOMAIN q : q[p] = q[r] => p = r
<1> DEFINE q == Subsequence(s, J)
           k == Cardinality(J)
<1>1. IsFiniteSet(J) /\ J \subseteq Int
  <2>1. IsFiniteSet(1..n)
    BY FS_Interval
  <2>2. IsFiniteSet(J)
    BY <2>1, FS_Subset
  <2>3. J \subseteq Int
    OBVIOUS
  <2> QED BY <2>2, <2>3
<1>2. /\ k \in Nat
      /\ \A p \in 1..k : Nth(J, p) \in J
      /\ \A j \in J : \E p \in 1..k : Nth(J, p) = j
      /\ \A p, r \in 1..k : Nth(J, p) = Nth(J, r) => p = r
  BY <1>1, NthBijection
<1>3. q = [p \in 1..k |-> s[Nth(J, p)]]
  BY DEF Subsequence
<1> HIDE DEF q, k
<1>4. DOMAIN q = 1..k /\ \A p \in 1..k : q[p] = s[Nth(J, p)]
  BY <1>3
<1>5. q \in Seq(S) /\ Len(q) = k
  <2>1. q \in [1..k -> S]
    BY <1>2, <1>3
  <2>2. q \in Seq(S)
    BY <1>2, <2>1, SeqDef
  <2> QED BY <1>2, <1>4, <2>2, LenProperties
<1>6. \A p \in 1..k : \E j \in J : q[p] = s[j]
  BY <1>2, <1>4
<1>7. \A j \in J : \E p \in 1..k : q[p] = s[j]
  BY <1>2, <1>4
<1>8. (\A i, j \in J : s[i] = s[j] => i = j) => \A p, r \in 1..k : q[p] = q[r] => p = r
  BY <1>2, <1>4
<1> QED BY <1>2, <1>4, <1>5, <1>6, <1>7, <1>8 DEF q, k

\* The server derives every leaf below n for a request without deletions, once.
LEMMA LeafFacts ==
    ASSUME NEW n \in 0..MaxUpdates
    PROVE  LET leaves == LeafOrder(n, {})
           IN  /\ DOMAIN leaves = 1..n
               /\ \A j \in 1..n : leaves[j] \in 0..(n - 1)
               /\ \A i \in 0..(n - 1) : \E j \in 1..n : leaves[j] = i
               /\ \A i, j \in 1..n : leaves[i] = leaves[j] => i = j
<1> DEFINE leaves == LeafOrder(n, {})
           f == [j \in 1..n |-> leaves[j]]
<1>1. DOMAIN leaves = 1..n /\ ToSet(leaves) = 0..(n - 1) /\ n \in Nat
  BY LeafOrderAssumption, JanusAssumption
<1>2. ToSet(leaves) = {leaves[j] : j \in 1..n}
  BY <1>1 DEF ToSet
<1> HIDE DEF leaves
<1>3. /\ \A j \in 1..n : leaves[j] \in 0..(n - 1)
      /\ \A i \in 0..(n - 1) : \E j \in 1..n : leaves[j] = i
  BY <1>1, <1>2
<1>4. f \in Surjection(1..n, 0..(n - 1))
  BY <1>3 DEF Surjection
<1>5. /\ IsFiniteSet(1..n) /\ Cardinality(1..n) = n /\ Cardinality(0..(n - 1)) = n
  BY <1>1, FS_Interval
<1>6. f \in Injection(1..n, 0..(n - 1))
  <2> HIDE DEF f
  <2> QED BY <1>4, <1>5, FS_Surjection
<1>7. \A i, j \in 1..n : leaves[i] = leaves[j] => i = j
  BY <1>6 DEF Injection, IsInjective
<1> QED BY <1>1, <1>3, <1>7 DEF leaves

\* What a lookup of n entries under a key finds: every entry that is there, and
\* each leaf gives at most one result.
LEMMA FoundFacts ==
    ASSUME NEW n \in 0..MaxUpdates, NEW key, NEW S, NEW table,
           \A i \in 0..(n - 1) : <<key, i>> \in DOMAIN table => table[<<key, i>>] \in S
    PROVE  LET f == Found([ins |-> table], key, n, {})
           IN  /\ f \in Seq(S)
               /\ \A p \in DOMAIN f : \E i \in 0..(n - 1) :
                     <<key, i>> \in DOMAIN table /\ f[p] = table[<<key, i>>]
               /\ \A i \in 0..(n - 1) : <<key, i>> \in DOMAIN table =>
                     \E p \in DOMAIN f : f[p] = table[<<key, i>>]
               /\ (\A i \in 0..(n - 1) : <<key, i>> \in DOMAIN table) => Len(f) = n
               /\ (\A i, j \in 0..(n - 1) : table[<<key, i>>] = table[<<key, j>>] => i = j) =>
                     \A p, r \in DOMAIN f : f[p] = f[r] => p = r
<1> DEFINE leaves == LeafOrder(n, {})
           J == {j \in DOMAIN leaves : <<key, leaves[j]>> \in DOMAIN table}
           hits == Subsequence(leaves, J)
           f == Found([ins |-> table], key, n, {})
           L == {i \in 0..(n - 1) : <<key, i>> \in DOMAIN table}
<1>1. /\ n \in Nat /\ DOMAIN leaves = 1..n
      /\ \A j \in 1..n : leaves[j] \in 0..(n - 1)
      /\ \A i \in 0..(n - 1) : \E j \in 1..n : leaves[j] = i
      /\ \A i, j \in 1..n : leaves[i] = leaves[j] => i = j
  BY LeafFacts, JanusAssumption
<1>2. f = [j \in DOMAIN hits |-> table[<<key, hits[j]>>]]
  BY DEF Found
<1> HIDE DEF leaves, hits, f
<1>3. J \in SUBSET (1..n) /\ \A j \in J : leaves[j] \in L
  BY <1>1
<1>4. \A i \in L : \E j \in J : leaves[j] = i
  BY <1>1
<1> HIDE DEF J
<1>5. /\ hits \in Seq(L) /\ Cardinality(J) \in Nat
      /\ DOMAIN hits = 1..Cardinality(J) /\ Len(hits) = Cardinality(J)
      /\ \A p \in DOMAIN hits : \E j \in J : hits[p] = leaves[j]
      /\ \A j \in J : \E p \in DOMAIN hits : hits[p] = leaves[j]
      /\ (\A i, j \in J : leaves[i] = leaves[j] => i = j) =>
            \A p, r \in DOMAIN hits : hits[p] = hits[r] => p = r
  <2> HIDE DEF L
  <2> QED BY <1>1, <1>3, SubsequenceFacts DEF hits
<1>6. \A p \in DOMAIN hits : hits[p] \in L
  BY <1>3, <1>5
<1>7. ASSUME NEW i \in L PROVE \E p \in DOMAIN hits : hits[p] = i
  <2>1. PICK j \in J : leaves[j] = i
    BY <1>4, Zenon
  <2>2. \E p \in DOMAIN hits : hits[p] = leaves[j]
    BY <1>5, Zenon
  <2> QED BY <2>1, <2>2
<1>8. \A p, r \in DOMAIN hits : hits[p] = hits[r] => p = r
  BY <1>1, <1>3, <1>5
<1>9. /\ DOMAIN f = 1..Cardinality(J)
      /\ \A p \in DOMAIN f : hits[p] \in L /\ f[p] = table[<<key, hits[p]>>]
  BY <1>2, <1>5, <1>6
<1>10. f \in Seq(S) /\ Len(f) = Cardinality(J)
  <2>1. f \in [1..Cardinality(J) -> S]
    BY <1>2, <1>5, <1>9
  <2>2. f \in Seq(S)
    BY <1>5, <2>1, SeqDef
  <2> QED BY <1>5, <1>9, <2>2, LenProperties
<1>11. (\A i \in 0..(n - 1) : <<key, i>> \in DOMAIN table) => Len(f) = n
  <2> SUFFICES ASSUME \A i \in 0..(n - 1) : <<key, i>> \in DOMAIN table PROVE Len(f) = n
    OBVIOUS
  <2>1. J = 1..n
    BY <1>1 DEF J
  <2>2. Cardinality(1..n) = n
    BY <1>1, FS_Interval
  <2> QED BY <1>10, <2>1, <2>2
<1>12. \A p \in DOMAIN f : \E i \in L : f[p] = table[<<key, i>>]
  BY <1>9
<1>13. \A i \in L : \E p \in DOMAIN f : f[p] = table[<<key, i>>]
  BY <1>5, <1>7, <1>9
<1>14. (\A i, j \in L : table[<<key, i>>] = table[<<key, j>>] => i = j) =>
          \A p, r \in DOMAIN f : f[p] = f[r] => p = r
  <2> HIDE DEF L
  <2> SUFFICES ASSUME \A i, j \in L : table[<<key, i>>] = table[<<key, j>>] => i = j,
                      NEW p \in DOMAIN f, NEW r \in DOMAIN f, f[p] = f[r]
               PROVE  p = r
    OBVIOUS
  <2>1. hits[p] = hits[r]
    <3>1. hits[p] \in L /\ hits[r] \in L
      BY <1>9
    <3>2. table[<<key, hits[p]>>] = table[<<key, hits[r]>>]
      BY <1>9
    <3> QED BY <3>1, <3>2, Zenon
  <2> QED BY <1>5, <1>8, <1>9, <2>1
<1> QED BY <1>10, <1>11, <1>12, <1>13, <1>14 DEF f

-----------------------------------------------------------------------------
\* The inductive invariant.

Entries == [word : Keywords, no : Nat] \X Nat
Shares == [no : Nat, doc : Docs]
CacheEntries == [ind : Int, tag : Docs]
Calls == [st : {"sent", "keyed"}, w : Keywords, key : [word : Keywords, no : Nat],
          adds : Nat, dels : Nat, ks : Seq(Shares)]

Types ==
    /\ usehdd \in BOOLEAN
    /\ search_counter \in [Keywords -> Nat]
    /\ cache \in [Keywords -> Seq(CacheEntries)]
    /\ live \in [Keywords -> SUBSET Docs]
    /\ durable \in [Keywords -> SUBSET Docs]
    /\ pending \in [Keywords -> [ins : Seq(Docs), del : Seq(Docs)]]
    /\ updates \in 0..MaxUpdates
    /\ call = Idle \/ call \in Calls

\* The counters in memory are those of the current meta keywords.
RamCurrent(ram) ==
    \A k \in DOMAIN ram : ram[k] \in Nat /\ \E w \in Keywords : k = meta_keyword(w)

\* Nothing is stored under a later meta keyword and, where the table died with the
\* process, nothing at or beyond the counters of the current one.
WithinKeys(table, ram) ==
    \A t \in DOMAIN table :
        /\ t \in Entries
        /\ t[1].no <= search_counter[t[1].word]
        /\ ~usehdd /\ t[1].no = search_counter[t[1].word] => t[2] < Count(ram, t[1])

\* The first n entries under a key are the updates of log; the first share has
\* number 1.
InsMatch(key, n, log) ==
    /\ Len(log) = n
    /\ \A i \in 1..n : /\ <<key, i - 1>> \in DOMAIN insertions
                       /\ insertions[<<key, i - 1>>] = log[i]
DelMatch(key, n, log) ==
    /\ Len(log) = n
    /\ \A i \in 1..n : /\ <<key, i - 1>> \in DOMAIN shares
                       /\ shares[<<key, i - 1>>] \in Shares
                       /\ shares[<<key, i - 1>>].doc = log[i]
                       /\ i = 1 => shares[<<key, i - 1>>].no = 1

\* The keyword of the search in progress has nothing new; every other keyword has
\* its pending updates in the tables.
Searched(w) == call.st # "idle" /\ call.w = w
Matched(w) ==
    LET key == meta_keyword(w)
    IN  IF Searched(w) THEN Count(added, key) = 0 /\ Count(deleted, key) = 0
        ELSE /\ InsMatch(key, Count(added, key), pending[w].ins)
             /\ DelMatch(key, Count(deleted, key), pending[w].del)
Storage ==
    /\ RamCurrent(added) /\ RamCurrent(deleted)
    /\ WithinKeys(insertions, added) /\ WithinKeys(shares, deleted)
    /\ \A w \in Keywords : Matched(w)

\* A search in progress holds, or will find, the pending updates of its keyword.
KeysFound ==
    /\ usehdd \/ call.dels <= 1 => RemovedTags(call.ks) = ToSet(pending[call.w].del)
    /\ call.dels <= 1 => KeyFits(call.dels, call.ks)
InFlight ==
    call.st # "idle" =>
        /\ call.key.word = call.w
        /\ call.key.no <= search_counter[call.w]
        /\ call.adds > 0 \/ call.dels > 0 => call.key.no < search_counter[call.w]
        /\ InsMatch(call.key, call.adds, pending[call.w].ins)
        /\ Len(pending[call.w].del) = call.dels
        /\ call.st = "sent" => DelMatch(call.key, call.dels, pending[call.w].del)
        /\ call.st = "keyed" => KeysFound

\* What the history says of the pending updates.
Pending(w) ==
    /\ Len(pending[w].ins) <= updates /\ Len(pending[w].del) <= updates
    /\ w \notin crowded => Len(pending[w].del) <= 1
    /\ durable[w] \cup ToSet(pending[w].ins) \subseteq live[w] \cup ToSet(pending[w].del)
    /\ w \in regular =>
          /\ live[w] = (durable[w] \cup ToSet(pending[w].ins)) \ ToSet(pending[w].del)
          /\ durable[w] \cap ToSet(pending[w].ins) = {}
          /\ IsInjective(pending[w].ins)

\* What the results res of a keyword must be for its documents docs.
Good(res, docs, w) ==
    /\ usehdd \/ w \notin crowded => \A i \in DOMAIN res : res[i].tag \in docs
    /\ w \notin crowded => \A i \in DOMAIN res : res[i].ind # Garbage
    /\ w \in regular \ crowded =>
          /\ \A i, j \in DOMAIN res : res[i].tag = res[j].tag => i = j
          /\ \A d \in docs : \E i \in DOMAIN res : res[i].tag = d
          /\ \A i \in DOMAIN res : res[i].tag < 128 => res[i].ind = res[i].tag

\* The cache holds the results of the last search that ended.
Cached(w) == Good(cache[w], durable[w], w)

History == \A w \in Keywords : Pending(w) /\ Cached(w)

IInv == Types /\ Storage /\ InFlight /\ History /\ AnswerExact /\ DeletedStaysDeleted

-----------------------------------------------------------------------------
\* Meta keywords of different keywords or numbers are different.
LEMMA KeyFacts ==
    \A v, w, b, c : /\ Key(v, b).word = v /\ Key(v, b).no = b
                    /\ Key(v, b) = Key(w, c) => v = w /\ b = c
<1>1. \A v, b : Key(v, b).word = v /\ Key(v, b).no = b
  BY DEF Key
<1> QED BY <1>1

\* Counters are natural numbers.
LEMMA CountType ==
    ASSUME NEW ram, NEW k, k \in DOMAIN ram => ram[k] \in Nat
    PROVE  Count(ram, k) \in Nat
BY DEF Count

\* increment_and_get on one key.
LEMMA IncrementFacts ==
    ASSUME NEW ram, NEW key, Count(ram, key) \in Nat
    PROVE  LET new == Increment(ram, key)
           IN  /\ DOMAIN new = DOMAIN ram \cup {key}
               /\ new[key] = Count(ram, key)
               /\ \A k \in DOMAIN ram : k # key => new[k] = ram[k]
               /\ Count(new, key) = Count(ram, key) + 1
               /\ \A k : k # key => Count(new, k) = Count(ram, k)
<1> DEFINE new == Increment(ram, key)
<1>1. /\ DOMAIN new = DOMAIN ram \cup {key}
      /\ new[key] = Count(ram, key)
      /\ \A k \in DOMAIN ram : k # key => new[k] = ram[k]
  BY DEF Increment, Put
<1> HIDE DEF new
<1>2. /\ Count(new, key) = Count(ram, key) + 1
      /\ \A k : k # key => Count(new, k) = Count(ram, k)
  BY <1>1 DEF Count
<1> QED BY <1>1, <1>2 DEF new

\* A counter that search_request takes out.
LEMMA WithoutFacts ==
    ASSUME NEW ram, NEW key
    PROVE  /\ DOMAIN Without(ram, key) = DOMAIN ram \ {key}
           /\ \A k \in DOMAIN Without(ram, key) : Without(ram, key)[k] = ram[k]
           /\ Count(Without(ram, key), key) = 0
           /\ \A k : k # key => Count(Without(ram, key), k) = Count(ram, k)
BY DEF Without, Count

\* The set of a sequence, and what appending does to it.
LEMMA ToSetFacts ==
    ASSUME NEW S, NEW s \in Seq(S)
    PROVE  /\ Len(s) \in Nat /\ DOMAIN s = 1..Len(s)
           /\ ToSet(s) \subseteq S
           /\ \A x : x \in ToSet(s) <=> \E i \in DOMAIN s : s[i] = x
           /\ \A e \in S : /\ Append(s, e) \in Seq(S) /\ Len(Append(s, e)) = Len(s) + 1
                           /\ ToSet(Append(s, e)) = ToSet(s) \cup {e}
                           /\ \A i \in 1..(Len(s) + 1) :
                                 Append(s, e)[i] = IF i = Len(s) + 1 THEN e ELSE s[i]
<1>1. Len(s) \in Nat /\ DOMAIN s = 1..Len(s) /\ \A i \in 1..Len(s) : s[i] \in S
  BY LenProperties
<1>2. \A x : x \in ToSet(s) <=> \E i \in DOMAIN s : s[i] = x
  BY DEF ToSet
<1>3. ToSet(s) \subseteq S
  BY <1>1, <1>2
<1>4. ASSUME NEW e \in S
      PROVE  /\ Append(s, e) \in Seq(S) /\ Len(Append(s, e)) = Len(s) + 1
             /\ ToSet(Append(s, e)) = ToSet(s) \cup {e}
             /\ \A i \in 1..(Len(s) + 1) : Append(s, e)[i] = IF i = Len(s) + 1 THEN e ELSE s[i]
  <2> DEFINE a == Append(s, e)
  <2>1. a \in Seq(S) /\ Len(a) = Len(s) + 1
    BY <1>1
  <2>2. \A i \in 1..(Len(s) + 1) : a[i] = IF i = Len(s) + 1 THEN e ELSE s[i]
    BY <1>1
  <2>3. DOMAIN a = 1..(Len(s) + 1)
    BY <2>1, LenProperties
  <2>4. \A x : x \in ToSet(a) <=> \E i \in 1..(Len(s) + 1) : a[i] = x
    BY <2>3 DEF ToSet
  <2> HIDE DEF a
  <2>5. \A x : x \in ToSet(a) => x \in ToSet(s) \cup {e}
    BY <1>1, <1>2, <2>2, <2>4
  <2>6. \A x \in ToSet(s) : x \in ToSet(a)
    BY <1>1, <1>2, <2>2, <2>4
  <2>7. e \in ToSet(a)
    BY <1>1, <2>2, <2>4
  <2> QED BY <2>1, <2>2, <2>5, <2>6, <2>7 DEF a
<1> QED BY <1>1, <1>2, <1>3, <1>4

\* What the invariant says of one keyword.
LEMMA KeywordFacts ==
    ASSUME IInv, NEW w \in Keywords
    PROVE  /\ search_counter[w] \in Nat
           /\ meta_keyword(w).word = w /\ meta_keyword(w).no = search_counter[w]
           /\ \A v : meta_keyword(v) = meta_keyword(w) => v = w
           /\ \A k : Count(added, k) \in Nat /\ Count(deleted, k) \in Nat
           /\ pending[w].ins \in Seq(Docs) /\ pending[w].del \in Seq(Docs)
           /\ live[w] \in SUBSET Docs /\ durable[w] \in SUBSET Docs
           /\ cache[w] \in Seq(CacheEntries)
<1>1. search_counter[w] \in Nat
  BY DEF IInv, Types
<1>2. /\ meta_keyword(w).word = w /\ meta_keyword(w).no = search_counter[w]
      /\ \A v : meta_keyword(v) = meta_keyword(w) => v = w
  BY KeyFacts DEF meta_keyword
<1>3. \A k : Count(added, k) \in Nat /\ Count(deleted, k) \in Nat
  BY CountType DEF IInv, Storage, RamCurrent
<1>4. /\ pending[w].ins \in Seq(Docs) /\ pending[w].del \in Seq(Docs)
      /\ live[w] \in SUBSET Docs /\ durable[w] \in SUBSET Docs
      /\ cache[w] \in Seq(CacheEntries)
  BY DEF IInv, Types
<1> QED BY <1>1, <1>2, <1>3, <1>4

\* The token of the next update is not dropped: RocksDB overwrites, and a table in
\* memory does not hold it yet.
LEMMA NextTokenStored ==
    ASSUME IInv, NEW w \in Keywords, NEW table, NEW ram, WithinKeys(table, ram),
           Count(ram, meta_keyword(w)) \in Nat
    PROVE  usehdd \/ <<meta_keyword(w), Count(ram, meta_keyword(w))>> \notin DOMAIN table
<1> DEFINE key == meta_keyword(w)
           t == <<key, Count(ram, key)>>
<1>1. key.word = w /\ key.no = search_counter[w]
  BY KeywordFacts
<1>2. t[1] = key /\ t[2] = Count(ram, key)
  OBVIOUS
<1> SUFFICES ASSUME ~usehdd, t \in DOMAIN table PROVE FALSE
  OBVIOUS
<1>3. t[2] < Count(ram, t[1])
  BY <1>1, <1>2 DEF WithinKeys
<1> HIDE DEF t, key
<1> QED BY <1>2, <1>3 DEF key

\* insertKeyword, spelled out.
LEMMA InsertStep ==
    ASSUME IInv, NEW w \in Keywords, NEW d \in Docs, insertKeyword(w, d)
    PROVE  LET key == meta_keyword(w)
               n == Count(added, key)
               t == <<key, n>>
           IN  /\ call = Idle /\ n \in Nat /\ t \in Entries
               /\ DOMAIN added' = DOMAIN added \cup {key}
               /\ \A k \in DOMAIN added' : added'[k] \in Nat
               /\ Count(added', key) = n + 1
               /\ \A k : k # key => Count(added', k) = Count(added, k)
               /\ DOMAIN insertions' = DOMAIN insertions \cup {t}
               /\ insertions'[t] = d
               /\ \A x \in DOMAIN insertions : x # t => insertions'[x] = insertions[x]
<1> DEFINE key == meta_keyword(w)
           n == Count(added, key)
           t == <<key, n>>
<1>1. call = Idle /\ added' = Increment(added, key) /\ insertions' = Update(insertions, t, d, usehdd)
  BY DEF insertKeyword
<1>2. n \in Nat
  BY KeywordFacts
<1>3. key \in [word : Keywords, no : Nat]
  BY KeywordFacts DEF meta_keyword, Key
<1>4. t \in Entries
  BY <1>2, <1>3 DEF Entries
<1>5. usehdd \in BOOLEAN /\ (usehdd \/ t \notin DOMAIN insertions)
  BY <1>2, NextTokenStored DEF IInv, Storage, Types
<1>6. \A k \in DOMAIN added : added[k] \in Nat
  BY DEF IInv, Storage, RamCurrent
<1> HIDE DEF key, n, t
<1>7. /\ DOMAIN added' = DOMAIN added \cup {key} /\ added'[key] = n
      /\ \A k \in DOMAIN added : k # key => added'[k] = added[k]
      /\ Count(added', key) = n + 1
      /\ \A k : k # key => Count(added', k) = Count(added, k)
  <2> DEFINE new == Increment(added, key)
  <2>1. Count(added, key) \in Nat /\ n = Count(added, key)
    BY <1>2 DEF n
  <2>2. /\ DOMAIN new = DOMAIN added \cup {key} /\ new[key] = Count(added, key)
        /\ \A k \in DOMAIN added : k # key => new[k] = added[k]
        /\ Count(new, key) = Count(added, key) + 1
        /\ \A k : k # key => Count(new, k) = Count(added, k)
    BY <2>1, IncrementFacts
  <2> HIDE DEF new
  <2>3. added' = new
    BY <1>1 DEF new
  <2> QED BY <2>1, <2>2, <2>3
<1>8. \A k \in DOMAIN added' : added'[k] \in Nat
  BY <1>2, <1>6, <1>7
<1>9. /\ DOMAIN insertions' = DOMAIN insertions \cup {t} /\ insertions'[t] = d
      /\ \A x \in DOMAIN insertions : x # t => insertions'[x] = insertions[x]
  <2>1. insertions' = Put(insertions, t, d)
    BY <1>1, <1>5 DEF Update
  <2> QED BY <2>1 DEF Put
<1> QED BY <1>1, <1>2, <1>4, <1>7, <1>8, <1>9 DEF key, n, t

\* insertKeyword keeps the tables and counters matched.
LEMMA InsertStorage ==
    ASSUME IInv, NEW w \in Keywords, NEW d \in Docs, insertKeyword(w, d)
    PROVE  Storage'
<1> DEFINE key == meta_keyword(w)
           n == Count(added, key)
           t == <<key, n>>
<1>1. /\ call = Idle /\ n \in Nat /\ t \in Entries
      /\ DOMAIN added' = DOMAIN added \cup {key}
      /\ \A k \in DOMAIN added' : added'[k] \in Nat
      /\ Count(added', key) = n + 1
      /\ \A k : k # key => Count(added', k) = Count(added, k)
      /\ DOMAIN insertions' = DOMAIN insertions \cup {t}
      /\ insertions'[t] = d
      /\ \A x \in DOMAIN insertions : x # t => insertions'[x] = insertions[x]
  BY InsertStep
<1>2. /\ UNCHANGED <<usehdd, search_counter, deleted, shares, call>>
      /\ pending' = [pending EXCEPT ![w].ins = Append(@, d)]
  BY DEF insertKeyword, persistent
<1>3. key.word = w /\ key.no = search_counter[w] /\ t[1] = key /\ t[2] = n
  BY KeywordFacts
<1>4. \A v \in Keywords : meta_keyword(v)' = meta_keyword(v)
  BY <1>2 DEF meta_keyword
<1>5. \A v \in Keywords \ {w} : meta_keyword(v) # key
  BY KeywordFacts
<1>6. \A k : Count(added, k) \in Nat
  BY KeywordFacts
<1> HIDE DEF key, n, t
<1>7. RamCurrent(added)' /\ RamCurrent(deleted)'
  <2>1. \A k \in DOMAIN added' : \E v \in Keywords : k = meta_keyword(v)
    BY <1>1 DEF IInv, Storage, RamCurrent, key
  <2>2. RamCurrent(added)'
    BY <1>1, <1>4, <2>1 DEF RamCurrent
  <2>3. RamCurrent(deleted)'
    BY <1>2, <1>4 DEF IInv, Storage, RamCurrent
  <2> QED BY <2>2, <2>3
<1>8. WithinKeys(insertions, added)'
  <2> SUFFICES ASSUME NEW x \in DOMAIN insertions'
               PROVE  /\ x \in Entries
                      /\ x[1].no <= search_counter[x[1].word]
                      /\ ~usehdd /\ x[1].no = search_counter[x[1].word] => x[2] < Count(added', x[1])
    BY <1>2 DEF WithinKeys, Entries
  <2>1. CASE x = t
    <3>1. search_counter[w] \in Nat
      BY KeywordFacts
    <3> QED BY <1>1, <1>3, <2>1, <3>1
  <2>2. CASE x \in DOMAIN insertions
    <3>1. /\ x \in Entries /\ x[1].no <= search_counter[x[1].word]
          /\ ~usehdd /\ x[1].no = search_counter[x[1].word] => x[2] < Count(added, x[1])
      BY <2>2 DEF IInv, Storage, WithinKeys
    <3>2. x[2] \in Nat
      BY <3>1 DEF Entries
    <3>3. Count(added', x[1]) \in Nat /\ Count(added, x[1]) \in Nat /\ Count(added', x[1]) >= Count(added, x[1])
      BY <1>1, <1>6 DEF n
    <3> QED BY <3>1, <3>2, <3>3
  <2> QED BY <1>1, <2>1, <2>2
<1>9. WithinKeys(shares, deleted)'
  BY <1>2 DEF IInv, Storage, WithinKeys, Entries
<1>10. ASSUME NEW v \in Keywords PROVE Matched(v)'
  <2>1. ~Searched(v)' /\ ~Searched(v)
    BY <1>1, <1>2 DEF Searched, Idle
  <2>2. /\ InsMatch(meta_keyword(v), Count(added, meta_keyword(v)), pending[v].ins)
        /\ DelMatch(meta_keyword(v), Count(deleted, meta_keyword(v)), pending[v].del)
    BY <2>1 DEF IInv, Storage, Matched
  <2>3. pending'[v].del = pending[v].del
    BY <1>2 DEF IInv, Types
  <2>4. DelMatch(meta_keyword(v), Count(deleted, meta_keyword(v)), pending[v].del)'
    BY <1>2, <1>4, <2>2, <2>3 DEF DelMatch
  <2>5. CASE v = w
    <3> DEFINE log == pending[w].ins
    <3>1. pending'[w].ins = Append(log, d) /\ log \in Seq(Docs)
      BY <1>2, KeywordFacts DEF IInv, Types
    <3>2. Len(log) = n /\ \A i \in 1..n : <<key, i - 1>> \in DOMAIN insertions
                                           /\ insertions[<<key, i - 1>>] = log[i]
      BY <2>2, <2>5 DEF InsMatch, n, key
    <3> HIDE DEF log
    <3>3. Len(Append(log, d)) = n + 1
          /\ \A i \in 1..(n + 1) : Append(log, d)[i] = IF i = n + 1 THEN d ELSE log[i]
      BY <3>1, <3>2, ToSetFacts
    <3>4. ASSUME NEW i \in 1..(n + 1)
          PROVE  /\ <<key, i - 1>> \in DOMAIN insertions'
                 /\ insertions'[<<key, i - 1>>] = Append(log, d)[i]
      <4>1. CASE i = n + 1
        <5>1. <<key, i - 1>> = t
          BY <1>1, <4>1 DEF t
        <5> QED BY <1>1, <3>3, <4>1, <5>1
      <4>2. CASE i # n + 1
        <5>1. i \in 1..n /\ i - 1 # n
          BY <1>1, <4>2
        <5>2. <<key, i - 1>> # t
          BY <5>1 DEF t
        <5> QED BY <1>1, <3>2, <3>3, <4>2, <5>1, <5>2
      <4> QED BY <4>1, <4>2
    <3>5. InsMatch(meta_keyword(v), Count(added, meta_keyword(v)), pending[v].ins)'
      <4>1. meta_keyword(v)' = key /\ Count(added, meta_keyword(v))' = n + 1 /\ pending[v]'.ins = Append(log, d)
        BY <1>1, <1>4, <2>5, <3>1 DEF key
      <4> QED BY <3>3, <3>4, <4>1 DEF InsMatch
    <3> QED BY <2>1, <2>4, <3>5 DEF Matched
  <2>6. CASE v # w
    <3>1. pending'[v].ins = pending[v].ins
      BY <1>2, <2>6 DEF IInv, Types
    <3>2. \A i : <<meta_keyword(v), i>> # t
      BY <1>5, <2>6 DEF t
    <3>3. meta_keyword(v)' = meta_keyword(v)
          /\ Count(added, meta_keyword(v))' = Count(added, meta_keyword(v))
      BY <1>1, <1>4, <1>5, <2>6
    <3>4. InsMatch(meta_keyword(v), Count(added, meta_keyword(v)), pending[v].ins)'
      BY <1>1, <2>2, <3>1, <3>2, <3>3 DEF InsMatch
    <3> QED BY <2>1, <2>4, <3>4 DEF Matched
  <2> QED BY <2>5, <2>6
<1> QED BY <1>7, <1>8, <1>9, <1>10 DEF Storage

\* deleteKeyword, spelled out; the first share under a key has number 1.
LEMMA DeleteStep ==
    ASSUME IInv, NEW w \in Keywords, NEW d \in Docs, deleteKeyword(w, d)
    PROVE  LET key == meta_keyword(w)
               n == Count(deleted, key)
               t == <<key, n>>
           IN  /\ call = Idle /\ n \in Nat /\ t \in Entries
               /\ DOMAIN deleted' = DOMAIN deleted \cup {key}
               /\ \A k \in DOMAIN deleted' : deleted'[k] \in Nat
               /\ Count(deleted', key) = n + 1
               /\ \A k : k # key => Count(deleted', k) = Count(deleted, k)
               /\ DOMAIN shares' = DOMAIN shares \cup {t}
               /\ shares'[t] \in Shares /\ shares'[t].doc = d /\ (n = 0 => shares'[t].no = 1)
               /\ \A x \in DOMAIN shares : x # t => shares'[x] = shares[x]
<1> DEFINE key == meta_keyword(w)
           n == Count(deleted, key)
           t == <<key, n>>
           ks == [no |-> get_match_count(key) + 1, doc |-> d]
<1>1. call = Idle /\ deleted' = Increment(deleted, key) /\ shares' = Update(shares, t, ks, usehdd)
  BY DEF deleteKeyword
<1>2. n \in Nat
  BY KeywordFacts
<1>3. key \in [word : Keywords, no : Nat]
  BY KeywordFacts DEF meta_keyword, Key
<1>4. t \in Entries
  BY <1>2, <1>3 DEF Entries
<1>5. usehdd \in BOOLEAN /\ (usehdd \/ t \notin DOMAIN shares)
  BY <1>2, NextTokenStored DEF IInv, Storage, Types
<1>6. \A k \in DOMAIN deleted : deleted[k] \in Nat
  BY DEF IInv, Storage, RamCurrent
<1>7. ks \in Shares /\ ks.doc = d /\ (n = 0 => ks.no = 1)
  <2> HIDE DEF key
  <2>1. get_match_count(key) \in Nat /\ (n = 0 => get_match_count(key) = 0)
    BY <1>6 DEF get_match_count, Count
  <2> HIDE DEF n
  <2> QED BY <2>1 DEF Shares
<1> HIDE DEF key, n, t, ks
<1>8. /\ DOMAIN deleted' = DOMAIN deleted \cup {key} /\ deleted'[key] = n
      /\ \A k \in DOMAIN deleted : k # key => deleted'[k] = deleted[k]
      /\ Count(deleted', key) = n + 1
      /\ \A k : k # key => Count(deleted', k) = Count(deleted, k)
  <2> DEFINE new == Increment(deleted, key)
  <2>1. Count(deleted, key) \in Nat /\ n = Count(deleted, key)
    BY <1>2 DEF n
  <2>2. /\ DOMAIN new = DOMAIN deleted \cup {key} /\ new[key] = Count(deleted, key)
        /\ \A k \in DOMAIN deleted : k # key => new[k] = deleted[k]
        /\ Count(new, key) = Count(deleted, key) + 1
        /\ \A k : k # key => Count(new, k) = Count(deleted, k)
    BY <2>1, IncrementFacts
  <2> HIDE DEF new
  <2>3. deleted' = new
    BY <1>1 DEF new
  <2> QED BY <2>1, <2>2, <2>3
<1>9. \A k \in DOMAIN deleted' : deleted'[k] \in Nat
  BY <1>2, <1>6, <1>8
<1>10. /\ DOMAIN shares' = DOMAIN shares \cup {t} /\ shares'[t] = ks
       /\ \A x \in DOMAIN shares : x # t => shares'[x] = shares[x]
  <2>1. shares' = Put(shares, t, ks)
    BY <1>1, <1>5 DEF Update
  <2> QED BY <2>1 DEF Put
<1> QED BY <1>1, <1>2, <1>4, <1>7, <1>8, <1>9, <1>10 DEF key, n, t

\* deleteKeyword keeps the tables and counters matched.
LEMMA DeleteStorage ==
    ASSUME IInv, NEW w \in Keywords, NEW d \in Docs, deleteKeyword(w, d)
    PROVE  Storage'
<1> DEFINE key == meta_keyword(w)
           n == Count(deleted, key)
           t == <<key, n>>
<1>1. /\ call = Idle /\ n \in Nat /\ t \in Entries
      /\ DOMAIN deleted' = DOMAIN deleted \cup {key}
      /\ \A k \in DOMAIN deleted' : deleted'[k] \in Nat
      /\ Count(deleted', key) = n + 1
      /\ \A k : k # key => Count(deleted', k) = Count(deleted, k)
      /\ DOMAIN shares' = DOMAIN shares \cup {t}
      /\ shares'[t] \in Shares /\ shares'[t].doc = d /\ (n = 0 => shares'[t].no = 1)
      /\ \A x \in DOMAIN shares : x # t => shares'[x] = shares[x]
  BY DeleteStep
<1>2. /\ UNCHANGED <<usehdd, search_counter, added, insertions, call>>
      /\ pending' = [pending EXCEPT ![w].del = Append(@, d)]
  BY DEF deleteKeyword, persistent
<1>3. key.word = w /\ key.no = search_counter[w] /\ t[1] = key /\ t[2] = n
  BY KeywordFacts
<1>4. \A v \in Keywords : meta_keyword(v)' = meta_keyword(v)
  BY <1>2 DEF meta_keyword
<1>5. \A v \in Keywords \ {w} : meta_keyword(v) # key
  BY KeywordFacts
<1>6. \A k : Count(deleted, k) \in Nat
  BY KeywordFacts
<1> HIDE DEF key, n, t
<1>7. RamCurrent(added)' /\ RamCurrent(deleted)'
  <2>1. \A k \in DOMAIN deleted' : \E v \in Keywords : k = meta_keyword(v)
    BY <1>1 DEF IInv, Storage, RamCurrent, key
  <2>2. RamCurrent(deleted)'
    BY <1>1, <1>4, <2>1 DEF RamCurrent
  <2>3. RamCurrent(added)'
    BY <1>2, <1>4 DEF IInv, Storage, RamCurrent
  <2> QED BY <2>2, <2>3
<1>8. WithinKeys(shares, deleted)'
  <2> SUFFICES ASSUME NEW x \in DOMAIN shares'
               PROVE  /\ x \in Entries
                      /\ x[1].no <= search_counter[x[1].word]
                      /\ ~usehdd /\ x[1].no = search_counter[x[1].word] => x[2] < Count(deleted', x[1])
    BY <1>2 DEF WithinKeys, Entries
  <2>1. CASE x = t
    <3>1. search_counter[w] \in Nat
      BY KeywordFacts
    <3> QED BY <1>1, <1>3, <2>1, <3>1
  <2>2. CASE x \in DOMAIN shares
    <3>1. /\ x \in Entries /\ x[1].no <= search_counter[x[1].word]
          /\ ~usehdd /\ x[1].no = search_counter[x[1].word] => x[2] < Count(deleted, x[1])
      BY <2>2 DEF IInv, Storage, WithinKeys
    <3>2. x[2] \in Nat
      BY <3>1 DEF Entries
    <3>3. /\ Count(deleted', x[1]) \in Nat /\ Count(deleted, x[1]) \in Nat
          /\ Count(deleted', x[1]) >= Count(deleted, x[1])
      BY <1>1, <1>6 DEF n
    <3> QED BY <3>1, <3>2, <3>3
  <2> QED BY <1>1, <2>1, <2>2
<1>9. WithinKeys(insertions, added)'
  BY <1>2 DEF IInv, Storage, WithinKeys, Entries
<1>10. ASSUME NEW v \in Keywords PROVE Matched(v)'
  <2>1. ~Searched(v)' /\ ~Searched(v)
    BY <1>1, <1>2 DEF Searched, Idle
  <2>2. /\ InsMatch(meta_keyword(v), Count(added, meta_keyword(v)), pending[v].ins)
        /\ DelMatch(meta_keyword(v), Count(deleted, meta_keyword(v)), pending[v].del)
    BY <2>1 DEF IInv, Storage, Matched
  <2>3. pending'[v].ins = pending[v].ins
    BY <1>2 DEF IInv, Types
  <2>4. InsMatch(meta_keyword(v), Count(added, meta_keyword(v)), pending[v].ins)'
    BY <1>2, <1>4, <2>2, <2>3 DEF InsMatch
  <2>5. CASE v = w
    <3> DEFINE log == pending[w].del
    <3>1. pending'[w].del = Append(log, d) /\ log \in Seq(Docs)
      BY <1>2, KeywordFacts DEF IInv, Types
    <3>2. Len(log) = n /\ \A i \in 1..n : /\ <<key, i - 1>> \in DOMAIN shares
                                          /\ shares[<<key, i - 1>>] \in Shares
                                          /\ shares[<<key, i - 1>>].doc = log[i]
                                          /\ i = 1 => shares[<<key, i - 1>>].no = 1
      BY <2>2, <2>5 DEF DelMatch, n, key
    <3> HIDE DEF log
    <3>3. Len(Append(log, d)) = n + 1
          /\ \A i \in 1..(n + 1) : Append(log, d)[i] = IF i = n + 1 THEN d ELSE log[i]
      BY <3>1, <3>2, ToSetFacts
    <3>4. ASSUME NEW i \in 1..(n + 1)
          PROVE  /\ <<key, i - 1>> \in DOMAIN shares'
                 /\ shares'[<<key, i - 1>>] \in Shares
                 /\ shares'[<<key, i - 1>>].doc = Append(log, d)[i]
                 /\ i = 1 => shares'[<<key, i - 1>>].no = 1
      <4>1. CASE i = n + 1
        <5>1. <<key, i - 1>> = t /\ (i = 1 => n = 0)
          BY <1>1, <4>1 DEF t
        <5> QED BY <1>1, <3>3, <4>1, <5>1
      <4>2. CASE i # n + 1
        <5>1. i \in 1..n /\ i - 1 # n
          BY <1>1, <4>2
        <5>2. <<key, i - 1>> # t
          BY <5>1 DEF t
        <5> QED BY <1>1, <3>2, <3>3, <4>2, <5>1, <5>2
      <4> QED BY <4>1, <4>2
    <3>5. DelMatch(meta_keyword(v), Count(deleted, meta_keyword(v)), pending[v].del)'
      <4>1. /\ meta_keyword(v)' = key /\ Count(deleted, meta_keyword(v))' = n + 1
            /\ pending[v]'.del = Append(log, d)
        BY <1>1, <1>4, <2>5, <3>1 DEF key
      <4> QED BY <3>3, <3>4, <4>1 DEF DelMatch
    <3> QED BY <2>1, <2>4, <3>5 DEF Matched
  <2>6. CASE v # w
    <3>1. pending'[v].del = pending[v].del
      BY <1>2, <2>6 DEF IInv, Types
    <3>2. \A i : <<meta_keyword(v), i>> # t
      BY <1>5, <2>6 DEF t
    <3>3. meta_keyword(v)' = meta_keyword(v)
          /\ Count(deleted, meta_keyword(v))' = Count(deleted, meta_keyword(v))
      BY <1>1, <1>4, <1>5, <2>6
    <3>4. DelMatch(meta_keyword(v), Count(deleted, meta_keyword(v)), pending[v].del)'
      BY <1>1, <2>2, <3>1, <3>2, <3>3 DEF DelMatch
    <3> QED BY <2>1, <2>4, <3>4 DEF Matched
  <2> QED BY <2>5, <2>6
<1> QED BY <1>7, <1>8, <1>9, <1>10 DEF Storage

\* Steps that leave the last answer alone leave what is said of it alone.
LEMMA AnswerKept ==
    ASSUME IInv, UNCHANGED <<usehdd, answer>>
    PROVE  AnswerExact' /\ DeletedStaysDeleted'
<1>1. AnswerExact'
  BY DEF IInv, AnswerExact, IsInjective, ToSet
<1>2. DeletedStaysDeleted'
  BY DEF IInv, DeletedStaysDeleted
<1> QED BY <1>1, <1>2

\* insertKeyword preserves the invariant.
LEMMA InsertIInv ==
    ASSUME IInv, NEW w \in Keywords, NEW d \in Docs, insertKeyword(w, d)
    PROVE  IInv'
<1>1. /\ call = Idle /\ updates < MaxUpdates /\ updates' = updates + 1
      /\ live' = [live EXCEPT ![w] = @ \cup {d}]
      /\ pending' = [pending EXCEPT ![w].ins = Append(@, d)]
      /\ regular' = IF d \in live[w] \cup ToSet(pending[w].del) THEN regular \ {w} ELSE regular
      /\ UNCHANGED <<usehdd, search_counter, cache, call, answer, durable, crowded>>
  BY DEF insertKeyword, persistent
<1>2. pending[w].ins \in Seq(Docs) /\ pending[w].del \in Seq(Docs)
  BY KeywordFacts
<1> DEFINE log == Append(pending[w].ins, d)
<1>3. /\ Len(pending[w].ins) \in Nat /\ DOMAIN pending[w].ins = 1..Len(pending[w].ins)
      /\ log \in Seq(Docs) /\ Len(log) = Len(pending[w].ins) + 1
      /\ ToSet(log) = ToSet(pending[w].ins) \cup {d}
      /\ \A i \in 1..(Len(pending[w].ins) + 1) :
            log[i] = IF i = Len(pending[w].ins) + 1 THEN d ELSE pending[w].ins[i]
      /\ \A x : x \in ToSet(pending[w].ins) <=> \E i \in DOMAIN pending[w].ins : pending[w].ins[i] = x
  BY <1>2, ToSetFacts
<1>4. DOMAIN log = 1..(Len(pending[w].ins) + 1)
  BY <1>3, LenProperties
<1> HIDE DEF log
<1>5. /\ pending'[w].ins = log /\ pending'[w].del = pending[w].del
      /\ live'[w] = live[w] \cup {d}
      /\ \A v \in Keywords : v # w => pending'[v] = pending[v] /\ live'[v] = live[v]
      /\ pending' \in [Keywords -> [ins : Seq(Docs), del : Seq(Docs)]]
      /\ live' \in [Keywords -> SUBSET Docs]
  BY <1>1, <1>3 DEF IInv, Types, log
<1>6. updates \in Nat /\ updates' \in 0..MaxUpdates
  BY <1>1, JanusAssumption DEF IInv, Types
<1>7. Types'
  BY <1>1, <1>5, <1>6 DEF IInv, Types, Calls, Shares, CacheEntries
<1>8. InFlight'
  BY <1>1 DEF InFlight, Idle
<1>9. ASSUME NEW v \in Keywords PROVE Cached(v)'
  <2>1. Cached(v) /\ regular' \subseteq regular
    BY <1>1 DEF IInv, History
  <2> QED BY <1>1, <2>1 DEF Cached, Good
<1>10. ASSUME NEW v \in Keywords PROVE Pending(v)'
  <2>1. Pending(v)
    BY DEF IInv, History
  <2>2. CASE v # w
    <3>1. pending'[v] = pending[v] /\ live'[v] = live[v] /\ durable'[v] = durable[v]
          /\ (v \in regular' => v \in regular) /\ (v \in crowded' <=> v \in crowded)
      BY <1>1, <1>5, <2>2
    <3>2. Len(pending[v].ins) \in Nat /\ Len(pending[v].del) \in Nat
      BY KeywordFacts, LenProperties
    <3>3. Len(pending[v].ins) <= updates' /\ Len(pending[v].del) <= updates'
      BY <1>1, <1>6, <2>1, <3>2 DEF Pending
    <3> QED BY <2>1, <3>1, <3>3 DEF Pending, IsInjective, ToSet
  <2>3. CASE v = w
    <3>1. Len(pending[w].del) \in Nat
      BY <1>2, LenProperties
    <3>2. Len(log) <= updates' /\ Len(pending[w].del) <= updates'
      BY <1>1, <1>3, <1>6, <2>1, <2>3, <3>1 DEF Pending
    <3>3. w \notin crowded' => Len(pending[w].del) <= 1
      BY <1>1, <2>1, <2>3 DEF Pending
    <3>4. durable'[w] \cup ToSet(log) \subseteq live'[w] \cup ToSet(pending[w].del)
      BY <1>1, <1>3, <1>5, <2>1, <2>3 DEF Pending
    <3>5. ASSUME w \in regular'
          PROVE  /\ live'[w] = (durable'[w] \cup ToSet(log)) \ ToSet(pending[w].del)
                 /\ durable'[w] \cap ToSet(log) = {}
                 /\ IsInjective(log)
      <4>1. w \in regular /\ d \notin live[w] /\ d \notin ToSet(pending[w].del)
        BY <1>1, <3>5
      <4>2. /\ live[w] = (durable[w] \cup ToSet(pending[w].ins)) \ ToSet(pending[w].del)
            /\ durable[w] \cap ToSet(pending[w].ins) = {}
            /\ IsInjective(pending[w].ins)
        BY <2>1, <2>3, <4>1 DEF Pending
      <4>3. d \notin durable[w] /\ d \notin ToSet(pending[w].ins)
        BY <4>1, <4>2
      <4>4. \A i, j \in DOMAIN log : log[i] = log[j] => i = j
        <5> DEFINE s == pending[w].ins
                   k == Len(s)
        <5>1. /\ k \in Nat /\ DOMAIN log = 1..(k + 1)
              /\ log[k + 1] = d
              /\ \A i \in 1..k : log[i] = s[i] /\ s[i] # d
              /\ \A i, j \in 1..k : s[i] = s[j] => i = j
          BY <1>3, <1>4, <4>2, <4>3 DEF IsInjective
        <5> HIDE DEF s, k
        <5>2. \A i \in DOMAIN log : i \in 1..k \/ i = k + 1
          BY <5>1
        <5> QED BY <5>1, <5>2
      <4> QED BY <1>1, <1>3, <1>5, <4>1, <4>2, <4>3, <4>4 DEF IsInjective
    <3> QED BY <1>5, <2>3, <3>2, <3>3, <3>4, <3>5 DEF Pending
  <2> QED BY <2>2, <2>3
<1> QED BY <1>1, <1>7, <1>8, <1>9, <1>10, InsertStorage, AnswerKept DEF IInv, History

\* deleteKeyword preserves the invariant.
LEMMA DeleteIInv ==
    ASSUME IInv, NEW w \in Keywords, NEW d \in Docs, deleteKeyword(w, d)
    PROVE  IInv'
<1>1. /\ call = Idle /\ updates < MaxUpdates /\ updates' = updates + 1
      /\ live' = [live EXCEPT ![w] = @ \ {d}]
      /\ pending' = [pending EXCEPT ![w].del = Append(@, d)]
      /\ crowded' = IF pending[w].del # << >> THEN crowded \cup {w} ELSE crowded
      /\ UNCHANGED <<usehdd, search_counter, cache, call, answer, durable, regular>>
  BY DEF deleteKeyword, persistent
<1>2. pending[w].ins \in Seq(Docs) /\ pending[w].del \in Seq(Docs)
  BY KeywordFacts
<1> DEFINE log == Append(pending[w].del, d)
<1>3. /\ Len(pending[w].del) \in Nat /\ Len(pending[w].ins) \in Nat
      /\ log \in Seq(Docs) /\ Len(log) = Len(pending[w].del) + 1
      /\ ToSet(log) = ToSet(pending[w].del) \cup {d}
      /\ pending[w].del = << >> => Len(pending[w].del) = 0
  BY <1>2, ToSetFacts
<1> HIDE DEF log
<1>4. /\ pending'[w].del = log /\ pending'[w].ins = pending[w].ins
      /\ live'[w] = live[w] \ {d}
      /\ \A v \in Keywords : v # w => pending'[v] = pending[v] /\ live'[v] = live[v]
      /\ pending' \in [Keywords -> [ins : Seq(Docs), del : Seq(Docs)]]
      /\ live' \in [Keywords -> SUBSET Docs]
  BY <1>1, <1>3 DEF IInv, Types, log
<1>5. updates \in Nat /\ updates' \in 0..MaxUpdates
  BY <1>1, JanusAssumption DEF IInv, Types
<1>6. Types'
  BY <1>1, <1>4, <1>5 DEF IInv, Types, Calls, Shares, CacheEntries
<1>7. InFlight'
  BY <1>1 DEF InFlight, Idle
<1>8. ASSUME NEW v \in Keywords PROVE Cached(v)'
  <2>1. Cached(v) /\ crowded \subseteq crowded'
    BY <1>1 DEF IInv, History
  <2> QED BY <1>1, <2>1 DEF Cached, Good
<1>9. ASSUME NEW v \in Keywords PROVE Pending(v)'
  <2>1. Pending(v)
    BY DEF IInv, History
  <2>2. CASE v # w
    <3>1. pending'[v] = pending[v] /\ live'[v] = live[v] /\ durable'[v] = durable[v]
          /\ (v \in regular' <=> v \in regular) /\ (v \in crowded' <=> v \in crowded)
      BY <1>1, <1>4, <2>2
    <3>2. Len(pending[v].ins) \in Nat /\ Len(pending[v].del) \in Nat
      BY KeywordFacts, LenProperties
    <3>3. Len(pending[v].ins) <= updates' /\ Len(pending[v].del) <= updates'
      BY <1>1, <1>5, <2>1, <3>2 DEF Pending
    <3> QED BY <2>1, <3>1, <3>3 DEF Pending, IsInjective, ToSet
  <2>3. CASE v = w
    <3>1. Len(log) <= updates' /\ Len(pending[w].ins) <= updates'
      BY <1>1, <1>3, <1>5, <2>1, <2>3 DEF Pending
    <3>2. w \notin crowded' => Len(log) <= 1
      BY <1>1, <1>3
    <3>3. durable'[w] \cup ToSet(pending[w].ins) \subseteq live'[w] \cup ToSet(log)
      BY <1>1, <1>3, <1>4, <2>1, <2>3 DEF Pending
    <3>4. ASSUME w \in regular'
          PROVE  /\ live'[w] = (durable'[w] \cup ToSet(pending[w].ins)) \ ToSet(log)
                 /\ durable'[w] \cap ToSet(pending[w].ins) = {}
                 /\ IsInjective(pending[w].ins)
      <4>1. /\ live[w] = (durable[w] \cup ToSet(pending[w].ins)) \ ToSet(pending[w].del)
            /\ durable[w] \cap ToSet(pending[w].ins) = {}
            /\ IsInjective(pending[w].ins)
        BY <1>1, <2>1, <2>3, <3>4 DEF Pending
      <4> QED BY <1>1, <1>3, <1>4, <4>1
    <3> QED BY <1>4, <2>3, <3>1, <3>2, <3>3, <3>4 DEF Pending
  <2> QED BY <2>2, <2>3
<1> QED BY <1>1, <1>6, <1>7, <1>8, <1>9, DeleteStorage, AnswerKept DEF IInv, History

\* search_request, spelled out: the keyword moves on to the next meta keyword unless
\* there is nothing to search, and no counter is left under either.
LEMMA RequestStep ==
    ASSUME IInv, NEW w \in Keywords, search_request(w)
    PROVE  LET key == meta_keyword(w)
               n == Count(added, key)
               m == Count(deleted, key)
           IN  /\ call = Idle /\ n \in Nat /\ m \in Nat
               /\ call' = [st |-> "sent", w |-> w, key |-> key, adds |-> n, dels |-> m, ks |-> << >>]
               /\ search_counter'[w] = IF n > 0 \/ m > 0 THEN search_counter[w] + 1 ELSE search_counter[w]
               /\ search_counter' \in [Keywords -> Nat]
               /\ \A v \in Keywords \ {w} : /\ search_counter'[v] = search_counter[v]
                                            /\ meta_keyword(v)' = meta_keyword(v)
                                            /\ meta_keyword(v) # key
               /\ \A k : k # key => /\ Count(added', k) = Count(added, k)
                                    /\ Count(deleted', k) = Count(deleted, k)
               /\ RamCurrent(added)' /\ RamCurrent(deleted)'
               /\ Count(added, meta_keyword(w))' = 0 /\ Count(deleted, meta_keyword(w))' = 0
               /\ UNCHANGED <<usehdd, cache, insertions, shares, answer, history, updates>>
<1> DEFINE key == meta_keyword(w)
           n == Count(added, key)
           m == Count(deleted, key)
<1>1. /\ call = Idle
      /\ call' = [st |-> "sent", w |-> w, key |-> key, adds |-> n, dels |-> m, ks |-> << >>]
      /\ search_counter' = [search_counter EXCEPT ![w] = IF n > 0 \/ m > 0 THEN @ + 1 ELSE @]
      /\ added' = Without(added, key) /\ deleted' = Without(deleted, key)
      /\ UNCHANGED <<usehdd, cache, insertions, shares, answer, history, updates>>
  BY DEF search_request
<1>2. n \in Nat /\ m \in Nat
  BY KeywordFacts
<1> HIDE DEF key, n, m
<1>3. /\ search_counter'[w] = IF n > 0 \/ m > 0 THEN search_counter[w] + 1 ELSE search_counter[w]
      /\ search_counter' \in [Keywords -> Nat]
      /\ \A v \in Keywords \ {w} : search_counter'[v] = search_counter[v]
  BY <1>1 DEF IInv, Types
<1>4. \A v \in Keywords \ {w} : meta_keyword(v)' = meta_keyword(v) /\ meta_keyword(v) # key
  BY <1>3, KeywordFacts DEF meta_keyword, key
<1>5. /\ DOMAIN added' = DOMAIN added \ {key} /\ DOMAIN deleted' = DOMAIN deleted \ {key}
      /\ \A k \in DOMAIN added' : added'[k] = added[k]
      /\ \A k \in DOMAIN deleted' : deleted'[k] = deleted[k]
  BY <1>1, WithoutFacts
<1>6. \A k : k # key => /\ Count(added', k) = Count(added, k)
                        /\ Count(deleted', k) = Count(deleted, k)
  BY <1>5 DEF Count
<1>7. /\ \A k \in DOMAIN added' : added'[k] \in Nat /\ \E v \in Keywords \ {w} : k = meta_keyword(v)'
      /\ \A k \in DOMAIN deleted' : deleted'[k] \in Nat /\ \E v \in Keywords \ {w} : k = meta_keyword(v)'
  <2>1. /\ \A k \in DOMAIN added : added[k] \in Nat /\ \E v \in Keywords : k = meta_keyword(v)
        /\ \A k \in DOMAIN deleted : deleted[k] \in Nat /\ \E v \in Keywords : k = meta_keyword(v)
    BY DEF IInv, Storage, RamCurrent
  <2> QED BY <1>4, <1>5, <2>1 DEF key
<1>8. RamCurrent(added)' /\ RamCurrent(deleted)'
  BY <1>7 DEF RamCurrent
<1>9. meta_keyword(w)' \notin DOMAIN added' \cup DOMAIN deleted'
  <2>1. \A v : meta_keyword(v)'.word = v
    BY KeyFacts DEF meta_keyword
  <2> QED BY <1>7, <2>1
<1>10. Count(added, meta_keyword(w))' = 0 /\ Count(deleted, meta_keyword(w))' = 0
  BY <1>9 DEF Count
<1> QED BY <1>1, <1>2, <1>3, <1>4, <1>6, <1>8, <1>10 DEF key, n, m

\* Nothing that is stored comes to lie beyond the counters: entries of the searched
\* keyword are under an earlier meta keyword now, or there are none.
LEMMA RequestWithin ==
    ASSUME IInv, NEW w \in Keywords, search_request(w), NEW table, NEW ram, NEW newRam,
           WithinKeys(table, ram), \A k : Count(ram, k) \in Nat,
           Count(ram, meta_keyword(w)) > 0 => search_counter'[w] = search_counter[w] + 1,
           \A k : k # meta_keyword(w) => Count(newRam, k) = Count(ram, k)
    PROVE  \A t \in DOMAIN table :
              /\ t \in Entries
              /\ t[1].no <= search_counter'[t[1].word]
              /\ ~usehdd /\ t[1].no = search_counter'[t[1].word] => t[2] < Count(newRam, t[1])
<1> DEFINE key == meta_keyword(w)
<1>1. /\ search_counter[w] \in Nat /\ key.word = w /\ key.no = search_counter[w]
      /\ search_counter'[w] \in {search_counter[w], search_counter[w] + 1}
      /\ \A v \in Keywords \ {w} : search_counter'[v] = search_counter[v]
  BY KeywordFacts, RequestStep
<1> SUFFICES ASSUME NEW t \in DOMAIN table
             PROVE  /\ t \in Entries
                    /\ t[1].no <= search_counter'[t[1].word]
                    /\ ~usehdd /\ t[1].no = search_counter'[t[1].word] => t[2] < Count(newRam, t[1])
  OBVIOUS
<1>2. /\ t \in Entries /\ t[1].no <= search_counter[t[1].word]
      /\ ~usehdd /\ t[1].no = search_counter[t[1].word] => t[2] < Count(ram, t[1])
  BY DEF WithinKeys
<1>3. t[1] \in [word : Keywords, no : Nat] /\ t[2] \in Nat
  BY <1>2 DEF Entries
<1>4. CASE t[1].word # w
  <2>1. t[1] # key
    BY <1>1, <1>4
  <2> HIDE DEF key
  <2> QED BY <1>1, <1>2, <1>3, <1>4, <2>1 DEF key
<1>5. CASE t[1].word = w
  <2>1. t[1].no <= search_counter'[w] /\ t[1].no \in Nat
    BY <1>1, <1>2, <1>3, <1>5
  <2>2. ~(~usehdd /\ t[1].no = search_counter'[w])
    <3> SUFFICES ASSUME ~usehdd, t[1].no = search_counter'[w] PROVE FALSE
      OBVIOUS
    <3>1. t[1].no = search_counter[w] /\ search_counter'[w] # search_counter[w] + 1
      BY <1>1, <1>2, <1>5, <2>1
    <3>2. t[1] = key
      BY <1>3, <1>5, <3>1 DEF meta_keyword, Key
    <3>3. t[2] < Count(ram, key)
      BY <1>2, <1>5, <3>1, <3>2
    <3> HIDE DEF key
    <3>4. Count(ram, key) \in Nat /\ ~(Count(ram, key) > 0)
      BY <3>1 DEF key
    <3> QED BY <1>3, <3>3, <3>4
  <2> QED BY <1>2, <1>5, <2>1, <2>2
<1> QED BY <1>4, <1>5

\* search_request preserves the invariant.
LEMMA RequestIInv ==
    ASSUME IInv, NEW w \in Keywords, search_request(w)
    PROVE  IInv'
<1> DEFINE key == meta_keyword(w)
           n == Count(added, key)
           m == Count(deleted, key)
<1>1. /\ call = Idle /\ n \in Nat /\ m \in Nat
      /\ call' = [st |-> "sent", w |-> w, key |-> key, adds |-> n, dels |-> m, ks |-> << >>]
      /\ search_counter'[w] = IF n > 0 \/ m > 0 THEN search_counter[w] + 1 ELSE search_counter[w]
      /\ search_counter' \in [Keywords -> Nat]
      /\ \A v \in Keywords \ {w} : meta_keyword(v)' = meta_keyword(v) /\ meta_keyword(v) # key
      /\ \A k : k # key => /\ Count(added', k) = Count(added, k)
                           /\ Count(deleted', k) = Count(deleted, k)
      /\ RamCurrent(added)' /\ RamCurrent(deleted)'
      /\ Count(added, meta_keyword(w))' = 0 /\ Count(deleted, meta_keyword(w))' = 0
      /\ UNCHANGED <<usehdd, cache, insertions, shares, answer, history, updates>>
  BY RequestStep
<1>2. /\ search_counter[w] \in Nat /\ key.word = w /\ key.no = search_counter[w]
      /\ key \in [word : Keywords, no : Nat]
      /\ \A k : Count(added, k) \in Nat /\ Count(deleted, k) \in Nat
  BY KeywordFacts DEF meta_keyword, Key
<1>3. ASSUME NEW v \in Keywords
      PROVE  /\ InsMatch(meta_keyword(v), Count(added, meta_keyword(v)), pending[v].ins)
             /\ DelMatch(meta_keyword(v), Count(deleted, meta_keyword(v)), pending[v].del)
  BY <1>1 DEF IInv, Storage, Matched, Searched, Idle
<1>4. WithinKeys(insertions, added) /\ WithinKeys(shares, deleted)
  BY DEF IInv, Storage
<1>5. WithinKeys(insertions, added)' /\ WithinKeys(shares, deleted)'
  <2>1. \A t \in DOMAIN insertions :
              /\ t \in Entries
              /\ t[1].no <= search_counter'[t[1].word]
              /\ ~usehdd /\ t[1].no = search_counter'[t[1].word] => t[2] < Count(added', t[1])
    <3> HIDE DEF key
    <3> QED BY <1>1, <1>2, <1>4, RequestWithin DEF key
  <2>2. \A t \in DOMAIN shares :
              /\ t \in Entries
              /\ t[1].no <= search_counter'[t[1].word]
              /\ ~usehdd /\ t[1].no = search_counter'[t[1].word] => t[2] < Count(deleted', t[1])
    <3> HIDE DEF key
    <3> QED BY <1>1, <1>2, <1>4, RequestWithin DEF key
  <2> QED BY <1>1, <2>1, <2>2 DEF WithinKeys, Entries
<1>6. /\ InsMatch(key, n, pending[w].ins) /\ DelMatch(key, m, pending[w].del)
  BY <1>3
<1>7. ASSUME NEW v \in Keywords PROVE Matched(v)'
  <2>1. CASE v = w
    <3>1. Searched(w)'
      BY <1>1 DEF Searched
    <3> QED BY <1>1, <2>1, <3>1 DEF Matched
  <2>2. CASE v # w
    <3>1. ~Searched(v)'
      BY <1>1, <2>2 DEF Searched
    <3>2. /\ meta_keyword(v)' = meta_keyword(v)
          /\ Count(added, meta_keyword(v))' = Count(added, meta_keyword(v))
          /\ Count(deleted, meta_keyword(v))' = Count(deleted, meta_keyword(v))
          /\ pending' = pending
      BY <1>1, <2>2 DEF history
    <3>3. InsMatch(meta_keyword(v), Count(added, meta_keyword(v)), pending[v].ins)'
      BY <1>1, <1>3, <3>2 DEF InsMatch
    <3>4. DelMatch(meta_keyword(v), Count(deleted, meta_keyword(v)), pending[v].del)'
      BY <1>1, <1>3, <3>2 DEF DelMatch
    <3> QED BY <3>1, <3>3, <3>4 DEF Matched
  <2> QED BY <2>1, <2>2
<1> HIDE DEF key, n, m
<1>8. Storage'
  BY <1>1, <1>5, <1>7 DEF Storage
<1>9. Types'
  <2>1. call' \in Calls
    BY <1>1, <1>2 DEF Calls, Shares
  <2>2. updates' = updates /\ usehdd' = usehdd /\ cache' = cache
        /\ live' = live /\ durable' = durable /\ pending' = pending
    BY <1>1 DEF history
  <2> QED BY <1>1, <2>1, <2>2 DEF IInv, Types, Calls, Shares, CacheEntries
<1>10. InFlight'
  <2>1. /\ call'.st = "sent" /\ call'.w = w /\ call'.key = key
        /\ call'.adds = n /\ call'.dels = m
    BY <1>1
  <2>2. /\ key.word = w /\ key.no <= search_counter'[w]
        /\ n > 0 \/ m > 0 => key.no < search_counter'[w]
    BY <1>1, <1>2
  <2>3. InsMatch(call.key, call.adds, pending[call.w].ins)'
    BY <1>1, <1>6, <2>1 DEF InsMatch, history
  <2>4. DelMatch(call.key, call.dels, pending[call.w].del)'
    BY <1>1, <1>6, <2>1 DEF DelMatch, history
  <2>5. Len(pending[call.w].del)' = call'.dels
    BY <2>4 DEF DelMatch
  <2> QED BY <2>1, <2>2, <2>3, <2>4, <2>5 DEF InFlight
<1>11. History'
  BY <1>1 DEF IInv, History, Pending, Cached, Good, history, IsInjective, ToSet
<1> QED BY <1>1, <1>8, <1>9, <1>10, <1>11, AnswerKept DEF IInv

\* What the invariant says of the search in progress.
LEMMA CallFacts ==
    ASSUME IInv, call.st # "idle"
    PROVE  /\ call \in Calls /\ call.w \in Keywords
           /\ call.adds \in 0..MaxUpdates /\ call.dels \in 0..MaxUpdates
           /\ call.ks \in Seq(Shares)
           /\ InsMatch(call.key, call.adds, pending[call.w].ins)
           /\ Len(pending[call.w].del) = call.dels
           /\ \A v \in Keywords : v # call.w => meta_keyword(v) # call.key
           /\ Searched(call.w) /\ \A v : v # call.w => ~Searched(v)
<1>1. call \in Calls
  BY DEF IInv, Types, Idle
<1>2. call.w \in Keywords /\ call.adds \in Nat /\ call.dels \in Nat /\ call.ks \in Seq(Shares)
  BY <1>1 DEF Calls
<1>3. /\ call.key.word = call.w
      /\ InsMatch(call.key, call.adds, pending[call.w].ins)
      /\ Len(pending[call.w].del) = call.dels
  BY DEF IInv, InFlight
<1>4. /\ Len(pending[call.w].ins) <= updates /\ Len(pending[call.w].del) <= updates
      /\ updates \in 0..MaxUpdates /\ MaxUpdates \in Nat
  BY <1>2, JanusAssumption DEF IInv, Types, History, Pending
<1>5. call.adds \in 0..MaxUpdates /\ call.dels \in 0..MaxUpdates
  BY <1>2, <1>3, <1>4 DEF InsMatch
<1>6. \A v \in Keywords : v # call.w => meta_keyword(v) # call.key
  BY <1>3, KeyFacts DEF meta_keyword
<1> QED BY <1>1, <1>2, <1>3, <1>5, <1>6 DEF Searched

\* The key shares that the server collects: those of the pending deletions, unless
\* some were lost; a single share fits.
LEMMA SharesCollected ==
    ASSUME IInv, call.st = "sent", NEW lost \in SUBSET DOMAIN shares,
           lost # {} => ~usehdd /\ call.dels > 1,
           NEW table, DOMAIN table = DOMAIN shares \ lost,
           \A t \in DOMAIN table : table[t] = shares[t]
    PROVE  LET ks == Found([ins |-> table], call.key, call.dels, {})
           IN  /\ ks \in Seq(Shares)
               /\ usehdd \/ call.dels <= 1 => RemovedTags(ks) = ToSet(pending[call.w].del)
               /\ call.dels <= 1 => KeyFits(call.dels, ks)
<1> DEFINE key == call.key
           m == call.dels
           log == pending[call.w].del
           ks == Found([ins |-> table], key, m, {})
<1>1. call.w \in Keywords /\ m \in 0..MaxUpdates /\ m \in Nat
  BY CallFacts, JanusAssumption
<1>2. /\ Len(log) = m
      /\ \A i \in 1..m : /\ <<key, i - 1>> \in DOMAIN shares
                         /\ shares[<<key, i - 1>>] \in Shares
                         /\ shares[<<key, i - 1>>].doc = log[i]
                         /\ i = 1 => shares[<<key, i - 1>>].no = 1
  BY DEF IInv, InFlight, DelMatch
<1>3. log \in Seq(Docs) /\ \A x : x \in ToSet(log) <=> \E i \in 1..m : log[i] = x
  BY <1>1, <1>2, KeywordFacts, ToSetFacts
<1>4. DOMAIN table = DOMAIN shares \ lost /\ \A t \in DOMAIN table : table[t] = shares[t]
  OBVIOUS
<1> HIDE DEF key, m, log
<1>5. ASSUME NEW i \in 0..(m - 1)
      PROVE  /\ <<key, i>> \in DOMAIN shares /\ shares[<<key, i>>] \in Shares
             /\ shares[<<key, i>>].doc = log[i + 1] /\ i + 1 \in 1..m
             /\ i = 0 => shares[<<key, i>>].no = 1
  <2>1. i + 1 \in 1..m /\ (i + 1) - 1 = i /\ (i = 0 => i + 1 = 1)
    BY <1>1
  <2> QED BY <1>2, <2>1
<1>6. \A i \in 0..(m - 1) : <<key, i>> \in DOMAIN table => table[<<key, i>>] \in Shares
  BY <1>4, <1>5
<1>7. /\ ks \in Seq(Shares)
      /\ \A p \in DOMAIN ks : \E i \in 0..(m - 1) :
            <<key, i>> \in DOMAIN table /\ ks[p] = table[<<key, i>>]
      /\ \A i \in 0..(m - 1) : <<key, i>> \in DOMAIN table =>
            \E p \in DOMAIN ks : ks[p] = table[<<key, i>>]
      /\ (\A i \in 0..(m - 1) : <<key, i>> \in DOMAIN table) => Len(ks) = m
      /\ (\A i, j \in 0..(m - 1) : table[<<key, i>>] = table[<<key, j>>] => i = j) =>
            \A p, r \in DOMAIN ks : ks[p] = ks[r] => p = r
  <2> HIDE DEF ks
  <2> QED BY <1>1, <1>6, FoundFacts DEF ks
<1> HIDE DEF ks
<1>8. ASSUME usehdd \/ m <= 1
      PROVE  RemovedTags(ks) = ToSet(log) /\ Len(ks) = m
             /\ \A p \in DOMAIN ks : \E i \in 0..(m - 1) : ks[p] = shares[<<key, i>>]
  <2>1. lost = {}
    BY <1>1, <1>8 DEF m
  <2>2. \A i \in 0..(m - 1) : <<key, i>> \in DOMAIN table /\ table[<<key, i>>] = shares[<<key, i>>]
    BY <1>4, <1>5, <2>1
  <2>3. ASSUME NEW x \in RemovedTags(ks) PROVE x \in ToSet(log)
    <3>1. PICK p \in DOMAIN ks : x = ks[p].doc
      BY DEF RemovedTags
    <3>2. PICK i \in 0..(m - 1) : ks[p] = shares[<<key, i>>]
      BY <1>7, <2>2
    <3> QED BY <1>3, <1>5, <3>1, <3>2
  <2>4. ASSUME NEW x \in ToSet(log) PROVE x \in RemovedTags(ks)
    <3>1. PICK i \in 1..m : log[i] = x
      BY <1>3
    <3>2. i - 1 \in 0..(m - 1)
      BY <1>1
    <3>3. PICK p \in DOMAIN ks : ks[p] = shares[<<key, i - 1>>]
      BY <1>7, <2>2, <3>2
    <3> QED BY <1>2, <3>1, <3>3 DEF RemovedTags
  <2>5. Len(ks) = m
    BY <1>7, <2>2
  <2>6. \A p \in DOMAIN ks : \E i \in 0..(m - 1) : ks[p] = shares[<<key, i>>]
    BY <1>7, <2>2
  <2> QED BY <2>3, <2>4, <2>5, <2>6
<1>9. ASSUME m <= 1 PROVE KeyFits(m, ks)
  <2>1. Len(ks) = m /\ DOMAIN ks = 1..m
    BY <1>7, <1>8, <1>9, LenProperties
  <2>2. \A p \in DOMAIN ks : ks[p].no = 1
    <3> SUFFICES ASSUME NEW p \in DOMAIN ks PROVE ks[p].no = 1
      OBVIOUS
    <3>1. PICK i \in 0..(m - 1) : ks[p] = shares[<<key, i>>]
      BY <1>8, <1>9
    <3>2. i = 0
      BY <1>1, <1>9, <3>1
    <3> QED BY <1>5, <3>1, <3>2
  <2>3. \A x : x \in {ks[i].no : i \in DOMAIN ks} <=> x \in 1..m
    <3>1. CASE m = 0
      BY <2>1, <3>1
    <3>2. CASE m = 1
      BY <2>1, <2>2, <3>2
    <3> QED BY <1>1, <1>9, <3>1, <3>2
  <2> QED BY <2>1, <2>3 DEF KeyFits
<1> QED BY <1>7, <1>8, <1>9 DEF key, m, log, ks

\* collectKeyShares preserves the invariant: it removes nothing but entries under the
\* key of the search, which no keyword has as its current one unless it is searched.
LEMMA CollectIInv ==
    ASSUME IInv, collectKeyShares
    PROVE  IInv'
<1> DEFINE tokens == {<<call.key, i>> : i \in 0..(call.dels - 1)}
<1>1. /\ call.st = "sent"
      /\ UNCHANGED <<persistent, added, deleted, insertions, answer, history, bounds>>
  BY DEF collectKeyShares
<1>2. PICK lost \in SUBSET (tokens \cap DOMAIN shares) :
         /\ lost # {} => ~usehdd /\ call.dels > 1
         /\ call' = [call EXCEPT !.st = "keyed",
                        !.ks = Found([ins |-> [t \in DOMAIN shares \ lost |-> shares[t]]],
                                     call.key, call.dels, {})]
         /\ shares' = [t \in DOMAIN shares \ (tokens \ lost) |-> shares[t]]
  BY DEF collectKeyShares
<1>3. UNCHANGED <<usehdd, search_counter, cache, added, deleted, insertions, answer,
                  live, durable, pending, regular, crowded, updates>>
  BY <1>1 DEF persistent, history, bounds
<1> DEFINE table == [t \in DOMAIN shares \ lost |-> shares[t]]
           ks == Found([ins |-> table], call.key, call.dels, {})
<1>4. /\ ks \in Seq(Shares)
      /\ usehdd \/ call.dels <= 1 => RemovedTags(ks) = ToSet(pending[call.w].del)
      /\ call.dels <= 1 => KeyFits(call.dels, ks)
  <2>1. DOMAIN table = DOMAIN shares \ lost /\ \A t \in DOMAIN table : table[t] = shares[t]
    OBVIOUS
  <2>2. lost \in SUBSET DOMAIN shares
    OBVIOUS
  <2> HIDE DEF table
  <2> QED BY <1>1, <1>2, <2>1, <2>2, SharesCollected
<1>5. /\ call \in Calls /\ call.w \in Keywords
      /\ InsMatch(call.key, call.adds, pending[call.w].ins)
      /\ Len(pending[call.w].del) = call.dels
      /\ \A v \in Keywords : v # call.w => meta_keyword(v) # call.key
      /\ Searched(call.w) /\ \A v : v # call.w => ~Searched(v)
  BY <1>1, CallFacts
<1>6. call' = [call EXCEPT !.st = "keyed", !.ks = ks]
  BY <1>2
<1>7. /\ DOMAIN shares' \subseteq DOMAIN shares
      /\ \A t \in DOMAIN shares' : shares'[t] = shares[t]
      /\ \A k, i : k # call.key /\ <<k, i>> \in DOMAIN shares => <<k, i>> \in DOMAIN shares'
  BY <1>2
<1> HIDE DEF ks
<1>8. /\ call' \in Calls /\ call'.st = "keyed" /\ call'.w = call.w /\ call'.key = call.key
      /\ call'.adds = call.adds /\ call'.dels = call.dels /\ call'.ks = ks
  BY <1>4, <1>5, <1>6 DEF Calls
<1>9. Types'
  BY <1>3, <1>8 DEF IInv, Types, Calls, Shares, CacheEntries
<1>10. InFlight'
  <2>1. /\ call.key.word = call.w /\ call.key.no <= search_counter[call.w]
        /\ call.adds > 0 \/ call.dels > 0 => call.key.no < search_counter[call.w]
    BY <1>1 DEF IInv, InFlight
  <2>2. InsMatch(call.key, call.adds, pending[call.w].ins)'
    BY <1>3, <1>5, <1>8 DEF InsMatch
  <2>3. KeysFound'
    BY <1>3, <1>4, <1>8 DEF KeysFound
  <2> QED BY <1>3, <1>5, <1>8, <2>1, <2>2, <2>3 DEF InFlight
<1>11. \A v \in Keywords : meta_keyword(v)' = meta_keyword(v)
  BY <1>3 DEF meta_keyword
<1>12. ASSUME NEW v \in Keywords PROVE Matched(v)'
  <2>1. Matched(v)
    BY DEF IInv, Storage
  <2>2. CASE v = call.w
    <3>1. Searched(v)' /\ Searched(v)
      BY <1>5, <1>8, <2>2 DEF Searched
    <3> QED BY <1>3, <1>11, <2>1, <3>1 DEF Matched
  <2>3. CASE v # call.w
    <3>1. ~Searched(v)' /\ ~Searched(v)
      BY <1>5, <1>8, <2>3 DEF Searched
    <3>2. /\ InsMatch(meta_keyword(v), Count(added, meta_keyword(v)), pending[v].ins)
          /\ DelMatch(meta_keyword(v), Count(deleted, meta_keyword(v)), pending[v].del)
      BY <2>1, <3>1 DEF Matched
    <3>3. InsMatch(meta_keyword(v), Count(added, meta_keyword(v)), pending[v].ins)'
      BY <1>3, <1>11, <3>2 DEF InsMatch
    <3>4. DelMatch(meta_keyword(v), Count(deleted, meta_keyword(v)), pending[v].del)'
      BY <1>3, <1>5, <1>7, <1>11, <2>3, <3>2 DEF DelMatch
    <3> QED BY <3>1, <3>3, <3>4 DEF Matched
  <2> QED BY <2>2, <2>3
<1>13. Storage'
  <2>1. RamCurrent(added)' /\ RamCurrent(deleted)'
    BY <1>3, <1>11 DEF IInv, Storage, RamCurrent
  <2>2. WithinKeys(insertions, added)' /\ WithinKeys(shares, deleted)'
    BY <1>3, <1>7 DEF IInv, Storage, WithinKeys, Entries
  <2> QED BY <1>12, <2>1, <2>2 DEF Storage
<1>14. History'
  BY <1>3 DEF IInv, History, Pending, Cached, Good, IsInjective, ToSet
<1> QED BY <1>3, <1>9, <1>10, <1>13, <1>14, AnswerKept DEF IInv

-----------------------------------------------------------------------------
\* What the rest of a search computes.

\* A cache entry that is read back: the tag is intact, a number is not garbage, and
\* an identifier below 128 survives.
LEMMA RestoredFacts ==
    ASSUME NEW e \in CacheEntries
    PROVE  /\ Restored(e) \in CacheEntries /\ Restored(e).tag = e.tag
           /\ e.ind # Garbage => Restored(e).ind # Garbage
           /\ e.ind \in 0..127 => Restored(e).ind = e.ind
<1>1. e.ind \in Int /\ e.tag \in Docs /\ e = [ind |-> e.ind, tag |-> e.tag]
  BY DEF CacheEntries
<1>2. ASSUME NEW n \in Int
      PROVE  Byte(n) \in Int /\ Byte(n) > Garbage /\ (n \in 0..127 => Byte(n) = n)
  <2>1. n % 256 \in 0..255 /\ (n \in 0..127 => n % 256 = n)
    OBVIOUS
  <2> QED BY <2>1 DEF Byte, Garbage
<1>3. Restored(e) = [ind |-> IF e.ind = Garbage THEN Garbage ELSE Byte(e.ind), tag |-> e.tag]
  BY <1>1 DEF Restored
<1>4. Restored(e).tag = e.tag /\ Restored(e).ind = IF e.ind = Garbage THEN Garbage ELSE Byte(e.ind)
  BY <1>3
<1>5. Garbage \in Int /\ \A i \in 0..127 : i # Garbage
  BY DEF Garbage
<1>6. Restored(e).ind \in Int
  BY <1>1, <1>2, <1>4, <1>5
<1>7. Restored(e) \in CacheEntries
  BY <1>1, <1>3, <1>4, <1>6 DEF CacheEntries
<1>8. e.ind # Garbage => Restored(e).ind # Garbage
  BY <1>1, <1>2, <1>4, <1>5
<1>9. e.ind \in 0..127 => Restored(e).ind = e.ind
  BY <1>1, <1>2, <1>4, <1>5
<1> QED BY <1>4, <1>7, <1>8, <1>9

\* Decryption: one result for every ciphertext whose tag is not removed, and the
\* identifier where the key fits.
LEMMA DecryptedFacts ==
    ASSUME NEW cts \in Seq(Docs), NEW n, NEW ks
    PROVE  LET r == Decrypted(cts, n, ks)
           IN  /\ r \in Seq(CacheEntries)
               /\ \A p \in DOMAIN r : /\ r[p].tag \notin RemovedTags(ks)
                                      /\ \E j \in DOMAIN cts : r[p].tag = cts[j]
                                      /\ KeyFits(n, ks) => r[p].ind = r[p].tag
               /\ \A j \in DOMAIN cts : cts[j] \notin RemovedTags(ks) =>
                     \E p \in DOMAIN r : r[p].tag = cts[j]
               /\ (\A i, j \in DOMAIN cts : cts[i] = cts[j] => i = j) =>
                     \A p, q \in DOMAIN r : r[p].tag = r[q].tag => p = q
<1> DEFINE J == {i \in DOMAIN cts : cts[i] \notin RemovedTags(ks)}
           open == Subsequence(cts, J)
           r == Decrypted(cts, n, ks)
<1>1. Len(cts) \in Nat /\ DOMAIN cts = 1..Len(cts) /\ \A i \in DOMAIN cts : cts[i] \in Docs
  BY LenProperties
<1>2. r = [i \in DOMAIN open |-> [ind |-> IF KeyFits(n, ks) THEN open[i] ELSE Garbage, tag |-> open[i]]]
  BY DEF Decrypted
<1>3. J \in SUBSET (1..Len(cts)) /\ \A j \in J : cts[j] \in Docs
  BY <1>1
<1>4. \A j \in DOMAIN cts : j \in J <=> cts[j] \notin RemovedTags(ks)
  OBVIOUS
<1>5. J \subseteq DOMAIN cts
  OBVIOUS
<1> HIDE DEF J, open, r
<1>6. /\ open \in Seq(Docs) /\ Cardinality(J) \in Nat
      /\ DOMAIN open = 1..Cardinality(J) /\ Len(open) = Cardinality(J)
      /\ \A p \in DOMAIN open : \E j \in J : open[p] = cts[j]
      /\ \A j \in J : \E p \in DOMAIN open : open[p] = cts[j]
      /\ (\A i, j \in J : cts[i] = cts[j] => i = j) =>
            \A p, q \in DOMAIN open : open[p] = open[q] => p = q
  BY <1>1, <1>3, SubsequenceFacts DEF open
<1>7. /\ DOMAIN r = 1..Cardinality(J) /\ DOMAIN r = DOMAIN open
      /\ \A p \in DOMAIN r : /\ open[p] \in Docs
                             /\ r[p] = [ind |-> IF KeyFits(n, ks) THEN open[p] ELSE Garbage, tag |-> open[p]]
  BY <1>2, <1>3, <1>6
<1>8. ASSUME NEW p \in DOMAIN r
      PROVE  r[p] \in CacheEntries /\ r[p].tag = open[p] /\ (KeyFits(n, ks) => r[p].ind = r[p].tag)
  <2>1. Docs \subseteq Nat
    BY JanusAssumption
  <2>2. open[p] \in Nat
    BY <1>7, <2>1
  <2>3. Garbage \in Int
    BY DEF Garbage
  <2> QED BY <1>7, <2>2, <2>3 DEF CacheEntries
<1>9. r \in Seq(CacheEntries)
  <2>1. r \in [1..Cardinality(J) -> CacheEntries]
    BY <1>2, <1>7, <1>8
  <2> QED BY <1>6, <2>1, SeqDef
<1>10. \A p \in DOMAIN r : r[p].tag \notin RemovedTags(ks) /\ \E j \in DOMAIN cts : r[p].tag = cts[j]
  BY <1>4, <1>5, <1>6, <1>7, <1>8
<1>11. \A j \in DOMAIN cts : cts[j] \notin RemovedTags(ks) => \E p \in DOMAIN r : r[p].tag = cts[j]
  BY <1>4, <1>6, <1>7, <1>8
<1>12. (\A i, j \in DOMAIN cts : cts[i] = cts[j] => i = j) =>
          \A p, q \in DOMAIN r : r[p].tag = r[q].tag => p = q
  BY <1>5, <1>6, <1>7, <1>8
<1> QED BY <1>8, <1>9, <1>10, <1>11, <1>12 DEF r

\* The cached results: one for every entry whose tag is not removed.
LEMMA FilteredFacts ==
    ASSUME NEW entries \in Seq(CacheEntries), NEW ks
    PROVE  LET r == Filtered(entries, ks)
           IN  /\ r \in Seq(CacheEntries)
               /\ \A p \in DOMAIN r : \E j \in DOMAIN entries :
                     /\ entries[j].tag \notin RemovedTags(ks)
                     /\ r[p].tag = entries[j].tag
                     /\ entries[j].ind # Garbage => r[p].ind # Garbage
                     /\ entries[j].ind \in 0..127 => r[p].ind = entries[j].ind
               /\ \A j \in DOMAIN entries : entries[j].tag \notin RemovedTags(ks) =>
                     \E p \in DOMAIN r : r[p].tag = entries[j].tag
               /\ (\A i, j \in DOMAIN entries : entries[i].tag = entries[j].tag => i = j) =>
                     \A p, q \in DOMAIN r : r[p].tag = r[q].tag => p = q
<1> DEFINE J == {i \in DOMAIN entries : entries[i].tag \notin RemovedTags(ks)}
           back == [i \in DOMAIN entries |-> Restored(entries[i])]
           r == Subsequence(back, J)
<1>1. /\ Len(entries) \in Nat /\ DOMAIN entries = 1..Len(entries)
      /\ \A i \in DOMAIN entries : entries[i] \in CacheEntries
  BY LenProperties
<1>2. Filtered(entries, ks) = r
  BY DEF Filtered
<1>3. J \in SUBSET (1..Len(entries))
  BY <1>1
<1>4. \A j \in DOMAIN entries : j \in J <=> entries[j].tag \notin RemovedTags(ks)
  OBVIOUS
<1>5. J \subseteq DOMAIN entries
  OBVIOUS
<1>6. ASSUME NEW j \in DOMAIN entries
      PROVE  /\ back[j] \in CacheEntries /\ back[j].tag = entries[j].tag
             /\ entries[j].ind # Garbage => back[j].ind # Garbage
             /\ entries[j].ind \in 0..127 => back[j].ind = entries[j].ind
  BY <1>1, RestoredFacts
<1> HIDE DEF J, back, r
<1>7. /\ r \in Seq(CacheEntries) /\ Cardinality(J) \in Nat
      /\ DOMAIN r = 1..Cardinality(J) /\ Len(r) = Cardinality(J)
      /\ \A p \in DOMAIN r : \E j \in J : r[p] = back[j]
      /\ \A j \in J : \E p \in DOMAIN r : r[p] = back[j]
      /\ (\A i, j \in J : back[i] = back[j] => i = j) =>
            \A p, q \in DOMAIN r : r[p] = r[q] => p = q
  <2>1. \A j \in J : back[j] \in CacheEntries
    BY <1>5, <1>6
  <2> QED BY <1>1, <1>3, <2>1, SubsequenceFacts DEF r
<1>8. \A p \in DOMAIN r : \E j \in DOMAIN entries :
         /\ entries[j].tag \notin RemovedTags(ks)
         /\ r[p].tag = entries[j].tag
         /\ entries[j].ind # Garbage => r[p].ind # Garbage
         /\ entries[j].ind \in 0..127 => r[p].ind = entries[j].ind
  <2> SUFFICES ASSUME NEW p \in DOMAIN r
               PROVE  \E j \in DOMAIN entries :
                         /\ entries[j].tag \notin RemovedTags(ks)
                         /\ r[p].tag = entries[j].tag
                         /\ entries[j].ind # Garbage => r[p].ind # Garbage
                         /\ entries[j].ind \in 0..127 => r[p].ind = entries[j].ind
    OBVIOUS
  <2>1. PICK j \in J : r[p] = back[j]
    BY <1>7
  <2>2. j \in DOMAIN entries /\ entries[j].tag \notin RemovedTags(ks)
    BY <1>4, <1>5
  <2> QED BY <1>6, <2>1, <2>2
<1>9. \A j \in DOMAIN entries : entries[j].tag \notin RemovedTags(ks) =>
         \E p \in DOMAIN r : r[p].tag = entries[j].tag
  BY <1>4, <1>6, <1>7
<1>10. ASSUME \A i, j \in DOMAIN entries : entries[i].tag = entries[j].tag => i = j,
              NEW p \in DOMAIN r, NEW q \in DOMAIN r, r[p].tag = r[q].tag
       PROVE  p = q
  <2>1. PICK i \in J : r[p] = back[i]
    BY <1>7
  <2>2. PICK j \in J : r[q] = back[j]
    BY <1>7
  <2>3. i = j
    BY <1>5, <1>6, <1>10, <2>1, <2>2
  <2>4. \A a, b \in J : back[a] = back[b] => a = b
    BY <1>5, <1>6, <1>10
  <2> QED BY <1>7, <2>1, <2>2, <2>3, <2>4
<1> QED BY <1>2, <1>7, <1>8, <1>9, <1>10

\* The ciphertexts a search finds are the pending insertions.
LEMMA InsertionsFound ==
    ASSUME IInv, call.st = "keyed"
    PROVE  LET cts == Found([ins |-> insertions], call.key, call.adds, {})
               log == pending[call.w].ins
           IN  /\ cts \in Seq(Docs)
               /\ \A p \in DOMAIN cts : cts[p] \in ToSet(log)
               /\ \A x \in ToSet(log) : \E p \in DOMAIN cts : cts[p] = x
               /\ IsInjective(log) => \A p, r \in DOMAIN cts : cts[p] = cts[r] => p = r
<1> DEFINE key == call.key
           n == call.adds
           log == pending[call.w].ins
           cts == Found([ins |-> insertions], key, n, {})
<1>1. call.w \in Keywords /\ n \in 0..MaxUpdates /\ n \in Nat /\ InsMatch(key, n, log)
  BY CallFacts, JanusAssumption
<1>2. log \in Seq(Docs)
  BY <1>1, KeywordFacts
<1>3. /\ Len(log) = n
      /\ \A i \in 1..n : <<key, i - 1>> \in DOMAIN insertions /\ insertions[<<key, i - 1>>] = log[i]
  BY <1>1 DEF InsMatch
<1>4. /\ DOMAIN log = 1..n /\ \A i \in 1..n : log[i] \in Docs
      /\ \A x : x \in ToSet(log) <=> \E i \in 1..n : log[i] = x
  BY <1>2, <1>3, ToSetFacts, LenProperties
<1> HIDE DEF key, n, log
<1>5. ASSUME NEW i \in 0..(n - 1)
      PROVE  <<key, i>> \in DOMAIN insertions /\ insertions[<<key, i>>] = log[i + 1] /\ i + 1 \in 1..n
  <2>1. i + 1 \in 1..n /\ (i + 1) - 1 = i
    BY <1>1
  <2> QED BY <1>3, <2>1
<1>6. \A i \in 0..(n - 1) : <<key, i>> \in DOMAIN insertions => insertions[<<key, i>>] \in Docs
  BY <1>4, <1>5
<1> HIDE DEF cts
<1>7. /\ cts \in Seq(Docs)
      /\ \A p \in DOMAIN cts : \E i \in 0..(n - 1) :
            <<key, i>> \in DOMAIN insertions /\ cts[p] = insertions[<<key, i>>]
      /\ \A i \in 0..(n - 1) : <<key, i>> \in DOMAIN insertions =>
            \E p \in DOMAIN cts : cts[p] = insertions[<<key, i>>]
      /\ (\A i \in 0..(n - 1) : <<key, i>> \in DOMAIN insertions) => Len(cts) = n
      /\ (\A i, j \in 0..(n - 1) : insertions[<<key, i>>] = insertions[<<key, j>>] => i = j) =>
            \A p, r \in DOMAIN cts : cts[p] = cts[r] => p = r
  BY <1>1, <1>6, FoundFacts DEF cts
<1>8. ASSUME NEW p \in DOMAIN cts PROVE cts[p] \in ToSet(log)
  <2>1. PICK i \in 0..(n - 1) : cts[p] = insertions[<<key, i>>]
    BY <1>7, Zenon
  <2>2. insertions[<<key, i>>] = log[i + 1] /\ i + 1 \in 1..n
    BY <1>5
  <2> QED BY <1>4, <2>1, <2>2
<1>9. ASSUME NEW x \in ToSet(log) PROVE \E p \in DOMAIN cts : cts[p] = x
  <2>1. PICK i \in 1..n : log[i] = x
    BY <1>4
  <2>2. i - 1 \in 0..(n - 1)
    BY <1>1
  <2>3. <<key, i - 1>> \in DOMAIN insertions /\ insertions[<<key, i - 1>>] = x
    BY <1>3, <2>1
  <2>4. \E p \in DOMAIN cts : cts[p] = insertions[<<key, i - 1>>]
    BY <1>7, <2>2, <2>3, Zenon
  <2> QED BY <2>3, <2>4
<1>10. ASSUME IsInjective(log) PROVE \A p, r \in DOMAIN cts : cts[p] = cts[r] => p = r
  <2>1. \A i, j \in 1..n : log[i] = log[j] => i = j
    BY <1>4, <1>10 DEF IsInjective
  <2>2. ASSUME NEW i \in 0..(n - 1), NEW j \in 0..(n - 1),
               insertions[<<key, i>>] = insertions[<<key, j>>]
        PROVE  i = j
    <3>1. log[i + 1] = log[j + 1] /\ i + 1 \in 1..n /\ j + 1 \in 1..n
      BY <1>5, <2>2
    <3>2. i + 1 = j + 1
      BY <2>1, <3>1
    <3> QED BY <3>2
  <2> QED BY <1>7, <2>2
<1> QED BY <1>7, <1>8, <1>9, <1>10 DEF key, n, log, cts

\* The results of a search are those of the live documents.
LEMMA SearchResult ==
    ASSUME IInv, call.st = "keyed"
    PROVE  LET w   == call.w
               old == Filtered(cache[w], call.ks)
               new == Decrypted(Found([ins |-> insertions], call.key, call.adds, {}), call.dels, call.ks)
           IN  new \o old \in Seq(CacheEntries) /\ Good(new \o old, live[w], w)
<1> DEFINE w   == call.w
           ks  == call.ks
           cts == Found([ins |-> insertions], call.key, call.adds, {})
           old == Filtered(cache[w], ks)
           new == Decrypted(cts, call.dels, ks)
           res == new \o old
           ins == ToSet(pending[w].ins)
           del == ToSet(pending[w].del)
<1>1. /\ w \in Keywords /\ call.dels \in Nat /\ Len(pending[w].del) = call.dels
  BY CallFacts, JanusAssumption
<1>2. Pending(w) /\ Cached(w) /\ KeysFound
  BY <1>1 DEF IInv, History, InFlight
<1>3. /\ w \notin crowded => call.dels <= 1
      /\ usehdd \/ w \notin crowded => RemovedTags(ks) = del
      /\ w \notin crowded => KeyFits(call.dels, ks)
  BY <1>1, <1>2 DEF Pending, KeysFound
<1>4. /\ cts \in Seq(Docs)
      /\ \A p \in DOMAIN cts : cts[p] \in ins
      /\ \A x \in ins : \E p \in DOMAIN cts : cts[p] = x
      /\ IsInjective(pending[w].ins) => \A p, r \in DOMAIN cts : cts[p] = cts[r] => p = r
  BY InsertionsFound
<1>5. cache[w] \in Seq(CacheEntries) /\ live[w] \subseteq Docs /\ Docs \subseteq Nat
  BY <1>1, KeywordFacts, JanusAssumption
<1>6. durable[w] \cup ins \subseteq live[w] \cup del
  BY <1>2 DEF Pending
<1>7. w \in regular => /\ live[w] = (durable[w] \cup ins) \ del
                       /\ durable[w] \cap ins = {}
                       /\ IsInjective(pending[w].ins)
  BY <1>2 DEF Pending
<1> HIDE DEF cts, ins, del, w, ks
<1>8. /\ new \in Seq(CacheEntries)
      /\ \A p \in DOMAIN new : /\ new[p].tag \notin RemovedTags(ks)
                               /\ \E j \in DOMAIN cts : new[p].tag = cts[j]
                               /\ KeyFits(call.dels, ks) => new[p].ind = new[p].tag
      /\ \A j \in DOMAIN cts : cts[j] \notin RemovedTags(ks) => \E p \in DOMAIN new : new[p].tag = cts[j]
      /\ (\A i, j \in DOMAIN cts : cts[i] = cts[j] => i = j) =>
            \A p, q \in DOMAIN new : new[p].tag = new[q].tag => p = q
  BY <1>4, DecryptedFacts
<1> DEFINE entries == cache[w]
<1>9. /\ old \in Seq(CacheEntries)
      /\ \A p \in DOMAIN old : \E j \in DOMAIN entries :
            /\ entries[j].tag \notin RemovedTags(ks)
            /\ old[p].tag = entries[j].tag
            /\ entries[j].ind # Garbage => old[p].ind # Garbage
            /\ entries[j].ind \in 0..127 => old[p].ind = entries[j].ind
      /\ \A j \in DOMAIN entries : entries[j].tag \notin RemovedTags(ks) =>
            \E p \in DOMAIN old : old[p].tag = entries[j].tag
      /\ (\A i, j \in DOMAIN entries : entries[i].tag = entries[j].tag => i = j) =>
            \A p, q \in DOMAIN old : old[p].tag = old[q].tag => p = q
  <2> HIDE DEF entries
  <2> QED BY <1>5, FilteredFacts DEF entries
<1>10. /\ usehdd \/ w \notin crowded => \A i \in DOMAIN entries : entries[i].tag \in durable[w]
       /\ w \notin crowded => \A i \in DOMAIN entries : entries[i].ind # Garbage
       /\ w \in regular \ crowded =>
             /\ \A i, j \in DOMAIN entries : entries[i].tag = entries[j].tag => i = j
             /\ \A d \in durable[w] : \E i \in DOMAIN entries : entries[i].tag = d
             /\ \A i \in DOMAIN entries : entries[i].tag < 128 => entries[i].ind = entries[i].tag
  BY <1>2 DEF Cached, Good
<1>11. \A i \in DOMAIN entries : entries[i] \in CacheEntries
  BY <1>5, LenProperties
<1> HIDE DEF new, old, entries
<1>12. /\ res \in Seq(CacheEntries)
       /\ \A i \in DOMAIN res : \/ \E p \in DOMAIN new : res[i] = new[p] /\ i = p
                                \/ \E p \in DOMAIN old : res[i] = old[p] /\ i = Len(new) + p
       /\ \A p \in DOMAIN new : p \in DOMAIN res /\ res[p] = new[p]
       /\ \A p \in DOMAIN old : Len(new) + p \in DOMAIN res /\ res[Len(new) + p] = old[p]
  <2>1. /\ Len(new) \in Nat /\ DOMAIN new = 1..Len(new)
        /\ Len(old) \in Nat /\ DOMAIN old = 1..Len(old)
    BY <1>8, <1>9, LenProperties
  <2>2. /\ res \in Seq(CacheEntries) /\ Len(res) = Len(new) + Len(old)
        /\ \A i \in 1..(Len(new) + Len(old)) :
              res[i] = IF i <= Len(new) THEN new[i] ELSE old[i - Len(new)]
    BY <1>8, <1>9, <2>1
  <2>3. DOMAIN res = 1..(Len(new) + Len(old))
    BY <2>2, LenProperties
  <2> HIDE DEF res
  <2>4. ASSUME NEW i \in DOMAIN res
        PROVE  \/ \E p \in DOMAIN new : res[i] = new[p] /\ i = p
               \/ \E p \in DOMAIN old : res[i] = old[p] /\ i = Len(new) + p
    <3>1. CASE i <= Len(new)
      BY <2>1, <2>2, <2>3, <3>1
    <3>2. CASE i > Len(new)
      <4>1. i - Len(new) \in DOMAIN old /\ i = Len(new) + (i - Len(new)) /\ res[i] = old[i - Len(new)]
        BY <2>1, <2>2, <2>3, <3>2
      <4> QED BY <4>1
    <3> QED BY <2>1, <2>3, <3>1, <3>2
  <2>5. ASSUME NEW p \in DOMAIN new PROVE p \in DOMAIN res /\ res[p] = new[p]
    BY <2>1, <2>2, <2>3
  <2>6. ASSUME NEW p \in DOMAIN old PROVE Len(new) + p \in DOMAIN res /\ res[Len(new) + p] = old[p]
    <3>1. /\ Len(new) + p \in 1..(Len(new) + Len(old)) /\ ~(Len(new) + p <= Len(new))
          /\ (Len(new) + p) - Len(new) = p
      BY <2>1
    <3> QED BY <2>2, <2>3, <3>1
  <2> QED BY <2>2, <2>4, <2>5, <2>6
<1> HIDE DEF res
<1>13. ASSUME usehdd \/ w \notin crowded
       PROVE  /\ \A p \in DOMAIN new : new[p].tag \in ins \ del
              /\ \A p \in DOMAIN old : old[p].tag \in durable[w] \ del
  <2>1. RemovedTags(ks) = del
    BY <1>3, <1>13
  <2>2. \A p \in DOMAIN new : new[p].tag \in ins \ del
    BY <1>4, <1>8, <2>1
  <2>3. ASSUME NEW p \in DOMAIN old PROVE old[p].tag \in durable[w] \ del
    <3>1. PICK j \in DOMAIN entries : entries[j].tag \notin del /\ old[p].tag = entries[j].tag
      BY <1>9, <2>1
    <3>2. entries[j].tag \in durable[w]
      BY <1>10, <1>13
    <3> QED BY <3>1, <3>2
  <2> QED BY <2>2, <2>3
<1>14. ASSUME usehdd \/ w \notin crowded, NEW i \in DOMAIN res PROVE res[i].tag \in live[w]
  BY <1>6, <1>12, <1>13, <1>14
<1>15. ASSUME w \notin crowded, NEW i \in DOMAIN res PROVE res[i].ind # Garbage
  <2>1. ASSUME NEW p \in DOMAIN new PROVE new[p].ind # Garbage
    <3>1. new[p].ind = new[p].tag /\ \E j \in DOMAIN cts : new[p].tag = cts[j]
      BY <1>3, <1>8, <1>15
    <3>2. \A j \in DOMAIN cts : cts[j] \in Docs
      BY <1>4, LenProperties
    <3>3. new[p].ind \in Nat
      BY <1>5, <3>1, <3>2
    <3> QED BY <3>3 DEF Garbage
  <2>2. \A p \in DOMAIN old : old[p].ind # Garbage
    BY <1>9, <1>10, <1>15
  <2> QED BY <1>12, <2>1, <2>2
<1>16. ASSUME w \in regular \ crowded
       PROVE  /\ \A i, j \in DOMAIN res : res[i].tag = res[j].tag => i = j
              /\ \A d \in live[w] : \E i \in DOMAIN res : res[i].tag = d
              /\ \A i \in DOMAIN res : res[i].tag < 128 => res[i].ind = res[i].tag
  <2>1. /\ live[w] = (durable[w] \cup ins) \ del /\ durable[w] \cap ins = {}
        /\ RemovedTags(ks) = del /\ KeyFits(call.dels, ks)
    BY <1>3, <1>7, <1>16
  <2>2. /\ \A p, q \in DOMAIN new : new[p].tag = new[q].tag => p = q
        /\ \A p, q \in DOMAIN old : old[p].tag = old[q].tag => p = q
    BY <1>4, <1>7, <1>8, <1>9, <1>10, <1>16
  <2>3. \A p \in DOMAIN new, q \in DOMAIN old : new[p].tag # old[q].tag
    BY <1>13, <1>16, <2>1
  <2>4. ASSUME NEW i \in DOMAIN res, NEW j \in DOMAIN res, res[i].tag = res[j].tag PROVE i = j
    BY <1>12, <2>2, <2>3, <2>4
  <2>5. ASSUME NEW d \in live[w] PROVE \E i \in DOMAIN res : res[i].tag = d
    <3>1. CASE d \in ins
      <4>1. PICK j \in DOMAIN cts : cts[j] = d
        BY <1>4, <3>1
      <4>2. PICK p \in DOMAIN new : new[p].tag = d
        BY <1>8, <2>1, <4>1
      <4> QED BY <1>12, <4>2
    <3>2. CASE d \in durable[w]
      <4>1. PICK j \in DOMAIN entries : entries[j].tag = d
        BY <1>10, <1>16, <3>2
      <4>2. PICK p \in DOMAIN old : old[p].tag = d
        BY <1>9, <2>1, <4>1
      <4> QED BY <1>12, <4>2
    <3> QED BY <2>1, <3>1, <3>2
  <2>6. \A p \in DOMAIN new : new[p].ind = new[p].tag
    BY <1>8, <2>1
  <2>7. ASSUME NEW p \in DOMAIN old, old[p].tag < 128 PROVE old[p].ind = old[p].tag
    <3>1. PICK j \in DOMAIN entries : /\ old[p].tag = entries[j].tag
                                      /\ entries[j].ind \in 0..127 => old[p].ind = entries[j].ind
      BY <1>9
    <3>2. entries[j].ind = entries[j].tag
      BY <1>10, <1>16, <2>7, <3>1
    <3>3. entries[j].tag \in Docs
      BY <1>11 DEF CacheEntries
    <3>4. entries[j].tag \in Nat
      BY <1>5, <3>3
    <3>5. entries[j].tag \in 0..127
      BY <2>7, <3>1, <3>4
    <3> QED BY <3>1, <3>2, <3>5
  <2>8. ASSUME NEW i \in DOMAIN res, res[i].tag < 128 PROVE res[i].ind = res[i].tag
    BY <1>12, <2>6, <2>7, <2>8
  <2> QED BY <2>4, <2>5, <2>8
<1>17. Good(res, live[w], w)
  BY <1>14, <1>15, <1>16 DEF Good
<1> QED BY <1>12, <1>17 DEF res, new, old, cts, w, ks

\* searchKeyword preserves the invariant.
LEMMA SearchIInv ==
    ASSUME IInv, searchKeyword
    PROVE  IInv'
<1> DEFINE w   == call.w
           old == Filtered(cache[w], call.ks)
           new == Decrypted(Found([ins |-> insertions], call.key, call.adds, {}), call.dels, call.ks)
           res == new \o old
<1>1. /\ call.st = "keyed"
      /\ cache' = [cache EXCEPT ![w] = res]
      /\ answer' = [res |-> res, expected |-> live[w],
                    trusted |-> w \in regular \ crowded, crowded |-> w \in crowded]
      /\ call' = Idle
      /\ durable' = [durable EXCEPT ![w] = live[w]]
      /\ pending' = [pending EXCEPT ![w] = NoUpdates]
      /\ UNCHANGED <<usehdd, search_counter, added, deleted, insertions, shares, live, regular, crowded>>
      /\ updates' = updates
  BY DEF searchKeyword, NewCache, bounds
<1>2. res \in Seq(CacheEntries) /\ Good(res, live[w], w)
  BY <1>1, SearchResult
<1> HIDE DEF res
<1>3. /\ w \in Keywords /\ Searched(w) /\ \A v : v # w => ~Searched(v)
  BY <1>1, CallFacts
<1>4. live[w] \in SUBSET Docs
  BY <1>3, KeywordFacts
<1> HIDE DEF w
<1>5. /\ cache'[w] = res /\ durable'[w] = live[w] /\ pending'[w] = NoUpdates
      /\ \A v \in Keywords : v # w => /\ cache'[v] = cache[v] /\ durable'[v] = durable[v]
                                      /\ pending'[v] = pending[v]
      /\ cache' \in [Keywords -> Seq(CacheEntries)]
      /\ durable' \in [Keywords -> SUBSET Docs]
      /\ pending' \in [Keywords -> [ins : Seq(Docs), del : Seq(Docs)]]
  BY <1>1, <1>2, <1>3, <1>4 DEF IInv, Types, NoUpdates
<1>6. NoUpdates.ins = << >> /\ NoUpdates.del = << >> /\ Len(<< >>) = 0 /\ ToSet(<< >>) = {}
      /\ IsInjective(<< >>)
  BY DEF NoUpdates, ToSet, IsInjective
<1>7. Types'
  BY <1>1, <1>5 DEF IInv, Types, CacheEntries
<1>8. InFlight'
  BY <1>1 DEF InFlight, Idle
<1>9. \A v \in Keywords : meta_keyword(v)' = meta_keyword(v)
  BY <1>1 DEF meta_keyword
<1>10. ASSUME NEW v \in Keywords PROVE Matched(v)'
  <2>1. Matched(v)
    BY DEF IInv, Storage
  <2>2. ~Searched(v)'
    BY <1>1 DEF Searched, Idle
  <2>3. CASE v = w
    <3>1. Count(added, meta_keyword(v))' = 0 /\ Count(deleted, meta_keyword(v))' = 0
      BY <1>1, <1>3, <1>9, <2>1, <2>3 DEF Matched
    <3>2. InsMatch(meta_keyword(v), Count(added, meta_keyword(v)), pending[v].ins)'
      BY <1>5, <1>6, <2>3, <3>1 DEF InsMatch
    <3>3. DelMatch(meta_keyword(v), Count(deleted, meta_keyword(v)), pending[v].del)'
      BY <1>5, <1>6, <2>3, <3>1 DEF DelMatch
    <3> QED BY <2>2, <3>2, <3>3 DEF Matched
  <2>4. CASE v # w
    <3>1. /\ InsMatch(meta_keyword(v), Count(added, meta_keyword(v)), pending[v].ins)
          /\ DelMatch(meta_keyword(v), Count(deleted, meta_keyword(v)), pending[v].del)
      BY <1>3, <2>1, <2>4 DEF Matched
    <3>2. InsMatch(meta_keyword(v), Count(added, meta_keyword(v)), pending[v].ins)'
      BY <1>1, <1>5, <1>9, <2>4, <3>1 DEF InsMatch
    <3>3. DelMatch(meta_keyword(v), Count(deleted, meta_keyword(v)), pending[v].del)'
      BY <1>1, <1>5, <1>9, <2>4, <3>1 DEF DelMatch
    <3> QED BY <2>2, <3>2, <3>3 DEF Matched
  <2> QED BY <2>3, <2>4
<1>11. Storage'
  <2>1. RamCurrent(added)' /\ RamCurrent(deleted)'
    BY <1>1, <1>9 DEF IInv, Storage, RamCurrent
  <2>2. WithinKeys(insertions, added)' /\ WithinKeys(shares, deleted)'
    BY <1>1 DEF IInv, Storage, WithinKeys, Entries
  <2> QED BY <1>10, <2>1, <2>2 DEF Storage
<1>12. updates \in Nat
  BY JanusAssumption DEF IInv, Types
<1>13. ASSUME NEW v \in Keywords PROVE Pending(v)' /\ Cached(v)'
  <2>1. Pending(v) /\ Cached(v)
    BY DEF IInv, History
  <2>2. CASE v = w
    <3>1. Cached(v)'
      BY <1>1, <1>2, <1>5, <2>2 DEF Cached, Good
    <3>2. Pending(v)'
      BY <1>1, <1>5, <1>6, <1>12, <2>2 DEF Pending
    <3> QED BY <3>1, <3>2
  <2>3. CASE v # w
    <3>1. Cached(v)'
      BY <1>1, <1>5, <2>1, <2>3 DEF Cached, Good
    <3>2. Pending(v)'
      BY <1>1, <1>5, <2>1, <2>3 DEF Pending
    <3> QED BY <3>1, <3>2
  <2> QED BY <2>2, <2>3
<1>14. /\ answer'.res = res /\ answer'.expected = live[w]
       /\ answer'.trusted = (w \in regular \ crowded) /\ answer'.crowded = (w \in crowded)
  BY <1>1
<1>15. DeletedStaysDeleted'
  BY <1>1, <1>2, <1>14 DEF DeletedStaysDeleted, Good
<1>16. AnswerExact'
  <2> DEFINE tags == [i \in DOMAIN res |-> res[i].tag]
  <2> SUFFICES ASSUME w \in regular \ crowded
               PROVE  /\ IsInjective(tags) /\ ToSet(tags) = live[w]
                      /\ \A i \in DOMAIN tags : tags[i] < 128 => res[i].ind = tags[i]
    BY <1>14 DEF AnswerExact
  <2>1. /\ \A i \in DOMAIN res : res[i].tag \in live[w]
        /\ \A i, j \in DOMAIN res : res[i].tag = res[j].tag => i = j
        /\ \A d \in live[w] : \E i \in DOMAIN res : res[i].tag = d
        /\ \A i \in DOMAIN res : res[i].tag < 128 => res[i].ind = res[i].tag
    BY <1>2 DEF Good
  <2>2. ToSet(tags) = live[w]
    BY <2>1 DEF ToSet
  <2>3. IsInjective(tags)
    BY <2>1 DEF IsInjective
  <2> QED BY <2>1, <2>2, <2>3
<1> QED BY <1>7, <1>8, <1>11, <1>13, <1>15, <1>16 DEF IInv, History

\* A restart preserves the invariant: with the counters gone nothing that a table
\* still holds is within reach.
LEMMA RestartIInv ==
    ASSUME IInv, restart
    PROVE  IInv'
<1>1. /\ added' = Empty /\ deleted' = Empty
      /\ insertions' = (IF usehdd THEN insertions ELSE Empty)
      /\ shares' = (IF usehdd THEN shares ELSE Empty)
      /\ call' = Idle /\ live' = durable
      /\ pending' = [w \in Keywords |-> NoUpdates]
      /\ UNCHANGED <<usehdd, search_counter, cache, answer, durable, regular, crowded, updates>>
  BY DEF restart, persistent
<1>2. DOMAIN Empty = {}
  BY DEF Empty
<1>3. \A k : Count(Empty, k) = 0
  BY <1>2 DEF Count
<1>4. NoUpdates.ins = << >> /\ NoUpdates.del = << >> /\ Len(<< >>) = 0 /\ ToSet(<< >>) = {}
      /\ IsInjective(<< >>) /\ NoUpdates \in [ins : Seq(Docs), del : Seq(Docs)]
  BY DEF NoUpdates, ToSet, IsInjective
<1>5. Types'
  BY <1>1, <1>4 DEF IInv, Types, CacheEntries
<1>6. InFlight'
  BY <1>1 DEF InFlight, Idle
<1>7. ASSUME NEW v \in Keywords PROVE Matched(v)'
  <2>1. ~Searched(v)'
    BY <1>1 DEF Searched, Idle
  <2>2. Count(added, meta_keyword(v))' = 0 /\ Count(deleted, meta_keyword(v))' = 0
    BY <1>1, <1>3
  <2>3. InsMatch(meta_keyword(v), Count(added, meta_keyword(v)), pending[v].ins)'
    BY <1>1, <1>4, <2>2 DEF InsMatch
  <2>4. DelMatch(meta_keyword(v), Count(deleted, meta_keyword(v)), pending[v].del)'
    BY <1>1, <1>4, <2>2 DEF DelMatch
  <2> QED BY <2>1, <2>3, <2>4 DEF Matched
<1>8. Storage'
  <2>1. RamCurrent(added)' /\ RamCurrent(deleted)'
    BY <1>1, <1>2 DEF RamCurrent
  <2>2. WithinKeys(insertions, added)' /\ WithinKeys(shares, deleted)'
    <3>1. CASE usehdd
      BY <1>1, <3>1 DEF IInv, Storage, WithinKeys, Entries
    <3>2. CASE ~usehdd
      BY <1>1, <1>2, <3>2 DEF WithinKeys
    <3> QED BY <3>1, <3>2
  <2> QED BY <1>7, <2>1, <2>2 DEF Storage
<1>9. updates \in Nat
  BY JanusAssumption DEF IInv, Types
<1>10. ASSUME NEW v \in Keywords PROVE Pending(v)' /\ Cached(v)'
  <2>1. Cached(v)
    BY DEF IInv, History
  <2>2. Cached(v)'
    BY <1>1, <2>1 DEF Cached, Good
  <2>3. Pending(v)'
    BY <1>1, <1>4, <1>9 DEF Pending
  <2> QED BY <2>2, <2>3
<1> QED BY <1>1, <1>5, <1>6, <1>8, <1>10, AnswerKept DEF IInv, History

-----------------------------------------------------------------------------
\* The invariant holds initially.
LEMMA InitIInv == Init => IInv
<1> SUFFICES ASSUME Init PROVE IInv
  OBVIOUS
<1>1. DOMAIN Empty = {} /\ \A k : Count(Empty, k) = 0
  BY DEF Empty, Count
<1>2. NoUpdates.ins = << >> /\ NoUpdates.del = << >> /\ Len(<< >>) = 0 /\ ToSet(<< >>) = {}
      /\ IsInjective(<< >>) /\ NoUpdates \in [ins : Seq(Docs), del : Seq(Docs)] /\ DOMAIN << >> = {}
  BY DEF NoUpdates, ToSet, IsInjective
<1>3. Types
  BY <1>2, JanusAssumption DEF Init, Types
<1>4. InFlight /\ \A w : ~Searched(w)
  BY DEF Init, InFlight, Searched, Idle
<1>5. \A w \in Keywords : Matched(w)
  BY <1>1, <1>2, <1>4 DEF Init, Matched, InsMatch, DelMatch
<1>6. Storage
  BY <1>1, <1>5 DEF Init, Storage, RamCurrent, WithinKeys
<1>7. History
  BY <1>2 DEF Init, History, Pending, Cached, Good
<1>8. AnswerExact /\ DeletedStaysDeleted
  BY <1>2 DEF Init, AnswerExact, DeletedStaysDeleted, NoAnswer
<1> QED BY <1>3, <1>4, <1>6, <1>7, <1>8 DEF IInv

\* Every step preserves the invariant.
LEMMA NextIInv == IInv /\ [Next]_vars => IInv'
<1> SUFFICES ASSUME IInv, [Next]_vars PROVE IInv'
  OBVIOUS
<1>1. CASE Next
  <2>1. ASSUME NEW w \in Keywords, NEW d \in Docs, insertKeyword(w, d) PROVE IInv'
    BY <2>1, InsertIInv
  <2>2. ASSUME NEW w \in Keywords, NEW d \in Docs, deleteKeyword(w, d) PROVE IInv'
    BY <2>2, DeleteIInv
  <2>3. ASSUME NEW w \in Keywords, search_request(w) PROVE IInv'
    BY <2>3, RequestIInv
  <2> QED BY <1>1, <2>1, <2>2, <2>3, CollectIInv, SearchIInv, RestartIInv DEF Next
<1>2. CASE UNCHANGED vars
  <2>1. UNCHANGED <<usehdd, search_counter, cache, added, deleted, insertions, shares, call, answer,
                    live, durable, pending, regular, crowded, updates>>
    BY <1>2 DEF vars, persistent, history, bounds
  <2>2. Types' /\ InFlight'
    BY <2>1 DEF IInv, Types, Calls, Shares, CacheEntries, InFlight, InsMatch, DelMatch, KeysFound
  <2>3. Storage'
    BY <2>1 DEF IInv, Storage, RamCurrent, WithinKeys, Entries, Matched, Searched, InsMatch, DelMatch,
                meta_keyword
  <2>4. History'
    BY <2>1 DEF IInv, History, Pending, Cached, Good
  <2> QED BY <2>1, <2>2, <2>3, <2>4, AnswerKept DEF IInv
<1> QED BY <1>1, <1>2

\* The invariant holds in every reachable state.
LEMMA Invariance == Spec => []IInv
BY InitIInv, NextIInv, PTL DEF Spec

\* Between calls the entries below the counters are exactly the pending updates.
LEMMA IInvMatches == IInv => TablesMatchPending
<1> SUFFICES ASSUME IInv, call = Idle, NEW w \in Keywords
             PROVE  LET key == meta_keyword(w)
                        reach(table, ram) == [i \in 1..Count(ram, key) |-> table[<<key, i - 1>>]]
                    IN  /\ reach(insertions, added) = pending[w].ins
                        /\ LET ks == reach(shares, deleted)
                           IN  [i \in DOMAIN ks |-> ks[i].doc] = pending[w].del
                        /\ \A t \in DOMAIN insertions \cup DOMAIN shares :
                              t[1].word = w => t[1].no <= search_counter[w]
  BY DEF TablesMatchPending
<1> DEFINE key == meta_keyword(w)
           n == Count(added, key)
           m == Count(deleted, key)
           ins == pending[w].ins
           del == pending[w].del
           ks == [i \in 1..m |-> shares[<<key, i - 1>>]]
<1>1. ~Searched(w)
  BY DEF Searched, Idle
<1>2. InsMatch(key, n, ins) /\ DelMatch(key, m, del)
  BY <1>1 DEF IInv, Storage, Matched
<1>3. n \in Nat /\ m \in Nat /\ ins \in Seq(Docs) /\ del \in Seq(Docs)
  BY KeywordFacts
<1>4. \A t \in DOMAIN insertions \cup DOMAIN shares : t[1].word = w => t[1].no <= search_counter[w]
  BY DEF IInv, Storage, WithinKeys
<1> HIDE DEF key, n, m, ins, del
<1>5. /\ ins = [i \in 1..n |-> ins[i]] /\ \A i \in 1..n : insertions[<<key, i - 1>>] = ins[i]
      /\ del = [i \in 1..m |-> del[i]] /\ \A i \in 1..m : shares[<<key, i - 1>>].doc = del[i]
  <2>1. Len(ins) = n /\ Len(del) = m
    BY <1>2 DEF InsMatch, DelMatch
  <2>2. /\ ins = [i \in 1..n |-> ins[i]] /\ del = [i \in 1..m |-> del[i]]
    BY <1>3, <2>1, LenProperties
  <2> QED BY <1>2, <2>2 DEF InsMatch, DelMatch
<1>6. [i \in 1..n |-> insertions[<<key, i - 1>>]] = ins
  <2>1. [i \in 1..n |-> insertions[<<key, i - 1>>]] = [i \in 1..n |-> ins[i]]
    BY <1>5
  <2> QED BY <1>5, <2>1
<1>7. [i \in DOMAIN ks |-> ks[i].doc] = del
  <2>1. [i \in DOMAIN ks |-> ks[i].doc] = [i \in 1..m |-> del[i]]
    BY <1>5
  <2> QED BY <1>5, <2>1
<1> QED BY <1>4, <1>6, <1>7 DEF key, n, m, ins, del

\* What a search will read is what was written since the last one: the counters in
\* memory reach exactly the pending updates of a keyword, in order, whatever a crash
\* left in the tables of RocksDB.
THEOREM TablesMatch == Spec => []TablesMatchPending
BY Invariance, IInvMatches, PTL

\* A trusted search answers with every live document once and no other, and with the
\* identifier of those below 128.
THEOREM Exact == Spec => []AnswerExact
<1>1. IInv => AnswerExact
  BY DEF IInv
<1> QED BY <1>1, Invariance, PTL

\* A deleted document does not come back, but for key shares lost to the race, and a
\* key of one share fits.
THEOREM StaysDeleted == Spec => []DeletedStaysDeleted
<1>1. IInv => DeletedStaysDeleted
  BY DEF IInv
<1> QED BY <1>1, Invariance, PTL
=============================================================================
