---------------------------- MODULE DianaProofs -----------------------------
(***************************************************************************)
(* Diana, for every set of keywords and documents, in one process or over  *)
(* gRPC, with either table, cleaning or not, with every order in which the *)
(* token tree lists its leaves, and any number of updates, searches, lost  *)
(* calls and restarts within the bounds.                                   *)
(***************************************************************************)
EXTENDS Diana, FiniteSetTheorems, SequenceTheorems, TLAPS

-----------------------------------------------------------------------------
\* The parts of the assumption about the constants that the proofs use.
LEMMA UpdatesBound == MaxUpdates \in Nat
<1>1. {MaxUpdates, MaxSearches, MaxLosses, MaxRestarts} \subseteq Nat
  BY DianaAssumption, Zenon
<1> QED BY <1>1

\* The empty string names no keyword.
LEMMA NoName == "" \notin Keywords
BY DianaAssumption, Zenon

\* The constructor's arguments are Booleans.
LEMMA SettingTypes == Settings \subseteq [remote : BOOLEAN, usehdd : BOOLEAN, clean : BOOLEAN]
BY DianaAssumption, Zenon

-----------------------------------------------------------------------------
\* Lemmas about the operators of DianaScheme.  The first two are those of
\* JanusProofs, with the rank of a member added.

\* The members of a finite set of numbers are its first, second, ... one, each
\* once: Nth runs through the set.
LEMMA NthBijection ==
    ASSUME NEW J, IsFiniteSet(J), J \subseteq Int
    PROVE  /\ Cardinality(J) \in Nat
           /\ \A p \in 1..Cardinality(J) : Nth(J, p) \in J
           /\ \A j \in J : \E p \in 1..Cardinality(J) : Nth(J, p) = j
           /\ \A p, q \in 1..Cardinality(J) : Nth(J, p) = Nth(J, q) => p = q
           /\ \A p \in 1..Cardinality(J) : Cardinality({i \in J : i <= Nth(J, p)}) = p
<1> DEFINE k == Cardinality(J)
           Low(j) == {i \in J : i <= j}
           rank(j) == Cardinality(Low(j))
<1>1. k \in Nat
  BY FS_CardinalityType
<1>2. ASSUME NEW j \in J PROVE rank(j) \in 1..k
  <2>1. Low(j) \in SUBSET J /\ j \in Low(j)
    OBVIOUS
  <2>2. IsFiniteSet(Low(j)) /\ Cardinality(Low(j)) <= k
    BY <2>1, FS_Subset
  <2>3. Cardinality(Low(j)) \in Nat /\ Cardinality(Low(j)) # 0
    BY <2>1, <2>2, FS_CardinalityType, FS_EmptySet
  <2> HIDE DEF k, Low
  <2> QED BY <1>1, <2>2, <2>3
<1>3. ASSUME NEW i \in J, NEW j \in J, i < j PROVE rank(i) # rank(j)
  <2>1. Low(i) \in SUBSET Low(j) /\ Low(i) # Low(j) /\ Low(j) \in SUBSET J
    <3>1. \A x \in J : x <= i => x <= j
      BY <1>3
    <3>2. j \in Low(j) /\ j \notin Low(i)
      BY <1>3
    <3> QED BY <3>1, <3>2
  <2>2. IsFiniteSet(Low(j))
    BY <2>1, FS_Subset
  <2> HIDE DEF Low
  <2> QED BY <2>1, <2>2, FS_Subset
<1>4. \A i, j \in J : rank(i) = rank(j) => i = j
  BY <1>3
<1> DEFINE f == [j \in J |-> rank(j)]
<1> HIDE DEF rank, k
<1>5. f \in Injection(J, 1..k)
  BY <1>2, <1>4 DEF Injection, IsInjective
<1>6. IsFiniteSet(1..k) /\ Cardinality(1..k) = k
  BY <1>1, FS_Interval
<1>7. f \in Surjection(J, 1..k)
  <2> HIDE DEF f
  <2> QED BY <1>5, <1>6, FS_Injection DEF k
<1>8. ASSUME NEW p \in 1..k PROVE \E j \in J : rank(j) = p
  BY <1>7 DEF Surjection
<1>9. \A p : Nth(J, p) = CHOOSE j \in J : rank(j) = p
  BY DEF Nth, rank
<1>10. \A p \in 1..k : Nth(J, p) \in J /\ rank(Nth(J, p)) = p
  BY <1>8, <1>9
<1>11. \A j \in J : Nth(J, rank(j)) = j
  BY <1>4, <1>9
<1>12. \A p \in 1..k : Cardinality({i \in J : i <= Nth(J, p)}) = p
  BY <1>10 DEF rank
<1> QED BY <1>1, <1>2, <1>10, <1>11, <1>12 DEF k

\* The subsequence of s at the positions J holds what s holds there, each once.
LEMMA SubsequenceFacts ==
    ASSUME NEW n \in Nat, NEW J \in SUBSET (1..n), NEW S, NEW s, \A j \in J : s[j] \in S
    PROVE  LET q == Subsequence(s, J)
           IN  /\ q \in Seq(S) /\ Cardinality(J) \in Nat
               /\ DOMAIN q = 1..Cardinality(J) /\ Len(q) = Cardinality(J)
               /\ \A p \in DOMAIN q : \E j \in J : q[p] = s[j]
               /\ \A j \in J : \E p \in DOMAIN q : q[p] = s[j]
               /\ (\A i, j \in J : s[i] = s[j] => i = j) =>
                     \A p, r \in DOMAIN q : q[p] = q[r] => p = r
<1> DEFINE q == Subsequence(s, J)
           k == Cardinality(J)
<1>1. IsFiniteSet(J) /\ J \subseteq Int
  <2>1. IsFiniteSet(1..n)
    BY FS_Interval
  <2>2. IsFiniteSet(J)
    BY <2>1, FS_Subset
  <2>3. J \subseteq Int
    OBVIOUS
  <2> QED BY <2>2, <2>3
<1>2. /\ k \in Nat
      /\ \A p \in 1..k : Nth(J, p) \in J
      /\ \A j \in J : \E p \in 1..k : Nth(J, p) = j
      /\ \A p, r \in 1..k : Nth(J, p) = Nth(J, r) => p = r
  BY <1>1, NthBijection
<1>3. q = [p \in 1..k |-> s[Nth(J, p)]]
  BY DEF Subsequence
<1> HIDE DEF q, k
<1>4. DOMAIN q = 1..k /\ \A p \in 1..k : q[p] = s[Nth(J, p)]
  BY <1>3
<1>5. q \in Seq(S) /\ Len(q) = k
  <2>1. q \in [1..k -> S]
    BY <1>2, <1>3
  <2>2. q \in Seq(S)
    BY <1>2, <2>1, SeqDef
  <2> QED BY <1>2, <1>4, <2>2, LenProperties
<1>6. \A p \in 1..k : \E j \in J : q[p] = s[j]
  BY <1>2, <1>4
<1>7. \A j \in J : \E p \in 1..k : q[p] = s[j]
  BY <1>2, <1>4
<1>8. (\A i, j \in J : s[i] = s[j] => i = j) => \A p, r \in 1..k : q[p] = q[r] => p = r
  BY <1>2, <1>4
<1> QED BY <1>2, <1>4, <1>5, <1>6, <1>7, <1>8 DEF q, k

\* A set of positions that is not empty has a last one.
LEMMA MaxFacts ==
    ASSUME NEW m \in Nat, NEW J \in SUBSET (1..m), J # {}
    PROVE  Max(J) \in J /\ \A j \in J : j <= Max(J)
<1> DEFINE k == Cardinality(J)
           x == Nth(J, k)
           Low == {i \in J : i <= x}
<1>1. IsFiniteSet(J) /\ J \subseteq Int
  <2>1. IsFiniteSet(1..m)
    BY FS_Interval
  <2>2. IsFiniteSet(J)
    BY <2>1, FS_Subset
  <2>3. J \subseteq Int
    OBVIOUS
  <2> QED BY <2>2, <2>3
<1>2. k \in 1..k
  <2>1. k \in Nat /\ k # 0
    BY <1>1, FS_CardinalityType, FS_EmptySet
  <2> HIDE DEF k
  <2> QED BY <2>1
<1>3. x \in J /\ Cardinality(Low) = k
  BY <1>1, <1>2, NthBijection
<1>4. Low = J
  <2>1. Low \in SUBSET J
    OBVIOUS
  <2> HIDE DEF Low
  <2> QED BY <1>1, <1>3, <2>1, FS_Subset
<1>5. \A y \in J : x >= y
  <2> HIDE DEF x
  <2>1. x \in Int /\ J \subseteq Int
    BY <1>1, <1>3
  <2> QED BY <1>4, <2>1
<1> HIDE DEF x
<1>6. Max(J) \in J /\ \A y \in J : Max(J) >= y
  BY <1>3, <1>5 DEF Max
<1> QED BY <1>1, <1>6

\* The server derives every leaf below n that is not in D, each once.
LEMMA LeafFacts ==
    ASSUME NEW n \in 0..MaxUpdates, NEW D \in SUBSET (0..(n - 1))
    PROVE  LET leaves == LeafOrder(n, D)
           IN  \E m \in 0..n :
                 /\ DOMAIN leaves = 1..m
                 /\ \A j \in 1..m : leaves[j] \in (0..(n - 1)) \ D
                 /\ \A i \in (0..(n - 1)) \ D : \E j \in 1..m : leaves[j] = i
                 /\ \A i, j \in 1..m : leaves[i] = leaves[j] => i = j
<1> DEFINE leaves == LeafOrder(n, D)
           W == (0..(n - 1)) \ D
           m == n - Cardinality(D)
           f == [j \in 1..m |-> leaves[j]]
<1>1. DOMAIN leaves = 1..m /\ ToSet(leaves) = W /\ n \in Nat
  BY LeafOrderAssumption, UpdatesBound
<1>2. m \in 0..n /\ Cardinality(W) = m
  <2>1. IsFiniteSet(0..(n - 1)) /\ Cardinality(0..(n - 1)) = n
    BY <1>1, FS_Interval
  <2>2. Cardinality(D) \in Nat /\ Cardinality(D) <= n
    BY <2>1, FS_Subset, FS_CardinalityType
  <2>3. (0..(n - 1)) \cap D = D
    OBVIOUS
  <2>4. Cardinality(W) = Cardinality(0..(n - 1)) - Cardinality((0..(n - 1)) \cap D)
    BY <2>1, FS_Difference, Zenon
  <2>5. Cardinality(W) = n - Cardinality(D)
    BY <2>1, <2>3, <2>4, Zenon
  <2> QED BY <1>1, <2>2, <2>5
<1>3. ToSet(leaves) = {leaves[j] : j \in 1..m}
  BY <1>1 DEF ToSet
<1> HIDE DEF leaves, W, m
<1>4. /\ \A j \in 1..m : leaves[j] \in W
      /\ \A i \in W : \E j \in 1..m : leaves[j] = i
  BY <1>1, <1>3
<1>5. f \in Surjection(1..m, W)
  BY <1>4 DEF Surjection
<1>6. IsFiniteSet(1..m) /\ Cardinality(1..m) = m
  <2>1. m \in Nat
    BY <1>2
  <2> QED BY <2>1, FS_Interval
<1>7. f \in Injection(1..m, W)
  <2> HIDE DEF f
  <2> QED BY <1>2, <1>5, <1>6, FS_Surjection
<1>8. \A i, j \in 1..m : leaves[i] = leaves[j] => i = j
  BY <1>7 DEF Injection, IsInjective
<1> QED BY <1>1, <1>2, <1>4, <1>8 DEF leaves, W

\* What a search of n entries under a key without those of D finds: every entry
\* that is there, and each leaf gives at most one result.
Hits(s, key, n, D) == {i \in (0..(n - 1)) \ D : <<key, i>> \in DOMAIN s.ins}
\* Found returns the documents of these hits.
LEMMA FoundFacts ==
    ASSUME NEW n \in 0..MaxUpdates, NEW D \in SUBSET (0..(n - 1)), NEW key, NEW s,
           \A i \in 0..(n - 1) : <<key, i>> \in DOMAIN s.ins => s.ins[<<key, i>>] \in Docs
    PROVE  LET f == Found(s, key, n, D)
               L == Hits(s, key, n, D)
           IN  /\ f \in Seq(Docs) /\ Len(f) <= n
               /\ \A p \in DOMAIN f : \E i \in L : f[p] = s.ins[<<key, i>>]
               /\ \A i \in L : \E p \in DOMAIN f : f[p] = s.ins[<<key, i>>]
               /\ (\A i, j \in L : s.ins[<<key, i>>] = s.ins[<<key, j>>] => i = j) =>
                     \A p, r \in DOMAIN f : f[p] = f[r] => p = r
<1> DEFINE leaves == LeafOrder(n, D)
           J == {j \in DOMAIN leaves : <<key, leaves[j]>> \in DOMAIN s.ins}
           hits == Subsequence(leaves, J)
           f == Found(s, key, n, D)
           L == {i \in (0..(n - 1)) \ D : <<key, i>> \in DOMAIN s.ins}
<1>0. n \in Nat
  BY UpdatesBound
<1>1. PICK m \in 0..n :
        /\ DOMAIN leaves = 1..m
        /\ \A j \in 1..m : leaves[j] \in (0..(n - 1)) \ D
        /\ \A i \in (0..(n - 1)) \ D : \E j \in 1..m : leaves[j] = i
        /\ \A i, j \in 1..m : leaves[i] = leaves[j] => i = j
  BY LeafFacts
<1>2. f = [j \in DOMAIN hits |-> s.ins[<<key, hits[j]>>]]
  BY DEF Found
<1> HIDE DEF leaves, hits, f
<1>3. J \in SUBSET (1..m) /\ \A j \in J : leaves[j] \in L
  BY <1>1
<1>4. \A i \in L : \E j \in J : leaves[j] = i
  BY <1>1
<1> HIDE DEF J
<1>5. /\ hits \in Seq(L) /\ Cardinality(J) \in Nat
      /\ DOMAIN hits = 1..Cardinality(J) /\ Len(hits) = Cardinality(J)
      /\ \A p \in DOMAIN hits : \E j \in J : hits[p] = leaves[j]
      /\ \A j \in J : \E p \in DOMAIN hits : hits[p] = leaves[j]
      /\ (\A i, j \in J : leaves[i] = leaves[j] => i = j) =>
            \A p, r \in DOMAIN hits : hits[p] = hits[r] => p = r
  <2> HIDE DEF L
  <2>1. m \in Nat
    BY <1>0, <1>1
  <2> QED BY <1>3, <2>1, SubsequenceFacts DEF hits
<1>6. \A p \in DOMAIN hits : hits[p] \in L
  BY <1>3, <1>5
<1>7. \A i \in L : \E p \in DOMAIN hits : hits[p] = i
  BY <1>4, <1>5
<1>8. \A p, r \in DOMAIN hits : hits[p] = hits[r] => p = r
  BY <1>1, <1>3, <1>5
<1>9. /\ DOMAIN f = 1..Cardinality(J)
      /\ \A p \in DOMAIN f : hits[p] \in L /\ f[p] = s.ins[<<key, hits[p]>>]
  BY <1>2, <1>5, <1>6
<1>10. f \in Seq(Docs) /\ Len(f) = Cardinality(J)
  <2>1. f \in [1..Cardinality(J) -> Docs]
    BY <1>2, <1>5, <1>9
  <2>2. f \in Seq(Docs)
    BY <1>5, <2>1, SeqDef
  <2> QED BY <1>5, <1>9, <2>2, LenProperties
<1>11. Cardinality(J) <= n
  <2>1. m \in Nat /\ m <= n
    BY <1>0, <1>1
  <2>2. IsFiniteSet(1..m) /\ Cardinality(1..m) = m
    BY <2>1, FS_Interval
  <2>3. Cardinality(J) <= m
    BY <1>3, <2>2, FS_Subset
  <2> QED BY <1>0, <1>5, <2>1, <2>3
<1>12. \A p \in DOMAIN f : \E i \in L : f[p] = s.ins[<<key, i>>]
  BY <1>9
<1>13. \A i \in L : \E p \in DOMAIN f : f[p] = s.ins[<<key, i>>]
  BY <1>5, <1>7, <1>9
<1>14. (\A i, j \in L : s.ins[<<key, i>>] = s.ins[<<key, j>>] => i = j) =>
          \A p, r \in DOMAIN f : f[p] = f[r] => p = r
  <2> HIDE DEF L
  <2> SUFFICES ASSUME \A i, j \in L : s.ins[<<key, i>>] = s.ins[<<key, j>>] => i = j,
                      NEW p \in DOMAIN f, NEW r \in DOMAIN f, f[p] = f[r]
               PROVE  p = r
    OBVIOUS
  <2>1. hits[p] = hits[r]
    <3>1. hits[p] \in L /\ hits[r] \in L
      BY <1>9
    <3>2. s.ins[<<key, hits[p]>>] = s.ins[<<key, hits[r]>>]
      BY <1>9
    <3> QED BY <3>1, <3>2, Zenon
  <2> QED BY <1>5, <1>8, <1>9, <2>1
<1> QED BY <1>10, <1>11, <1>12, <1>13, <1>14 DEF f, Hits

-----------------------------------------------------------------------------
\* What the invariant says of a client and of a server.

Stages == {"sent", "done", "failed"}
DelKeys == {"own", "saved"}

\* The client: its types; a keyword's key is the one its counter says, or NoKey if it
\* was searched before its first update; no key beyond the counters was ever used;
\* there are no more entries under a key than u, the updates so far.
ClientOK(c, u) ==
    /\ c \in [token : {c.token}, counter : {c.counter}, ins : {c.ins}, del : {c.del},
              delKey : DelKeys]
    /\ DOMAIN c.counter \subseteq DOMAIN c.token /\ DOMAIN c.token \subseteq Keywords
    /\ \A w \in DOMAIN c.counter : c.counter[w] \in Nat
    /\ \A w \in DOMAIN c.token :
          c.token[w] = IF w \in DOMAIN c.counter THEN Key(w, c.counter[w]) ELSE NoKey
    /\ \A k \in DOMAIN c.ins : k \in Keys /\ c.ins[k] \in Nat /\ c.ins[k] < u
    /\ \A k \in DOMAIN c.del : k \in Keys /\ c.del[k] \in Nat
    /\ \A k \in DOMAIN c.ins \cup DOMAIN c.del :
          k = NoKey \/ (k.word \in DOMAIN c.counter /\ k.no <= c.counter[k.word])

\* The server: its types; a deletion is stored under the key of what it revokes.
ServerOK(s) ==
    /\ s \in [up : {"none", "ready", "nodb"}, ins : {s.ins}, del : {s.del}, cnt : {s.cnt}]
    /\ \A t \in DOMAIN s.ins : t \in Keys \X Nat /\ s.ins[t] \in Docs
    /\ \A t \in DOMAIN s.del :
          /\ t \in DelKeys \X Keys \X Nat
          /\ s.del[t] \in Keys \X Docs /\ s.del[t][1] = t[2]
    /\ \A k \in DOMAIN s.cnt : k \in Keys \X Docs /\ s.cnt[k] \in Nat

Within(c, s) ==
    /\ \A t \in DOMAIN s.ins : t[2] < Count(c.ins, t[1])
    /\ \A t \in DOMAIN s.del : t[1] = c.delKey => t[3] < Count(c.del, t[2])

Own(s) ==
    \A k \in DOMAIN s.cnt :
        <<k[1], s.cnt[k]>> \in DOMAIN s.ins /\ s.ins[<<k[1], s.cnt[k]>>] = k[2]

\* In one process delCntMap and the client's counters are lost together.
Counted(c, s) == \A k \in DOMAIN s.cnt : s.cnt[k] < Count(c.ins, k[1])

\* What the tables hold under a key in regular use: an entry for each document of U,
\* and a deletion for each of them that is not in L.
Agree(key, delKey, s, L, U) ==
    /\ L \subseteq U
    /\ \A t \in DOMAIN s.ins : t[1] = key =>
          /\ s.ins[t] \in U
          /\ s.cnt[<<key, s.ins[t]>>] = t[2]
    /\ \A d \in U : <<key, d>> \in DOMAIN s.cnt
    /\ \A t \in DOMAIN s.del : t[1] = delKey /\ t[2] = key => s.del[t][2] \in U \ L
    /\ \A d \in U \ L : \E t \in DOMAIN s.del :
          t[1] = delKey /\ t[2] = key /\ s.del[t][2] = d

\* The counters of deleted documents that a search must leave out.
Hides(s, dels, key, L) ==
    \A i \in Nat : i \in dels <=> (<<key, i>> \in DOMAIN s.ins /\ s.ins[<<key, i>>] \notin L)

Request == [key : Keys, cnt : Nat, doc : Docs]
Exactly(res, expected) == IsInjective(res) /\ ToSet(res) = expected

-----------------------------------------------------------------------------
\* The client's operations.

\* Keys of different keywords or numbers are different.
LEMMA KeyFacts ==
    /\ \A w, n : Key(w, n).word = w /\ Key(w, n).no = n
    /\ NoKey.word = "" /\ NoKey.no = 0
    /\ \A w \in Keywords, n \in Nat : Key(w, n) \in Keys /\ Key(w, n) # NoKey
    /\ NoKey \in Keys
<1>1. /\ \A w, n : Key(w, n).word = w /\ Key(w, n).no = n
      /\ NoKey.word = "" /\ NoKey.no = 0
  BY DEF Key, NoKey
<1>2. \A w \in Keywords, n \in Nat : Key(w, n) \in Keys
  BY DEF Key, Keys
<1>3. NoKey \in Keys
  BY DEF NoKey, Keys
<1>4. \A w \in Keywords : w # ""
  BY NoName, Zenon
<1>5. ASSUME NEW w \in Keywords, NEW n \in Nat PROVE Key(w, n) # NoKey
  <2>1. Key(w, n).word # NoKey.word
    BY <1>1, <1>4
  <2> QED BY <2>1, Zenon
<1> QED BY <1>1, <1>2, <1>3, <1>5

\* Counters are natural numbers.
LEMMA CountFacts ==
    ASSUME NEW ram, \A k \in DOMAIN ram : ram[k] \in Nat
    PROVE  /\ \A k : Count(ram, k) \in Nat
           /\ \A k : Count(ram, k) = 0 <=> k \notin DOMAIN ram
           /\ \A k \in DOMAIN ram : Count(ram, k) = ram[k] + 1
BY DEF Count

\* The tables stay within the counters of a client whose counters have grown.
Grown(c, c2) ==
    /\ c2.delKey = c.delKey
    /\ \A k \in Keys : /\ Count(c.ins, k) <= Count(c2.ins, k)
                       /\ Count(c.del, k) <= Count(c2.del, k)

\* What lies below the old counters lies below the new ones.
LEMMA GrownWithin ==
    ASSUME NEW c, NEW u \in Nat, ClientOK(c, u), NEW c2, NEW u2 \in Nat, ClientOK(c2, u2),
           Grown(c, c2), NEW s, ServerOK(s)
    PROVE  /\ Within(c, s) => Within(c2, s)
           /\ Counted(c, s) => Counted(c2, s)
<1>1. \A k : /\ Count(c.ins, k) \in Nat /\ Count(c2.ins, k) \in Nat
             /\ Count(c.del, k) \in Nat /\ Count(c2.del, k) \in Nat
  BY CountFacts DEF ClientOK
<1>2. /\ \A t \in DOMAIN s.ins : t[1] \in Keys /\ t[2] \in Nat
      /\ \A t \in DOMAIN s.del : t[2] \in Keys /\ t[3] \in Nat
      /\ \A k \in DOMAIN s.cnt : k[1] \in Keys /\ s.cnt[k] \in Nat
  BY DEF ServerOK
<1>3. Within(c, s) => Within(c2, s)
  BY <1>1, <1>2 DEF Within, Grown
<1>4. Counted(c, s) => Counted(c2, s)
  BY <1>1, <1>2 DEF Counted, Grown
<1> QED BY <1>3, <1>4

\* A keyword's key is one of Keys, and no other keyword's unless it is NoKey.
LEMMA KeyForFacts ==
    ASSUME NEW c, NEW u \in Nat, ClientOK(c, u)
    PROVE  \A w \in Keywords :
             /\ KeyFor(c, w) \in Keys
             /\ KeyFor(c, w) = NoKey \/ KeyFor(c, w).word = w
             /\ w \in DOMAIN c.token => KeyFor(c, w) = c.token[w]
             /\ w \notin DOMAIN c.token => /\ KeyFor(c, w) = Key(w, 1)
                                           /\ KeyFor(c, w) # NoKey
                                           /\ KeyFor(c, w) \notin DOMAIN c.ins
                                           /\ KeyFor(c, w) \notin DOMAIN c.del
<1> SUFFICES ASSUME NEW w \in Keywords
             PROVE  /\ KeyFor(c, w) \in Keys
                    /\ KeyFor(c, w) = NoKey \/ KeyFor(c, w).word = w
                    /\ w \in DOMAIN c.token => KeyFor(c, w) = c.token[w]
                    /\ w \notin DOMAIN c.token => /\ KeyFor(c, w) = Key(w, 1)
                                                  /\ KeyFor(c, w) # NoKey
                                                  /\ KeyFor(c, w) \notin DOMAIN c.ins
                                                  /\ KeyFor(c, w) \notin DOMAIN c.del
  OBVIOUS
<1>1. CASE w \in DOMAIN c.token
  <2>1. KeyFor(c, w) = c.token[w]
    BY <1>1 DEF KeyFor
  <2>2. c.token[w] = NoKey \/ \E n \in Nat : c.token[w] = Key(w, n)
    BY <1>1 DEF ClientOK
  <2> QED BY <1>1, <2>1, <2>2, KeyFacts
<1>2. CASE w \notin DOMAIN c.token
  <2>1. KeyFor(c, w) = Key(w, 1)
    BY <1>2 DEF KeyFor
  <2>2. Key(w, 1) \in Keys /\ Key(w, 1) # NoKey /\ Key(w, 1).word = w
    BY KeyFacts
  <2>3. Key(w, 1) \notin DOMAIN c.ins \cup DOMAIN c.del
    BY <1>2, <2>2 DEF ClientOK
  <2> QED BY <1>2, <2>1, <2>2, <2>3
<1> QED BY <1>1, <1>2


\* Looking a keyword up for an update leaves every keyword's key as it is.
LEMMA RegisteredOK ==
    ASSUME NEW c, NEW u \in Nat, ClientOK(c, u), NEW w \in Keywords
    PROVE  LET c2 == Registered(c, w)
           IN  /\ ClientOK(c2, u)
               /\ c2.ins = c.ins /\ c2.del = c.del /\ c2.delKey = c.delKey
               /\ DOMAIN c2.token = DOMAIN c.token \cup {w}
               /\ w \in DOMAIN c.token => DOMAIN c2.counter = DOMAIN c.counter
               /\ \A v \in Keywords : KeyFor(c2, v) = KeyFor(c, v)
<1>1. CASE w \in DOMAIN c.token
  BY <1>1 DEF Registered
<1>2. CASE w \notin DOMAIN c.token
  <2> DEFINE c2 == Registered(c, w)
  <2>1. c2 = [c EXCEPT !.token = Put(@, w, Key(w, 1)), !.counter = Put(@, w, 1)]
    BY <1>2 DEF Registered
  <2>2. /\ c2 \in [token : {c2.token}, counter : {c2.counter}, ins : {c2.ins}, del : {c2.del},
                   delKey : DelKeys]
        /\ c2.token = Put(c.token, w, Key(w, 1)) /\ c2.counter = Put(c.counter, w, 1)
        /\ c2.ins = c.ins /\ c2.del = c.del /\ c2.delKey = c.delKey
    BY <2>1 DEF ClientOK
  <2> HIDE DEF c2
  <2>3. /\ DOMAIN c2.token = DOMAIN c.token \cup {w}
        /\ c2.token[w] = Key(w, 1)
        /\ \A v \in DOMAIN c.token : c2.token[v] = c.token[v]
    BY <1>2, <2>2 DEF Put
  <2>4. /\ DOMAIN c2.counter = DOMAIN c.counter \cup {w}
        /\ c2.counter[w] = 1
        /\ w \notin DOMAIN c.counter
        /\ \A v \in DOMAIN c.counter : c2.counter[v] = c.counter[v]
    BY <1>2, <2>2 DEF Put, ClientOK
  <2>5. \A v \in DOMAIN c2.token :
          c2.token[v] = IF v \in DOMAIN c2.counter THEN Key(v, c2.counter[v]) ELSE NoKey
    BY <2>3, <2>4 DEF ClientOK
  <2>6. \A k \in DOMAIN c2.ins \cup DOMAIN c2.del :
          k = NoKey \/ (k.word \in DOMAIN c2.counter /\ k.no <= c2.counter[k.word])
    BY <2>2, <2>4 DEF ClientOK
  <2>7. /\ \A k \in DOMAIN c2.ins : k \in Keys /\ c2.ins[k] \in Nat /\ c2.ins[k] < u
        /\ \A k \in DOMAIN c2.del : k \in Keys /\ c2.del[k] \in Nat
    BY <2>2 DEF ClientOK
  <2>8. /\ DOMAIN c2.counter \subseteq DOMAIN c2.token /\ DOMAIN c2.token \subseteq Keywords
        /\ \A v \in DOMAIN c2.counter : c2.counter[v] \in Nat
    BY <2>3, <2>4 DEF ClientOK
  <2>9. ClientOK(c2, u)
    BY <2>2, <2>5, <2>6, <2>7, <2>8 DEF ClientOK
  <2>10. \A v \in Keywords : KeyFor(c2, v) = KeyFor(c, v)
    BY <1>2, <2>3 DEF KeyFor
  <2> QED BY <1>2, <2>2, <2>3, <2>9, <2>10 DEF c2
<1> QED BY <1>1, <1>2

\* The client after an insertion: one counter is incremented.
LEMMA AfterInsertionOK ==
    ASSUME NEW c, NEW u \in Nat, ClientOK(c, u), NEW w \in Keywords
    PROVE  LET c2 == AfterInsertion(c, w)
               key == KeyFor(c, w)
           IN  /\ ClientOK(c2, u + 1)
               /\ Grown(c, c2)
               /\ w \in DOMAIN c2.token /\ c2.token[w] = key /\ c2.delKey = c.delKey
               /\ Count(c2.ins, key) = Count(c.ins, key) + 1
               /\ DOMAIN c2.ins = DOMAIN c.ins \cup {key} /\ c2.del = c.del
               /\ \A v \in Keywords : KeyFor(c2, v) = KeyFor(c, v)
               /\ DOMAIN c2.token = DOMAIN c.token \cup {w}
<1> DEFINE key == KeyFor(c, w)
           b == Registered(c, w)
           c2 == AfterInsertion(c, w)
<1>1. /\ ClientOK(b, u)
      /\ b.ins = c.ins /\ b.del = c.del /\ b.delKey = c.delKey
      /\ DOMAIN b.token = DOMAIN c.token \cup {w}
      /\ \A v \in Keywords : KeyFor(b, v) = KeyFor(c, v)
  BY RegisteredOK
<1>2. c2 = [b EXCEPT !.ins = Increment(@, key)]
  BY DEF AfterInsertion
<1>3. key \in Keys /\ b.token[w] = key /\ (key = NoKey \/ key.word = w)
  <2>1. /\ \A v \in Keywords : KeyFor(b, v) \in Keys
        /\ w \in DOMAIN b.token => KeyFor(b, w) = b.token[w]
        /\ KeyFor(b, w) = NoKey \/ KeyFor(b, w).word = w
    BY <1>1, KeyForFacts
  <2> QED BY <1>1, <2>1
<1> HIDE DEF b, c2, key
<1>4. /\ c2 \in [token : {c2.token}, counter : {c2.counter}, ins : {c2.ins}, del : {c2.del},
                 delKey : DelKeys]
      /\ c2.token = b.token /\ c2.counter = b.counter /\ c2.del = b.del
      /\ c2.delKey = b.delKey /\ c2.ins = Increment(b.ins, key)
  BY <1>1, <1>2 DEF ClientOK
<1>5. \A k \in DOMAIN b.ins : b.ins[k] \in Nat /\ b.ins[k] < u /\ k \in Keys
  BY <1>1 DEF ClientOK
<1>6. /\ DOMAIN c2.ins = DOMAIN b.ins \cup {key}
      /\ \A k \in DOMAIN c2.ins : c2.ins[k] \in Nat
      /\ Count(c2.ins, key) = Count(b.ins, key) + 1
      /\ \A k : k # key => Count(c2.ins, k) = Count(b.ins, k)
      /\ c2.ins[key] = Count(b.ins, key)
      /\ \A k \in DOMAIN b.ins : k # key => c2.ins[k] = b.ins[k]
      /\ Count(b.ins, key) \in Nat
      /\ \A k : Count(b.ins, k) \in Nat
      /\ Count(b.ins, key) = 0 <=> key \notin DOMAIN b.ins
      /\ key \in DOMAIN b.ins => Count(b.ins, key) = b.ins[key] + 1
  <2>1. \A k \in DOMAIN b.ins : b.ins[k] \in Nat
    BY <1>5
  <2>2. /\ \A k : Count(b.ins, k) \in Nat
        /\ \A k : Count(b.ins, k) = 0 <=> k \notin DOMAIN b.ins
        /\ \A k \in DOMAIN b.ins : Count(b.ins, k) = b.ins[k] + 1
    BY <2>1, CountFacts
  <2>3. c2.ins = Increment(b.ins, key)
    BY <1>4
  <2>4. /\ DOMAIN c2.ins = DOMAIN b.ins \cup {key}
        /\ c2.ins[key] = Count(b.ins, key)
        /\ \A k \in DOMAIN b.ins : k # key => c2.ins[k] = b.ins[k]
        /\ Count(c2.ins, key) = Count(b.ins, key) + 1
        /\ \A k : k # key => Count(c2.ins, k) = Count(b.ins, k)
    BY <2>1, <2>3 DEF Increment, Put, Count
  <2> QED BY <2>1, <2>2, <2>4
<1>7. \A k \in DOMAIN c2.ins : k \in Keys /\ c2.ins[k] \in Nat /\ c2.ins[k] < u + 1
  <2>1. Count(b.ins, key) < u + 1
    BY <1>5, <1>6
  <2> QED BY <1>3, <1>5, <1>6, <2>1
<1>8. key = NoKey \/ (key.word \in DOMAIN b.counter /\ key.no <= b.counter[key.word])
  <2>1. w \in DOMAIN b.token /\ b.token[w] = key
    BY <1>1, <1>3
  <2>2. key = NoKey \/ (w \in DOMAIN b.counter /\ key = Key(w, b.counter[w]) /\ b.counter[w] \in Nat)
    BY <1>1, <2>1 DEF ClientOK
  <2>3. \A n : Key(w, n).word = w /\ Key(w, n).no = n
    BY DEF Key
  <2> QED BY <2>2, <2>3
<1>9. \A k \in DOMAIN c2.ins \cup DOMAIN c2.del :
        k = NoKey \/ (k.word \in DOMAIN c2.counter /\ k.no <= c2.counter[k.word])
  BY <1>1, <1>4, <1>6, <1>8 DEF ClientOK
<1>10. ClientOK(c2, u + 1)
  BY <1>1, <1>4, <1>7, <1>9 DEF ClientOK
<1>11. Grown(c, c2)
  <2>1. \A k : Count(b.del, k) \in Nat
    BY <1>1, CountFacts DEF ClientOK
  <2>2. \A k : Count(b.ins, k) <= Count(c2.ins, k)
    BY <1>6
  <2> QED BY <1>1, <1>4, <2>1, <2>2 DEF Grown
<1>12. \A v \in Keywords : KeyFor(c2, v) = KeyFor(c, v)
  BY <1>1, <1>4 DEF KeyFor
<1> QED BY <1>1, <1>3, <1>4, <1>6, <1>10, <1>11, <1>12 DEF c2, key

\* The client after a deletion: the same for the counters of deletions.
LEMMA AfterDeletionOK ==
    ASSUME NEW c, NEW u \in Nat, ClientOK(c, u), NEW w \in Keywords
    PROVE  LET c2 == AfterDeletion(c, w)
               key == KeyFor(c, w)
           IN  /\ ClientOK(c2, u + 1)
               /\ Grown(c, c2)
               /\ w \in DOMAIN c2.token /\ c2.token[w] = key /\ c2.delKey = c.delKey
               /\ Count(c2.del, key) = Count(c.del, key) + 1
               /\ DOMAIN c2.del = DOMAIN c.del \cup {key} /\ c2.ins = c.ins
               /\ \A v \in Keywords : KeyFor(c2, v) = KeyFor(c, v)
               /\ DOMAIN c2.token = DOMAIN c.token \cup {w}
<1> DEFINE key == KeyFor(c, w)
           b == Registered(c, w)
           c2 == AfterDeletion(c, w)
<1>1. /\ ClientOK(b, u)
      /\ b.ins = c.ins /\ b.del = c.del /\ b.delKey = c.delKey
      /\ DOMAIN b.token = DOMAIN c.token \cup {w}
      /\ \A v \in Keywords : KeyFor(b, v) = KeyFor(c, v)
  BY RegisteredOK
<1>2. c2 = [b EXCEPT !.del = Increment(@, key)]
  BY DEF AfterDeletion
<1>3. key \in Keys /\ b.token[w] = key /\ (key = NoKey \/ key.word = w)
  <2>1. /\ \A v \in Keywords : KeyFor(b, v) \in Keys
        /\ w \in DOMAIN b.token => KeyFor(b, w) = b.token[w]
        /\ KeyFor(b, w) = NoKey \/ KeyFor(b, w).word = w
    BY <1>1, KeyForFacts
  <2> QED BY <1>1, <2>1
<1> HIDE DEF b, c2, key
<1>4. /\ c2 \in [token : {c2.token}, counter : {c2.counter}, ins : {c2.ins}, del : {c2.del},
                 delKey : DelKeys]
      /\ c2.token = b.token /\ c2.counter = b.counter /\ c2.ins = b.ins
      /\ c2.delKey = b.delKey /\ c2.del = Increment(b.del, key)
  BY <1>1, <1>2 DEF ClientOK
<1>5. \A k \in DOMAIN b.del : b.del[k] \in Nat /\ k \in Keys
  BY <1>1 DEF ClientOK
<1>6. /\ DOMAIN c2.del = DOMAIN b.del \cup {key}
      /\ \A k \in DOMAIN c2.del : c2.del[k] \in Nat
      /\ Count(c2.del, key) = Count(b.del, key) + 1
      /\ \A k : k # key => Count(c2.del, k) = Count(b.del, k)
      /\ \A k : Count(b.del, k) \in Nat
  <2>1. \A k \in DOMAIN b.del : b.del[k] \in Nat
    BY <1>5
  <2>2. \A k : Count(b.del, k) \in Nat
    BY <2>1, CountFacts
  <2>3. c2.del = Increment(b.del, key)
    BY <1>4
  <2>4. /\ DOMAIN c2.del = DOMAIN b.del \cup {key}
        /\ c2.del[key] = Count(b.del, key)
        /\ \A k \in DOMAIN b.del : k # key => c2.del[k] = b.del[k]
        /\ Count(c2.del, key) = Count(b.del, key) + 1
        /\ \A k : k # key => Count(c2.del, k) = Count(b.del, k)
    BY <2>1, <2>3 DEF Increment, Put, Count
  <2> QED BY <2>1, <2>2, <2>4
<1>7. /\ \A k \in DOMAIN c2.ins : k \in Keys /\ c2.ins[k] \in Nat /\ c2.ins[k] < u + 1
      /\ \A k \in DOMAIN c2.del : k \in Keys /\ c2.del[k] \in Nat
  BY <1>1, <1>3, <1>4, <1>5, <1>6 DEF ClientOK
<1>8. key = NoKey \/ (key.word \in DOMAIN b.counter /\ key.no <= b.counter[key.word])
  <2>1. w \in DOMAIN b.token /\ b.token[w] = key
    BY <1>1, <1>3
  <2>2. key = NoKey \/ (w \in DOMAIN b.counter /\ key = Key(w, b.counter[w]) /\ b.counter[w] \in Nat)
    BY <1>1, <2>1 DEF ClientOK
  <2>3. \A n : Key(w, n).word = w /\ Key(w, n).no = n
    BY DEF Key
  <2> QED BY <2>2, <2>3
<1>9. \A k \in DOMAIN c2.ins \cup DOMAIN c2.del :
        k = NoKey \/ (k.word \in DOMAIN c2.counter /\ k.no <= c2.counter[k.word])
  BY <1>1, <1>4, <1>6, <1>8 DEF ClientOK
<1>10. ClientOK(c2, u + 1)
  BY <1>1, <1>4, <1>7, <1>9 DEF ClientOK
<1>11. Grown(c, c2)
  <2>1. \A k : Count(b.ins, k) \in Nat
    BY <1>1, CountFacts DEF ClientOK
  <2>2. \A k : Count(b.del, k) <= Count(c2.del, k)
    BY <1>6
  <2> QED BY <1>1, <1>4, <2>1, <2>2 DEF Grown
<1>12. \A v \in Keywords : KeyFor(c2, v) = KeyFor(c, v)
  BY <1>1, <1>4 DEF KeyFor
<1> QED BY <1>1, <1>3, <1>4, <1>6, <1>10, <1>11, <1>12 DEF c2, key

\* The client when a search has looked its keyword up.
LEMMA LookedUpOK ==
    ASSUME NEW c, NEW u \in Nat, ClientOK(c, u), NEW w \in Keywords
    PROVE  LET c2 == LookedUp(c, w)
           IN  /\ ClientOK(c2, u) /\ Grown(c, c2)
               /\ c2.ins = c.ins /\ c2.del = c.del /\ c2.delKey = c.delKey
               /\ DOMAIN c2.token = DOMAIN c.token \cup {w}
               /\ c2.token[w] = IF w \in DOMAIN c.token THEN c.token[w] ELSE NoKey
               /\ \A v \in DOMAIN c.token : c2.token[v] = c.token[v]
               /\ \A v \in Keywords : v # w => KeyFor(c2, v) = KeyFor(c, v)
<1> DEFINE c2 == LookedUp(c, w)
<1>0. /\ \A k : Count(c.ins, k) \in Nat
      /\ \A k : Count(c.del, k) \in Nat
  BY CountFacts DEF ClientOK
<1>1. CASE w \in DOMAIN c.token
  <2>1. c2 = c
    BY <1>1 DEF LookedUp
  <2>2. Grown(c, c)
    BY <1>0 DEF Grown
  <2> QED BY <1>1, <2>1, <2>2
<1>2. CASE w \notin DOMAIN c.token
  <2>1. c2 = [c EXCEPT !.token = Put(@, w, NoKey)]
    BY <1>2 DEF LookedUp
  <2>2. /\ c2 \in [token : {c2.token}, counter : {c2.counter}, ins : {c2.ins}, del : {c2.del},
                   delKey : DelKeys]
        /\ c2.token = Put(c.token, w, NoKey) /\ c2.counter = c.counter
        /\ c2.ins = c.ins /\ c2.del = c.del /\ c2.delKey = c.delKey
    BY <2>1 DEF ClientOK
  <2> HIDE DEF c2
  <2>3. /\ DOMAIN c2.token = DOMAIN c.token \cup {w}
        /\ c2.token[w] = NoKey
        /\ \A v \in DOMAIN c.token : c2.token[v] = c.token[v]
    BY <1>2, <2>2 DEF Put
  <2>4. w \notin DOMAIN c2.counter
    BY <1>2, <2>2 DEF ClientOK
  <2>5. \A v \in DOMAIN c2.token :
          c2.token[v] = IF v \in DOMAIN c2.counter THEN Key(v, c2.counter[v]) ELSE NoKey
    BY <2>2, <2>3, <2>4 DEF ClientOK
  <2>6. ClientOK(c2, u)
    BY <2>2, <2>3, <2>5 DEF ClientOK
  <2>7. Grown(c, c2)
    BY <1>0, <2>2 DEF Grown
  <2>8. \A v \in Keywords : v # w => KeyFor(c2, v) = KeyFor(c, v)
    BY <2>3 DEF KeyFor
  <2> QED BY <1>2, <2>2, <2>3, <2>6, <2>7, <2>8 DEF c2
<1> QED BY <1>1, <1>2

\* The client after a cleaning search: the keyword has a key that was never used,
\* under which the results are inserted.
LEMMA ReinsertionsOK ==
    ASSUME NEW c, NEW u \in Nat, ClientOK(c, u), NEW w \in DOMAIN c.token,
           NEW res \in Seq(Docs), Len(res) <= u
    PROVE  LET c2 == AfterReinsertions(c, w, res)
               key == c2.token[w]
               reqs == Reinsertions(c, w, res)
           IN  /\ ClientOK(c2, u) /\ Grown(c, c2)
               /\ c2.delKey = c.delKey /\ c2.del = c.del
               /\ DOMAIN c2.token = DOMAIN c.token
               /\ \A v \in DOMAIN c.token : v # w => c2.token[v] = c.token[v]
               /\ key \in Keys /\ key # NoKey /\ key.word = w
               /\ key \notin DOMAIN c.ins /\ key \notin DOMAIN c.del
               /\ DOMAIN c2.ins \subseteq DOMAIN c.ins \cup {key}
               /\ Count(c2.ins, key) = Len(res)
               /\ reqs \in Seq(Request) /\ DOMAIN reqs = DOMAIN res /\ Len(reqs) = Len(res)
               /\ \A i \in DOMAIN reqs :
                     reqs[i].key = key /\ reqs[i].cnt = i - 1 /\ reqs[i].doc = res[i]
<1> DEFINE no == NextNo(c, w)
           key == Key(w, no)
           b == Renewed(c, w)
           c2 == AfterReinsertions(c, w, res)
           reqs == Reinsertions(c, w, res)
<1>0. w \in Keywords
  BY DEF ClientOK
<1>1. no \in Nat /\ (w \in DOMAIN c.counter => no = c.counter[w] + 1 /\ c.counter[w] \in Nat)
  BY DEF NextNo, ClientOK
<1>2. b = [c EXCEPT !.counter = Put(@, w, no), !.token = Put(@, w, key)]
  BY DEF Renewed
<1>3. key \in Keys /\ key # NoKey /\ key.word = w /\ key.no = no
  BY <1>0, <1>1, KeyFacts
<1>4. /\ c2 = IF res = <<>> THEN b
              ELSE [b EXCEPT !.ins = Put(@, b.token[w], Count(@, b.token[w]) + Len(res) - 1)]
      /\ reqs = [i \in DOMAIN res |-> [key |-> KeyFor(b, w), cnt |-> Count(c.ins, KeyFor(b, w)) + i - 1,
                                       doc |-> res[i]]]
  BY DEF AfterReinsertions, Reinsertions
<1> HIDE DEF b, c2, key, reqs, no
<1>5. /\ b \in [token : {b.token}, counter : {b.counter}, ins : {b.ins}, del : {b.del},
                delKey : DelKeys]
      /\ b.token = Put(c.token, w, key) /\ b.counter = Put(c.counter, w, no)
      /\ b.ins = c.ins /\ b.del = c.del /\ b.delKey = c.delKey
  BY <1>2 DEF ClientOK
<1>6. /\ DOMAIN b.token = DOMAIN c.token /\ b.token[w] = key
      /\ \A v \in DOMAIN c.token : v # w => b.token[v] = c.token[v]
      /\ DOMAIN b.counter = DOMAIN c.counter \cup {w} /\ b.counter[w] = no
      /\ \A v \in DOMAIN c.counter : v # w => b.counter[v] = c.counter[v]
  BY <1>5 DEF Put
<1>7. KeyFor(b, w) = key
  BY <1>6 DEF KeyFor
<1>8. key \notin DOMAIN c.ins /\ key \notin DOMAIN c.del
  BY <1>1, <1>3 DEF ClientOK
<1>9. Count(c.ins, key) = 0
  BY <1>8 DEF Count
<1>10. /\ c2 \in [token : {c2.token}, counter : {c2.counter}, ins : {c2.ins}, del : {c2.del},
                  delKey : DelKeys]
       /\ c2.token = b.token /\ c2.counter = b.counter /\ c2.del = c.del /\ c2.delKey = c.delKey
       /\ c2.ins = IF res = <<>> THEN c.ins ELSE Put(c.ins, key, Len(res) - 1)
  <2>1. CASE res = <<>>
    BY <1>4, <1>5, <2>1
  <2>2. CASE res # <<>>
    <3>1. c2 = [b EXCEPT !.ins = Put(b.ins, key, Count(b.ins, key) + Len(res) - 1)]
      BY <1>4, <1>6, <2>2
    <3>2. Count(b.ins, key) + Len(res) - 1 = Len(res) - 1
      BY <1>5, <1>9
    <3>3. c2 = [b EXCEPT !.ins = Put(c.ins, key, Len(res) - 1)]
      BY <1>5, <3>1, <3>2
    <3> QED BY <1>5, <2>2, <3>3
  <2> QED BY <2>1, <2>2
<1>11. Len(res) \in Nat /\ (res = <<>> <=> Len(res) = 0) /\ DOMAIN res = 1..Len(res)
  BY EmptySeq, LenProperties
<1>12. /\ DOMAIN c2.ins \subseteq DOMAIN c.ins \cup {key} /\ DOMAIN c.ins \subseteq DOMAIN c2.ins
       /\ \A k \in DOMAIN c.ins : c2.ins[k] = c.ins[k]
       /\ Count(c2.ins, key) = Len(res)
       /\ key \in DOMAIN c2.ins => c2.ins[key] = Len(res) - 1 /\ Len(res) > 0
  <2>1. CASE res = <<>>
    BY <1>8, <1>9, <1>10, <1>11, <2>1
  <2>2. CASE res # <<>>
    <3>1. c2.ins = Put(c.ins, key, Len(res) - 1) /\ Len(res) > 0
      BY <1>10, <1>11, <2>2
    <3> QED BY <1>8, <1>11, <3>1 DEF Put, Count
  <2> QED BY <2>1, <2>2
<1>13. \A k \in DOMAIN c2.ins : k \in Keys /\ c2.ins[k] \in Nat /\ c2.ins[k] < u
  <2>1. \A k \in DOMAIN c.ins : k \in Keys /\ c.ins[k] \in Nat /\ c.ins[k] < u
    BY DEF ClientOK
  <2> QED BY <1>3, <1>11, <1>12, <2>1
<1>14. \A k \in DOMAIN c2.ins \cup DOMAIN c2.del :
        k = NoKey \/ (k.word \in DOMAIN c2.counter /\ k.no <= c2.counter[k.word])
  <2>1. \A k \in DOMAIN c.ins \cup DOMAIN c.del :
          k = NoKey \/ (k.word \in DOMAIN c2.counter /\ k.no <= c2.counter[k.word])
    <3> SUFFICES ASSUME NEW k \in DOMAIN c.ins \cup DOMAIN c.del, k # NoKey
                 PROVE  k.word \in DOMAIN c2.counter /\ k.no <= c2.counter[k.word]
      OBVIOUS
    <3>1. k.word \in DOMAIN c.counter /\ k.no <= c.counter[k.word] /\ k \in Keys
      BY DEF ClientOK
    <3>2. k.no \in Nat
      BY <3>1 DEF Keys
    <3> QED BY <1>1, <1>6, <1>10, <3>1, <3>2
  <2>2. key.word \in DOMAIN c2.counter /\ key.no <= c2.counter[key.word]
    BY <1>1, <1>3, <1>6, <1>10
  <2> QED BY <1>10, <1>12, <2>1, <2>2
<1>15. \A v \in DOMAIN c2.token :
         c2.token[v] = IF v \in DOMAIN c2.counter THEN Key(v, c2.counter[v]) ELSE NoKey
  BY <1>6, <1>10 DEF ClientOK, key
<1>16. /\ DOMAIN c2.counter \subseteq DOMAIN c2.token /\ DOMAIN c2.token \subseteq Keywords
       /\ \A v \in DOMAIN c2.counter : c2.counter[v] \in Nat
  BY <1>1, <1>6, <1>10 DEF ClientOK
<1>17. ClientOK(c2, u)
  BY <1>10, <1>13, <1>14, <1>15, <1>16 DEF ClientOK
<1>18. Grown(c, c2)
  <2>1. /\ \A k : Count(c.ins, k) \in Nat
        /\ \A k : Count(c.del, k) \in Nat
    BY CountFacts DEF ClientOK
  <2>2. \A k : Count(c.ins, k) <= Count(c2.ins, k)
    <3>1. \A k \in DOMAIN c.ins : c.ins[k] \in Nat
      BY DEF ClientOK
    <3>2. \A k \in DOMAIN c2.ins : c2.ins[k] \in Nat
      BY <1>13
    <3> QED BY <1>12, <3>1, <3>2 DEF Count
  <2> QED BY <1>10, <2>1, <2>2 DEF Grown
<1>19. /\ DOMAIN reqs = DOMAIN res
       /\ \A i \in DOMAIN reqs :
             /\ reqs[i] \in Request
             /\ reqs[i].key = key /\ reqs[i].cnt = i - 1 /\ reqs[i].doc = res[i]
  <2>1. reqs = [i \in DOMAIN res |-> [key |-> key, cnt |-> Count(c.ins, key) + i - 1, doc |-> res[i]]]
    BY <1>4, <1>7
  <2>2. \A i \in DOMAIN res : i \in Nat /\ i >= 1 /\ Count(c.ins, key) + i - 1 = i - 1 /\ i - 1 \in Nat
    BY <1>9, <1>11
  <2>3. \A i \in DOMAIN res : res[i] \in Docs
    BY <1>11
  <2>4. reqs = [i \in DOMAIN res |-> [key |-> key, cnt |-> i - 1, doc |-> res[i]]]
    BY <2>1, <2>2
  <2> QED BY <1>3, <2>2, <2>3, <2>4 DEF Request
<1>20. reqs \in Seq(Request) /\ Len(reqs) = Len(res)
  <2>1. \E n \in Nat : reqs \in [1..n -> Request]
    <3>1. reqs = [i \in 1..Len(res) |-> reqs[i]]
      BY <1>4, <1>11
    <3> QED BY <1>11, <1>19, <3>1
  <2>2. reqs \in Seq(Request)
    BY <2>1, SeqDef
  <2> QED BY <1>11, <1>19, <2>2, LenProperties
<1> QED BY <1>3, <1>6, <1>8, <1>10, <1>12, <1>17, <1>18, <1>19, <1>20 DEF c2, reqs

-----------------------------------------------------------------------------
\* The server's operations.

\* What storing the requests R, all under one key, makes of the tables of s.
Stores(s, s2, key, R) ==
    /\ s2 \in [up : {s.up}, ins : {s2.ins}, del : {s.del}, cnt : {s2.cnt}]
    /\ \A t \in DOMAIN s.ins :
          /\ t \in DOMAIN s2.ins
          /\ (\A r \in R : t # <<key, r.cnt>>) => s2.ins[t] = s.ins[t]
    /\ \A t \in DOMAIN s2.ins :
          \/ t \in DOMAIN s.ins /\ s2.ins[t] = s.ins[t]
          \/ \E r \in R : t = <<key, r.cnt>> /\ s2.ins[t] = r.doc
    /\ \A r \in R : /\ <<key, r.cnt>> \in DOMAIN s2.ins
                    /\ <<key, r.doc>> \in DOMAIN s2.cnt
    /\ \A k \in DOMAIN s.cnt :
          /\ k \in DOMAIN s2.cnt
          /\ (\A r \in R : k # <<key, r.doc>>) => s2.cnt[k] = s.cnt[k]
    /\ \A k \in DOMAIN s2.cnt :
          \/ /\ k \in DOMAIN s.cnt /\ s2.cnt[k] = s.cnt[k]
             /\ \A r \in R : k # <<key, r.doc>>
          \/ \E r \in R : k = <<key, r.doc>> /\ s2.cnt[k] = r.cnt

\* One insertion.
LEMMA InsertStores ==
    ASSUME NEW s, ServerOK(s), NEW r \in Request, NEW hdd \in BOOLEAN
    PROVE  Stores(s, Insert(s, r, hdd), r.key, {r})
<1> DEFINE tok == <<r.key, r.cnt>>
           hash == <<r.key, r.doc>>
           s2 == Insert(s, r, hdd)
<1>1. s2 = [s EXCEPT !.ins = Update(@, tok, r.doc, hdd), !.cnt = Put(@, hash, r.cnt)]
  BY DEF Insert
<1> HIDE DEF s2
<1>2. /\ s2 \in [up : {s.up}, ins : {s2.ins}, del : {s.del}, cnt : {s2.cnt}]
      /\ s2.ins = Update(s.ins, tok, r.doc, hdd) /\ s2.cnt = Put(s.cnt, hash, r.cnt)
  BY <1>1 DEF ServerOK
<1> HIDE DEF tok, hash
<1>3. /\ DOMAIN s2.ins = DOMAIN s.ins \cup {tok}
      /\ \A t \in DOMAIN s.ins : t # tok => s2.ins[t] = s.ins[t]
      /\ s2.ins[tok] = r.doc \/ (tok \in DOMAIN s.ins /\ s2.ins[tok] = s.ins[tok])
  BY <1>2 DEF Update, Put
<1>4. /\ DOMAIN s2.cnt = DOMAIN s.cnt \cup {hash}
      /\ s2.cnt[hash] = r.cnt
      /\ \A k \in DOMAIN s.cnt : k # hash => s2.cnt[k] = s.cnt[k]
  BY <1>2 DEF Put
<1>5. Stores(s, s2, r.key, {r})
  BY <1>2, <1>3, <1>4 DEF Stores, tok, hash
<1> QED BY <1>5 DEF s2

\* A batch of insertions.
LEMMA InsertAllStores ==
    ASSUME NEW s, ServerOK(s), NEW reqs \in Seq(Request), NEW key, NEW hdd \in BOOLEAN,
           \A i \in DOMAIN reqs : reqs[i].key = key
    PROVE  Stores(s, InsertAll(s, reqs, hdd), key, {reqs[i] : i \in DOMAIN reqs})
<1> DEFINE R == {reqs[i] : i \in DOMAIN reqs}
           token(i) == <<reqs[i].key, reqs[i].cnt>>
           hash(i)  == <<reqs[i].key, reqs[i].doc>>
           tokens   == {token(i) : i \in DOMAIN reqs}
           hashes   == {hash(i) : i \in DOMAIN reqs}
           at(t)    == CHOOSE i \in DOMAIN reqs : token(i) = t
           last(h)  == Max({i \in DOMAIN reqs : hash(i) = h})
           s2 == InsertAll(s, reqs, hdd)
<1>1. s2 = [s EXCEPT
            !.ins = [t \in DOMAIN @ \cup tokens |->
                        IF t \in tokens /\ (hdd \/ t \notin DOMAIN @)
                        THEN reqs[at(t)].doc ELSE @[t]],
            !.cnt = [h \in DOMAIN @ \cup hashes |->
                        IF h \in hashes THEN reqs[last(h)].cnt ELSE @[h]]]
  BY DEF InsertAll
<1>2. /\ s2 \in [up : {s.up}, ins : {s2.ins}, del : {s.del}, cnt : {s2.cnt}]
      /\ s2.ins = [t \in DOMAIN s.ins \cup tokens |->
                      IF t \in tokens /\ (hdd \/ t \notin DOMAIN s.ins)
                      THEN reqs[at(t)].doc ELSE s.ins[t]]
      /\ s2.cnt = [h \in DOMAIN s.cnt \cup hashes |->
                      IF h \in hashes THEN reqs[last(h)].cnt ELSE s.cnt[h]]
  <2> HIDE DEF tokens, hashes, at, last, s2
  <2> QED BY <1>1 DEF ServerOK
<1>3. \A t \in tokens : at(t) \in DOMAIN reqs /\ token(at(t)) = t
  OBVIOUS
<1>4. \A h \in hashes : last(h) \in DOMAIN reqs /\ hash(last(h)) = h
  <2> SUFFICES ASSUME NEW h \in hashes PROVE last(h) \in DOMAIN reqs /\ hash(last(h)) = h
    OBVIOUS
  <2> DEFINE J == {i \in DOMAIN reqs : hash(i) = h}
  <2>1. J # {}
    OBVIOUS
  <2>2. DOMAIN reqs = 1..Len(reqs) /\ Len(reqs) \in Nat
    BY LenProperties
  <2>3. J \in SUBSET (1..Len(reqs))
    BY <2>2
  <2>4. Max(J) \in J
    <3> HIDE DEF J
    <3> QED BY <2>1, <2>2, <2>3, MaxFacts
  <2> QED BY <2>4
<1>5. /\ \A i \in DOMAIN reqs : token(i) = <<key, reqs[i].cnt>> /\ token(i) \in tokens
      /\ \A i \in DOMAIN reqs : hash(i) = <<key, reqs[i].doc>> /\ hash(i) \in hashes
  OBVIOUS
<1> HIDE DEF s2, at, last
<1>6. /\ \A t \in tokens : \E r \in R : t = <<key, r.cnt>>
      /\ \A h \in hashes : \E r \in R : h = <<key, r.doc>>
      /\ \A r \in R : <<key, r.cnt>> \in tokens /\ <<key, r.doc>> \in hashes
  OBVIOUS
<1>7. /\ \A t \in tokens : \E r \in R : t = <<key, r.cnt>> /\ reqs[at(t)].doc = r.doc
      /\ \A h \in hashes : \E r \in R : h = <<key, r.doc>> /\ reqs[last(h)].cnt = r.cnt
  <2>1. \A i \in DOMAIN reqs : reqs[i] \in R
    OBVIOUS
  <2>2. \A t \in tokens : at(t) \in DOMAIN reqs /\ t = <<key, reqs[at(t)].cnt>>
    BY <1>3, <1>5
  <2>3. \A h \in hashes : last(h) \in DOMAIN reqs /\ h = <<key, reqs[last(h)].doc>>
    BY <1>4, <1>5
  <2> HIDE DEF R, tokens, hashes
  <2> QED BY <2>1, <2>2, <2>3
<1> HIDE DEF R, tokens, hashes
<1>8. /\ DOMAIN s2.ins = DOMAIN s.ins \cup tokens
      /\ \A t \in DOMAIN s2.ins : s2.ins[t] = IF t \in tokens /\ (hdd \/ t \notin DOMAIN s.ins)
                                              THEN reqs[at(t)].doc ELSE s.ins[t]
      /\ DOMAIN s2.cnt = DOMAIN s.cnt \cup hashes
      /\ \A h \in DOMAIN s2.cnt : s2.cnt[h] = IF h \in hashes THEN reqs[last(h)].cnt ELSE s.cnt[h]
  BY <1>2
<1>9. \A t \in DOMAIN s.ins :
        t \in DOMAIN s2.ins /\ ((\A r \in R : t # <<key, r.cnt>>) => s2.ins[t] = s.ins[t])
  BY <1>6, <1>8
<1>10. \A t \in DOMAIN s2.ins :
          \/ t \in DOMAIN s.ins /\ s2.ins[t] = s.ins[t]
          \/ \E r \in R : t = <<key, r.cnt>> /\ s2.ins[t] = r.doc
  BY <1>7, <1>8
<1>11. \A r \in R : <<key, r.cnt>> \in DOMAIN s2.ins /\ <<key, r.doc>> \in DOMAIN s2.cnt
  BY <1>6, <1>8
<1>12. \A k \in DOMAIN s.cnt :
         k \in DOMAIN s2.cnt /\ ((\A r \in R : k # <<key, r.doc>>) => s2.cnt[k] = s.cnt[k])
  BY <1>6, <1>8
<1>13. \A k \in DOMAIN s2.cnt :
          \/ /\ k \in DOMAIN s.cnt /\ s2.cnt[k] = s.cnt[k]
             /\ \A r \in R : k # <<key, r.doc>>
          \/ \E r \in R : k = <<key, r.doc>> /\ s2.cnt[k] = r.cnt
  <2> SUFFICES ASSUME NEW k \in DOMAIN s2.cnt
               PROVE  \/ /\ k \in DOMAIN s.cnt /\ s2.cnt[k] = s.cnt[k]
                         /\ \A r \in R : k # <<key, r.doc>>
                      \/ \E r \in R : k = <<key, r.doc>> /\ s2.cnt[k] = r.cnt
    OBVIOUS
  <2>1. CASE k \in hashes
    BY <1>7, <1>8, <2>1
  <2>2. CASE k \notin hashes
    BY <1>6, <1>8, <2>2
  <2> QED BY <2>1, <2>2
<1>14. Stores(s, s2, key, R)
  BY <1>2, <1>9, <1>10, <1>11, <1>12, <1>13 DEF Stores
<1> QED BY <1>14 DEF s2, R

\* The types stay right.
LEMMA StoresOK ==
    ASSUME NEW s, ServerOK(s), NEW s2, NEW key \in Keys, NEW R \in SUBSET Request,
           Stores(s, s2, key, R)
    PROVE  ServerOK(s2)
<1>1. \A r \in R : r.cnt \in Nat /\ r.doc \in Docs
  BY DEF Request
<1>2. \A t \in DOMAIN s2.ins : t \in Keys \X Nat /\ s2.ins[t] \in Docs
  BY <1>1 DEF Stores, ServerOK
<1>3. \A k \in DOMAIN s2.cnt : k \in Keys \X Docs /\ s2.cnt[k] \in Nat
  BY <1>1 DEF Stores, ServerOK
<1>4. /\ s2 \in [up : {"none", "ready", "nodb"}, ins : {s2.ins}, del : {s2.del}, cnt : {s2.cnt}]
      /\ s2.del = s.del
  BY DEF Stores, ServerOK
<1> QED BY <1>2, <1>3, <1>4 DEF ServerOK

\* The tables stay within the counters that the requests were taken from.
LEMMA StoresWithin ==
    ASSUME NEW c, NEW s, NEW s2, NEW key, NEW R, Stores(s, s2, key, R),
           \A r \in R : r.cnt < Count(c.ins, key)
    PROVE  /\ Within(c, s) => Within(c, s2)
           /\ Counted(c, s) => Counted(c, s2)
<1>1. s2.del = s.del
  BY DEF Stores
<1>2. \A t \in DOMAIN s2.ins : t \in DOMAIN s.ins \/ \E r \in R : t = <<key, r.cnt>>
  BY DEF Stores
<1>3. \A k \in DOMAIN s2.cnt : \/ k \in DOMAIN s.cnt /\ s2.cnt[k] = s.cnt[k]
                               \/ \E r \in R : k = <<key, r.doc>> /\ s2.cnt[k] = r.cnt
  BY DEF Stores
<1>4. Within(c, s) => Within(c, s2)
  BY <1>1, <1>2 DEF Within
<1>5. Counted(c, s) => Counted(c, s2)
  BY <1>3 DEF Counted
<1> QED BY <1>4, <1>5

\* delCntMap still leads to entries of the documents it is asked for.
LEMMA StoresOwn ==
    ASSUME NEW s, ServerOK(s), NEW s2, NEW key, NEW R, Stores(s, s2, key, R), Own(s),
           \A r \in R : <<key, r.cnt>> \notin DOMAIN s.ins,
           \A q, r \in R : q.cnt = r.cnt => q = r
    PROVE  Own(s2)
<1> SUFFICES ASSUME NEW k \in DOMAIN s2.cnt
             PROVE  <<k[1], s2.cnt[k]>> \in DOMAIN s2.ins /\ s2.ins[<<k[1], s2.cnt[k]>>] = k[2]
  BY DEF Own
<1>1. CASE k \in DOMAIN s.cnt /\ s2.cnt[k] = s.cnt[k]
  <2>1. <<k[1], s.cnt[k]>> \in DOMAIN s.ins /\ s.ins[<<k[1], s.cnt[k]>>] = k[2]
    BY <1>1 DEF Own
  <2>2. \A r \in R : <<k[1], s.cnt[k]>> # <<key, r.cnt>>
    BY <2>1
  <2>3. /\ <<k[1], s.cnt[k]>> \in DOMAIN s2.ins
        /\ s2.ins[<<k[1], s.cnt[k]>>] = s.ins[<<k[1], s.cnt[k]>>]
    BY <2>1, <2>2 DEF Stores
  <2> QED BY <1>1, <2>1, <2>3
<1>2. CASE \E r \in R : k = <<key, r.doc>> /\ s2.cnt[k] = r.cnt
  <2>1. PICK r \in R : k = <<key, r.doc>> /\ s2.cnt[k] = r.cnt
    BY <1>2
  <2>2. <<key, r.cnt>> \in DOMAIN s2.ins /\ <<key, r.cnt>> \notin DOMAIN s.ins
    BY DEF Stores
  <2>3. PICK q \in R : <<key, r.cnt>> = <<key, q.cnt>> /\ s2.ins[<<key, r.cnt>>] = q.doc
    BY <2>2 DEF Stores
  <2>4. q = r
    BY <2>3
  <2> QED BY <2>1, <2>2, <2>3, <2>4
<1> QED BY <1>1, <1>2 DEF Stores

\* What the tables hold under another key stays as it is.
LEMMA StoresElsewhere ==
    ASSUME NEW s, NEW s2, NEW key, NEW R, Stores(s, s2, key, R), NEW other, other # key,
           NEW delKey, NEW L, NEW U, Agree(other, delKey, s, L, U)
    PROVE  Agree(other, delKey, s2, L, U)
<1>1. s2.del = s.del
  BY DEF Stores
<1>2. \A t \in DOMAIN s2.ins : t[1] = other => t \in DOMAIN s.ins /\ s2.ins[t] = s.ins[t]
  BY DEF Stores
<1>3. \A d : <<other, d>> \in DOMAIN s.cnt =>
               <<other, d>> \in DOMAIN s2.cnt /\ s2.cnt[<<other, d>>] = s.cnt[<<other, d>>]
  BY DEF Stores
<1>4. \A t \in DOMAIN s2.ins : t[1] = other =>
        s2.ins[t] \in U /\ s2.cnt[<<other, s2.ins[t]>>] = t[2]
  BY <1>2, <1>3 DEF Agree
<1>5. \A d \in U : <<other, d>> \in DOMAIN s2.cnt
  BY <1>3 DEF Agree
<1> QED BY <1>1, <1>4, <1>5 DEF Agree

\* An insertion of a document that has no entry under the key adds it.
LEMMA StoresOne ==
    ASSUME NEW s, ServerOK(s), NEW s2, NEW r \in Request, Stores(s, s2, r.key, {r}),
           NEW delKey, NEW L, NEW U, Agree(r.key, delKey, s, L, U),
           r.doc \notin U, <<r.key, r.cnt>> \notin DOMAIN s.ins
    PROVE  Agree(r.key, delKey, s2, L \cup {r.doc}, U \cup {r.doc})
<1> DEFINE key == r.key
           d0 == r.doc
<1>1. s2.del = s.del
  BY DEF Stores
<1>2. \A t \in DOMAIN s2.ins : t[1] = key =>
        \/ t \in DOMAIN s.ins /\ s2.ins[t] = s.ins[t]
        \/ t = <<key, r.cnt>> /\ s2.ins[t] = d0
  BY DEF Stores
<1>3. /\ \A d : d # d0 /\ <<key, d>> \in DOMAIN s.cnt =>
               <<key, d>> \in DOMAIN s2.cnt /\ s2.cnt[<<key, d>>] = s.cnt[<<key, d>>]
      /\ <<key, d0>> \in DOMAIN s2.cnt /\ s2.cnt[<<key, d0>>] = r.cnt
  BY DEF Stores
<1> HIDE DEF key, d0
<1>4. \A t \in DOMAIN s2.ins : t[1] = key =>
        s2.ins[t] \in U \cup {d0} /\ s2.cnt[<<key, s2.ins[t]>>] = t[2]
  <2> SUFFICES ASSUME NEW t \in DOMAIN s2.ins, t[1] = key
               PROVE  s2.ins[t] \in U \cup {d0} /\ s2.cnt[<<key, s2.ins[t]>>] = t[2]
    OBVIOUS
  <2>1. CASE t \in DOMAIN s.ins /\ s2.ins[t] = s.ins[t]
    <3>1. s.ins[t] \in U /\ s.cnt[<<key, s.ins[t]>>] = t[2]
      BY <2>1 DEF Agree, key
    <3>2. s.ins[t] # d0 /\ <<key, s.ins[t]>> \in DOMAIN s.cnt
      BY <3>1 DEF Agree, key, d0
    <3> QED BY <1>3, <2>1, <3>1, <3>2
  <2>2. CASE t = <<key, r.cnt>> /\ s2.ins[t] = d0
    BY <1>3, <2>2
  <2> QED BY <1>2, <2>1, <2>2
<1>5. \A d \in U \cup {d0} : <<key, d>> \in DOMAIN s2.cnt
  BY <1>3 DEF Agree, key
<1>6. (U \cup {d0}) \ (L \cup {d0}) = U \ L
  BY DEF d0, Agree
<1>7. L \cup {d0} \subseteq U \cup {d0}
  BY DEF Agree
<1>8. /\ \A t \in DOMAIN s2.del : t[1] = delKey /\ t[2] = key => s2.del[t][2] \in U \ L
      /\ \A d \in U \ L : \E t \in DOMAIN s2.del :
            t[1] = delKey /\ t[2] = key /\ s2.del[t][2] = d
  BY <1>1 DEF Agree, key
<1>9. Agree(key, delKey, s2, L \cup {d0}, U \cup {d0})
  BY <1>4, <1>5, <1>6, <1>7, <1>8 DEF Agree
<1> QED BY <1>9 DEF key, d0

\* A batch under a key that was never used leaves exactly its documents there.
LEMMA StoresBatch ==
    ASSUME NEW s, ServerOK(s), NEW s2, NEW key, NEW R, Stores(s, s2, key, R), NEW delKey,
           \A t \in DOMAIN s.ins : t[1] # key,
           \A t \in DOMAIN s.del : t[1] = delKey => t[2] # key,
           \A q, r \in R : q.doc = r.doc => q = r,
           NEW D, D = {r.doc : r \in R}
    PROVE  Agree(key, delKey, s2, D, D)
<1>1. s2.del = s.del
  BY DEF Stores
<1>2. \A t \in DOMAIN s2.ins : t[1] = key => \E r \in R : t = <<key, r.cnt>> /\ s2.ins[t] = r.doc
  BY DEF Stores
<1>3. \A r \in R : <<key, r.doc>> \in DOMAIN s2.cnt /\ s2.cnt[<<key, r.doc>>] = r.cnt
  <2> SUFFICES ASSUME NEW r \in R
               PROVE  <<key, r.doc>> \in DOMAIN s2.cnt /\ s2.cnt[<<key, r.doc>>] = r.cnt
    OBVIOUS
  <2>1. <<key, r.doc>> \in DOMAIN s2.cnt
    BY DEF Stores
  <2>2. PICK q \in R : <<key, r.doc>> = <<key, q.doc>> /\ s2.cnt[<<key, r.doc>>] = q.cnt
    BY <2>1 DEF Stores
  <2> QED BY <2>1, <2>2
<1>4. \A t \in DOMAIN s2.ins : t[1] = key =>
        s2.ins[t] \in D /\ s2.cnt[<<key, s2.ins[t]>>] = t[2]
  <2> SUFFICES ASSUME NEW t \in DOMAIN s2.ins, t[1] = key
               PROVE  s2.ins[t] \in D /\ s2.cnt[<<key, s2.ins[t]>>] = t[2]
    OBVIOUS
  <2>1. PICK r \in R : t = <<key, r.cnt>> /\ s2.ins[t] = r.doc
    BY <1>2
  <2> QED BY <1>3, <2>1
<1>5. \A d \in D : <<key, d>> \in DOMAIN s2.cnt
  BY <1>3
<1> QED BY <1>1, <1>4, <1>5 DEF Agree

\* A deletion.
Deletes(s, s2, token, target) ==
    /\ s2 \in [up : {s.up}, ins : {s.ins}, del : {s2.del}, cnt : {s.cnt}]
    /\ \A t \in DOMAIN s.del : t \in DOMAIN s2.del /\ (t # token => s2.del[t] = s.del[t])
    /\ \A t \in DOMAIN s2.del :
          \/ t \in DOMAIN s.del /\ s2.del[t] = s.del[t]
          \/ t = token /\ s2.del[t] = target
    /\ token \in DOMAIN s2.del

\* Delete is such a deletion.
LEMMA DeleteDeletes ==
    ASSUME NEW s, ServerOK(s), NEW r, NEW hdd \in BOOLEAN
    PROVE  Deletes(s, Delete(s, r, hdd), r.token, r.target)
<1> DEFINE s2 == Delete(s, r, hdd)
<1>1. s2 = [s EXCEPT !.del = Update(@, r.token, r.target, hdd)]
  BY DEF Delete
<1> HIDE DEF s2
<1>2. /\ s2 \in [up : {s.up}, ins : {s.ins}, del : {s2.del}, cnt : {s.cnt}]
      /\ s2.del = Update(s.del, r.token, r.target, hdd)
  BY <1>1 DEF ServerOK
<1>3. /\ DOMAIN s2.del = DOMAIN s.del \cup {r.token}
      /\ \A t \in DOMAIN s.del : t # r.token => s2.del[t] = s.del[t]
      /\ \/ s2.del[r.token] = r.target
         \/ r.token \in DOMAIN s.del /\ s2.del[r.token] = s.del[r.token]
  BY <1>2 DEF Update, Put
<1>4. Deletes(s, s2, r.token, r.target)
  BY <1>2, <1>3 DEF Deletes
<1> QED BY <1>4 DEF s2

\* It keeps the types, the bounds and what delCntMap leads to.
LEMMA DeletesOK ==
    ASSUME NEW c, NEW s, ServerOK(s), NEW s2, NEW token \in DelKeys \X Keys \X Nat,
           NEW target \in Keys \X Docs, target[1] = token[2], Deletes(s, s2, token, target),
           token[3] < Count(c.del, token[2])
    PROVE  /\ ServerOK(s2)
           /\ Within(c, s) => Within(c, s2)
           /\ Counted(c, s) => Counted(c, s2)
           /\ Own(s) => Own(s2)
<1>1. /\ s2 \in [up : {"none", "ready", "nodb"}, ins : {s2.ins}, del : {s2.del}, cnt : {s2.cnt}]
      /\ s2.ins = s.ins /\ s2.cnt = s.cnt
  BY DEF Deletes, ServerOK
<1>2. \A t \in DOMAIN s2.del :
          \/ t \in DOMAIN s.del /\ s2.del[t] = s.del[t]
          \/ t = token /\ s2.del[t] = target
  BY DEF Deletes
<1>3. \A t \in DOMAIN s2.del :
          /\ t \in DelKeys \X Keys \X Nat
          /\ s2.del[t] \in Keys \X Docs /\ s2.del[t][1] = t[2]
  BY <1>2 DEF ServerOK
<1>4. ServerOK(s2)
  BY <1>1, <1>3 DEF ServerOK
<1>5. Within(c, s) => Within(c, s2)
  BY <1>1, <1>2 DEF Within
<1> QED BY <1>1, <1>4, <1>5 DEF Counted, Own

\* Under its own key it takes its document from the live ones, elsewhere nothing.
LEMMA DeletesAgree ==
    ASSUME NEW s, NEW s2, NEW token, NEW target, Deletes(s, s2, token, target),
           NEW key, NEW delKey, NEW L, NEW U, Agree(key, delKey, s, L, U)
    PROVE  /\ token[2] # key => Agree(key, delKey, s2, L, U)
           /\ /\ token[1] = delKey /\ token[2] = key /\ token \notin DOMAIN s.del
              /\ target[2] \in L
              => Agree(key, delKey, s2, L \ {target[2]}, U)
<1> DEFINE d0 == target[2]
<1>1. s2.ins = s.ins /\ s2.cnt = s.cnt
  BY DEF Deletes
<1>2. ASSUME token[2] # key PROVE Agree(key, delKey, s2, L, U)
  <2>1. /\ \A t \in DOMAIN s2.del : t[2] = key => t \in DOMAIN s.del /\ s2.del[t] = s.del[t]
        /\ \A t \in DOMAIN s.del : t[2] = key => t \in DOMAIN s2.del
    BY <1>2 DEF Deletes
  <2> QED BY <1>1, <2>1 DEF Agree
<1>3. ASSUME token[1] = delKey, token[2] = key, token \notin DOMAIN s.del, d0 \in L
      PROVE  Agree(key, delKey, s2, L \ {d0}, U)
  <2> HIDE DEF d0
  <2>1. \A t \in DOMAIN s.del : t \in DOMAIN s2.del /\ s2.del[t] = s.del[t]
    BY <1>3 DEF Deletes
  <2>2. token \in DOMAIN s2.del /\ s2.del[token] = target
    BY <1>3 DEF Deletes
  <2>3. \A t \in DOMAIN s2.del : t[1] = delKey /\ t[2] = key => s2.del[t][2] \in U \ (L \ {d0})
    <3>1. d0 \in U
      BY <1>3 DEF Agree
    <3> QED BY <3>1 DEF Deletes, Agree, d0
  <2>4. \A d \in U \ (L \ {d0}) : \E t \in DOMAIN s2.del :
          t[1] = delKey /\ t[2] = key /\ s2.del[t][2] = d
    <3> SUFFICES ASSUME NEW d \in U \ (L \ {d0})
                 PROVE  \E t \in DOMAIN s2.del : t[1] = delKey /\ t[2] = key /\ s2.del[t][2] = d
      OBVIOUS
    <3>1. CASE d = d0
      BY <1>3, <2>2, <3>1 DEF d0
    <3>2. CASE d # d0
      <4>1. \E t \in DOMAIN s.del : t[1] = delKey /\ t[2] = key /\ s.del[t][2] = d
        BY <3>2 DEF Agree
      <4> QED BY <2>1, <4>1
    <3> QED BY <3>1, <3>2
  <2>5. L \ {d0} \subseteq U
    BY DEF Agree
  <2>6. /\ \A t \in DOMAIN s2.ins : t[1] = key =>
             /\ s2.ins[t] \in U
             /\ s2.cnt[<<key, s2.ins[t]>>] = t[2]
        /\ \A d \in U : <<key, d>> \in DOMAIN s2.cnt
    BY <1>1 DEF Agree
  <2> QED BY <2>3, <2>4, <2>5, <2>6 DEF Agree
<1> QED BY <1>2, <1>3 DEF d0

-----------------------------------------------------------------------------
\* Searches.

\* The deletions found under a key revoke counters of that key; in one process they
\* are below the client's counter.
LEMMA RevokedTypes ==
    ASSUME NEW c, NEW u \in Nat, ClientOK(c, u), NEW s, ServerOK(s), NEW delKey, NEW key, NEW n
    PROVE  LET dels == Revoked(s, Targets(s, delKey, key, n))
           IN  /\ dels \in SUBSET Nat
               /\ Counted(c, s) => dels \in SUBSET (0..(Count(c.ins, key) - 1))
<1> DEFINE T == Targets(s, delKey, key, n)
           dels == Revoked(s, T)
<1>1. \A k \in T : k[1] = key
  <2> SUFFICES ASSUME NEW k \in T PROVE k[1] = key
    OBVIOUS
  <2>1. PICK t \in {<<delKey, key, i>> : i \in 0..(n - 1)} \cap DOMAIN s.del : k = s.del[t]
    BY DEF Targets
  <2>2. t[2] = key
    BY <2>1
  <2> QED BY <2>1, <2>2 DEF ServerOK
<1>2. \A i \in dels : \E k \in T : k \in DOMAIN s.cnt /\ i = s.cnt[k]
  BY DEF Revoked
<1> HIDE DEF T, dels
<1>3. dels \in SUBSET Nat
  BY <1>2 DEF ServerOK
<1>4. ASSUME Counted(c, s) PROVE dels \in SUBSET (0..(Count(c.ins, key) - 1))
  <2>1. Count(c.ins, key) \in Nat
    BY CountFacts DEF ClientOK
  <2>2. \A i \in dels : i < Count(c.ins, key)
    BY <1>1, <1>2, <1>4 DEF Counted
  <2> QED BY <1>3, <2>1, <2>2
<1> QED BY <1>3, <1>4 DEF T, dels

\* In regular use every deletion is resolved, and they hide what is not live.
LEMMA RevokedExact ==
    ASSUME NEW c, NEW u \in Nat, ClientOK(c, u), NEW s, ServerOK(s), Within(c, s), Own(s),
           NEW key, NEW L, NEW U, Agree(key, c.delKey, s, L, U)
    PROVE  LET T == Targets(s, c.delKey, key, Count(c.del, key))
           IN  ~Unresolved(s, T) /\ Hides(s, Revoked(s, T), key, L)
<1> DEFINE n == Count(c.del, key)
           T == Targets(s, c.delKey, key, n)
           dels == Revoked(s, T)
<1>1. n \in Nat
  BY CountFacts DEF ClientOK
<1>2. \A k \in T : k[1] = key /\ k[2] \in U \ L /\ k = <<key, k[2]>>
  <2> SUFFICES ASSUME NEW k \in T PROVE k[1] = key /\ k[2] \in U \ L /\ k = <<key, k[2]>>
    OBVIOUS
  <2>1. PICK t \in {<<c.delKey, key, i>> : i \in 0..(n - 1)} \cap DOMAIN s.del : k = s.del[t]
    BY DEF Targets
  <2>2. t[1] = c.delKey /\ t[2] = key
    BY <2>1
  <2>3. s.del[t] \in Keys \X Docs /\ s.del[t][1] = t[2]
    BY <2>1 DEF ServerOK
  <2>4. s.del[t][2] \in U \ L
    BY <2>1, <2>2 DEF Agree
  <2> QED BY <2>1, <2>2, <2>3, <2>4
<1>3. \A d \in U \ L : <<key, d>> \in T
  <2> SUFFICES ASSUME NEW d \in U \ L PROVE <<key, d>> \in T
    OBVIOUS
  <2>1. PICK t \in DOMAIN s.del : t[1] = c.delKey /\ t[2] = key /\ s.del[t][2] = d
    BY DEF Agree
  <2>2. t \in DelKeys \X Keys \X Nat /\ s.del[t] \in Keys \X Docs /\ s.del[t][1] = key
    BY <2>1 DEF ServerOK
  <2>3. t[3] \in 0..(n - 1)
    BY <1>1, <2>1, <2>2 DEF Within
  <2>4. t = <<c.delKey, key, t[3]>> /\ s.del[t] = <<key, d>>
    BY <2>1, <2>2
  <2>5. t \in {<<c.delKey, key, i>> : i \in 0..(n - 1)}
    BY <2>3, <2>4
  <2> HIDE DEF n
  <2> QED BY <2>4, <2>5 DEF Targets
<1> HIDE DEF T, n
<1>4. \A d \in U : <<key, d>> \in DOMAIN s.cnt
  BY DEF Agree
<1>5. ~Unresolved(s, T)
  BY <1>2, <1>4 DEF Unresolved
<1>6. /\ \A i \in dels : \E k \in T : k \in DOMAIN s.cnt /\ i = s.cnt[k]
      /\ \A k \in T : k \in DOMAIN s.cnt => s.cnt[k] \in dels
  BY DEF Revoked
<1> HIDE DEF dels
<1>7. Hides(s, dels, key, L)
  <2> SUFFICES ASSUME NEW i \in Nat
               PROVE  i \in dels <=> (<<key, i>> \in DOMAIN s.ins /\ s.ins[<<key, i>>] \notin L)
    BY DEF Hides
  <2>1. ASSUME i \in dels PROVE <<key, i>> \in DOMAIN s.ins /\ s.ins[<<key, i>>] \notin L
    <3>1. PICK k \in T : k \in DOMAIN s.cnt /\ i = s.cnt[k]
      BY <1>6, <2>1
    <3>2. k[1] = key /\ k[2] \in U \ L
      BY <1>2
    <3>3. <<k[1], s.cnt[k]>> \in DOMAIN s.ins /\ s.ins[<<k[1], s.cnt[k]>>] = k[2]
      BY <3>1 DEF Own
    <3> QED BY <3>1, <3>2, <3>3
  <2>2. ASSUME <<key, i>> \in DOMAIN s.ins, s.ins[<<key, i>>] \notin L PROVE i \in dels
    <3>1. /\ s.ins[<<key, i>>] \in U
          /\ s.cnt[<<key, s.ins[<<key, i>>]>>] = i
      BY <2>2 DEF Agree
    <3>2. <<key, s.ins[<<key, i>>]>> \in T
      BY <1>3, <2>2, <3>1
    <3> QED BY <1>4, <1>6, <3>1, <3>2
  <2> QED BY <2>1, <2>2
<1> QED BY <1>5, <1>7 DEF T, dels, n

\* What is hidden lies below the client's counter.
LEMMA HiddenWithin ==
    ASSUME NEW c, NEW u \in Nat, ClientOK(c, u), NEW s, ServerOK(s), Within(c, s), NEW key,
           NEW L, NEW dels \in SUBSET Nat, Hides(s, dels, key, L)
    PROVE  dels \in SUBSET (0..(Count(c.ins, key) - 1))
<1>1. Count(c.ins, key) \in Nat
  BY CountFacts DEF ClientOK
<1>2. \A i \in dels : i < Count(c.ins, key)
  BY DEF Hides, Within
<1> QED BY <1>1, <1>2

\* A search of n entries returns documents, at most n of them.
LEMMA FoundTypes ==
    ASSUME NEW n \in 0..MaxUpdates, NEW D \in SUBSET (0..(n - 1)), NEW key, NEW s, ServerOK(s)
    PROVE  Found(s, key, n, D) \in Seq(Docs) /\ Len(Found(s, key, n, D)) <= n
<1>1. \A i \in 0..(n - 1) : <<key, i>> \in DOMAIN s.ins => s.ins[<<key, i>>] \in Docs
  BY DEF ServerOK
<1> QED BY <1>1, FoundFacts

\* In regular use it returns the live documents, and leaves out everything only if
\* there are none.
LEMMA FoundExact ==
    ASSUME NEW c, NEW u \in 0..MaxUpdates, ClientOK(c, u), NEW s, ServerOK(s), Within(c, s),
           Own(s), NEW key, NEW L, NEW U, Agree(key, c.delKey, s, L, U),
           NEW n \in 0..MaxUpdates, n = Count(c.ins, key), NEW D \in SUBSET (0..(n - 1)),
           Hides(s, D, key, L)
    PROVE  /\ Exactly(Found(s, key, n, D), L)
           /\ NothingLeft(n, D) => L = {}
<1> DEFINE f == Found(s, key, n, D)
           I == Hits(s, key, n, D)
<1>0. n \in Nat
  BY UpdatesBound
<1>1. \A i \in 0..(n - 1) : <<key, i>> \in DOMAIN s.ins => s.ins[<<key, i>>] \in Docs
  BY DEF ServerOK
<1>2. /\ \A p \in DOMAIN f : \E i \in I : f[p] = s.ins[<<key, i>>]
      /\ \A i \in I : \E p \in DOMAIN f : f[p] = s.ins[<<key, i>>]
      /\ (\A i, j \in I : s.ins[<<key, i>>] = s.ins[<<key, j>>] => i = j) =>
            \A p, r \in DOMAIN f : f[p] = f[r] => p = r
  <2>1. /\ f \in Seq(Docs) /\ Len(f) <= n
        /\ \A p \in DOMAIN f : \E i \in I : f[p] = s.ins[<<key, i>>]
        /\ \A i \in I : \E p \in DOMAIN f : f[p] = s.ins[<<key, i>>]
        /\ (\A i, j \in I : s.ins[<<key, i>>] = s.ins[<<key, j>>] => i = j) =>
              \A p, r \in DOMAIN f : f[p] = f[r] => p = r
    BY <1>1, FoundFacts, Zenon
  <2> QED BY <2>1
<1> HIDE DEF f
<1>3. \A i \in I : /\ s.ins[<<key, i>>] \in L
                   /\ s.cnt[<<key, s.ins[<<key, i>>]>>] = i
  <2> SUFFICES ASSUME NEW i \in I
               PROVE  s.ins[<<key, i>>] \in L /\ s.cnt[<<key, s.ins[<<key, i>>]>>] = i
    OBVIOUS
  <2>1. i \in Nat /\ i \notin D /\ <<key, i>> \in DOMAIN s.ins
    BY DEF Hits
  <2> QED BY <2>1 DEF Hides, Agree
<1>4. \A d \in L : \E i \in I : s.ins[<<key, i>>] = d
  <2> SUFFICES ASSUME NEW d \in L PROVE \E i \in I : s.ins[<<key, i>>] = d
    OBVIOUS
  <2>1. <<key, d>> \in DOMAIN s.cnt
    BY DEF Agree
  <2>2. PICK i : i = s.cnt[<<key, d>>]
    OBVIOUS
  <2>3. i \in Nat /\ <<key, i>> \in DOMAIN s.ins /\ s.ins[<<key, i>>] = d
    BY <2>1, <2>2 DEF ServerOK, Own
  <2>4. i < n
    BY <2>3 DEF Within
  <2>5. i \notin D
    BY <2>3 DEF Hides
  <2> QED BY <1>0, <2>3, <2>4, <2>5 DEF Hits
<1> HIDE DEF I
<1>5. \A i, j \in I : s.ins[<<key, i>>] = s.ins[<<key, j>>] => i = j
  <2> SUFFICES ASSUME NEW i \in I, NEW j \in I, s.ins[<<key, i>>] = s.ins[<<key, j>>]
               PROVE  i = j
    OBVIOUS
  <2>1. s.cnt[<<key, s.ins[<<key, i>>]>>] = i /\ s.cnt[<<key, s.ins[<<key, j>>]>>] = j
    BY <1>3
  <2> QED BY <2>1
<1>6. IsInjective(f)
  BY <1>2, <1>5 DEF IsInjective
<1>7. ToSet(f) = L
  <2>1. ToSet(f) = {f[p] : p \in DOMAIN f}
    BY DEF ToSet
  <2>2. \A p \in DOMAIN f : f[p] \in L
    BY <1>2, <1>3
  <2>3. \A d \in L : \E p \in DOMAIN f : f[p] = d
    BY <1>2, <1>4
  <2> QED BY <2>1, <2>2, <2>3
<1>8. ASSUME NothingLeft(n, D) PROVE L = {}
  <2>1. I = {}
    BY <1>8 DEF NothingLeft, I, Hits
  <2> QED BY <1>4, <2>1
<1> QED BY <1>6, <1>7, <1>8 DEF Exactly, f

-----------------------------------------------------------------------------
\* The inductive invariant.

Searches == {"searchDelete", "searchInsert", "aborted", "hung"}

CallShape(k) ==
    /\ k.kind \in {"idle", "setup", "insert", "delete", "batch"} \cup Searches
    /\ k.kind = "idle" => k = Idle
    /\ k.kind = "setup" => k \in [kind : {"setup"}, st : Stages]
    /\ k.kind = "insert" =>
          k \in [kind : {"insert"}, st : Stages, w : Keywords, req : Request]
    /\ k.kind = "delete" =>
          k \in [kind : {"delete"}, st : Stages, w : Keywords,
                    req : [token : DelKeys \X Keys \X Nat, target : Keys \X Docs]]
    /\ k.kind = "batch" =>
          k \in [kind : {"batch"}, st : Stages, w : Keywords, out : {k.out},
                    reqs : Seq(Request), keep : BOOLEAN]
    /\ k.kind = "searchDelete" =>
          k \in [kind : {"searchDelete"}, st : Stages, w : Keywords, delKey : DelKeys,
                    key : Keys, n : Nat, dels : SUBSET Nat, unresolved : BOOLEAN]
    /\ k.kind = "searchInsert" =>
          k \in [kind : {"searchInsert"}, st : Stages \cup {"hung"}, w : Keywords,
                    key : Keys, n : Nat, dels : SUBSET Nat, res : Seq(Docs), ok : BOOLEAN]
    /\ k.kind \in {"aborted", "hung"} => k \in [kind : {k.kind}, w : Keywords]

Types ==
    /\ setting \in [remote : BOOLEAN, usehdd : BOOLEAN, clean : BOOLEAN]
    /\ updates \in 0..MaxUpdates
    /\ ClientOK(client, updates)
    /\ ServerOK(server)
    /\ CallShape(call)
    /\ ~setting.remote => call.kind \in {"idle", "aborted", "hung"}
    /\ live \in [Keywords -> SUBSET Docs] /\ used \in [Keywords -> SUBSET Docs]
    /\ regular \in SUBSET Keywords
    /\ fresh \in BOOLEAN

\* With cleaning, NoKey is a keyword's key only during its search and nothing is
\* stored under it; without, it is never the key of a keyword in regular use.
Nameless ==
    IF setting.clean
    THEN /\ NoKey \notin DOMAIN client.ins \cup DOMAIN client.del
         /\ \A w \in DOMAIN client.token :
               client.token[w] = NoKey => call.kind \in Searches /\ call.w = w
    ELSE \A w \in regular \cap DOMAIN client.token : client.token[w] # NoKey

\* What the outstanding call knows of the client ...
Asked ==
    /\ call.kind = "setup" => live = NoDocs /\ used = NoDocs
    /\ call.kind \in {"insert", "delete", "batch", "searchDelete", "searchInsert"} =>
          call.w \in DOMAIN client.token
    /\ call.kind = "insert" =>
          /\ call.req.key = client.token[call.w]
          /\ Count(client.ins, call.req.key) = call.req.cnt + 1
    /\ call.kind = "delete" =>
          /\ call.req.token[1] = client.delKey
          /\ call.req.token[2] = client.token[call.w]
          /\ call.req.target[1] = client.token[call.w]
          /\ Count(client.del, call.req.token[2]) = call.req.token[3] + 1
    /\ call.kind = "batch" =>
          /\ client.token[call.w] # NoKey
          /\ client.token[call.w] \notin DOMAIN client.del
          /\ Count(client.ins, client.token[call.w]) = Len(call.reqs)
          /\ \A i \in DOMAIN call.reqs :
                call.reqs[i].key = client.token[call.w] /\ call.reqs[i].cnt = i - 1
          /\ call.out.trusted => Exactly(call.out.res, call.out.expected)
    /\ call.kind = "searchDelete" =>
          /\ call.key = client.token[call.w] /\ call.delKey = client.delKey
          /\ call.n = Count(client.del, call.key)
    /\ call.kind = "searchInsert" =>
          /\ call.key = client.token[call.w]
          /\ call.n = Count(client.ins, call.key)
          /\ call.dels \subseteq 0..(call.n - 1)
          /\ Len(call.res) <= call.n
          /\ ~call.ok => call.dels = {}

\* ... and of the tables: a request that was not handled yet is not in them, and a
\* reply tells what they hold.
Unused(key) == \A t \in DOMAIN server.ins : t[1] # key
InFlight ==
    /\ call.kind = "insert" /\ call.st = "sent" =>
          <<call.req.key, call.req.cnt>> \notin DOMAIN server.ins
    /\ call.kind = "delete" /\ call.st = "sent" => call.req.token \notin DOMAIN server.del
    /\ call.kind = "batch" /\ call.st = "sent" =>
          /\ Unused(client.token[call.w]) /\ call.w \notin regular
          /\ call.keep => Exactly([i \in DOMAIN call.reqs |-> call.reqs[i].doc], live[call.w])
    /\ call.kind = "searchDelete" /\ call.st = "done" /\ call.w \in regular =>
          ~call.unresolved /\ Hides(server, call.dels, call.key, live[call.w])
    /\ call.kind = "searchInsert" /\ call.w \in regular /\ call.ok =>
          /\ Hides(server, call.dels, call.key, live[call.w])
          /\ call.st = "done" => Exactly(call.res, live[call.w])

Agreement ==
    \A w \in regular :
        Agree(KeyFor(client, w), client.delKey, server, live[w], used[w])

OneProcess == ~setting.remote => Counted(client, server)
Tables == fresh => Within(client, server) /\ Own(server) /\ Agreement /\ InFlight

IInv == Types /\ Nameless /\ Asked /\ OneProcess /\ Tables /\ SearchCompletes /\ AnswerExact

-----------------------------------------------------------------------------
\* Calls.

\* Only the second call of a search, or the search of one process, hangs.
LEMMA HungShape ==
    ASSUME NEW k, CallShape(k)
    PROVE  /\ "st" \in DOMAIN k <=> k.kind \notin {"idle", "aborted", "hung"}
           /\ "st" \in DOMAIN k => k.st \in {"sent", "done", "failed", "hung"}
           /\ "st" \in DOMAIN k /\ k.st = "hung" => k.kind = "searchInsert"
<1>1. CASE k.kind \in {"idle", "setup", "insert", "delete"}
  BY <1>1 DEF CallShape, Idle, Stages, Searches
<1>2. CASE k.kind \in {"batch", "searchDelete", "searchInsert"}
  BY <1>2 DEF CallShape, Stages, Searches
<1>3. CASE k.kind \in {"aborted", "hung"}
  BY <1>3 DEF CallShape, Stages, Searches
<1> QED BY <1>1, <1>2, <1>3 DEF CallShape, Searches

\* Hung, for a call of the right shape.
LEMMA HungFacts ==
    CallShape(call) =>
      (Hung <=> call.kind = "hung" \/ (call.kind = "searchInsert" /\ call.st = "hung"))
<1> SUFFICES ASSUME CallShape(call)
             PROVE  Hung <=> call.kind = "hung" \/ (call.kind = "searchInsert" /\ call.st = "hung")
  OBVIOUS
<1> QED BY HungShape DEF Hung

\* Only the stage of a call changes when it fails or is answered.
LEMMA Restaged ==
    ASSUME NEW k, CallShape(k), NEW st \in Stages, NEW k2,
           k2 = [k EXCEPT !.st = st],
           k.kind \notin {"idle", "aborted", "hung"}
    PROVE  /\ CallShape(k2) /\ k2.kind = k.kind /\ k2.st = st
           /\ k.kind # "setup" => k2.w = k.w
           /\ k.kind \in {"insert", "delete"} => k2.req = k.req
           /\ k.kind = "batch" => k2.out = k.out /\ k2.reqs = k.reqs /\ k2.keep = k.keep
           /\ k.kind = "searchDelete" =>
                 /\ k2.delKey = k.delKey /\ k2.key = k.key /\ k2.n = k.n /\ k2.dels = k.dels
                 /\ k2.unresolved = k.unresolved
           /\ k.kind = "searchInsert" =>
                 k2.key = k.key /\ k2.n = k.n /\ k2.dels = k.dels /\ k2.res = k.res /\ k2.ok = k.ok
<1>1. CASE k.kind \in {"setup", "insert", "delete"}
  BY <1>1 DEF CallShape, Searches
<1>2. CASE k.kind = "batch"
  BY <1>2 DEF CallShape, Searches
<1>3. CASE k.kind = "searchDelete"
  BY <1>3 DEF CallShape, Searches
<1>4. CASE k.kind = "searchInsert"
  BY <1>4 DEF CallShape, Searches
<1> QED BY <1>1, <1>2, <1>3, <1>4 DEF CallShape, Searches

\* The parts of the invariant about the client's call when only its stage changes.
LEMMA RestagedCall ==
    ASSUME Types, Nameless, Asked, NEW st \in Stages, call' = [call EXCEPT !.st = st],
           call.kind \notin {"idle", "aborted", "hung"},
           UNCHANGED <<setting, client>>, regular' \subseteq regular,
           call.kind = "setup" => UNCHANGED <<live, used>>
    PROVE  /\ CallShape(call') /\ Nameless' /\ Asked' /\ ~Hung'
           /\ call'.kind = call.kind /\ call'.st = st
<1>1. /\ CallShape(call') /\ call'.kind = call.kind /\ call'.st = st
      /\ call.kind # "setup" => call'.w = call.w
      /\ call.kind \in {"insert", "delete"} => call'.req = call.req
      /\ call.kind = "batch" =>
            call'.out = call.out /\ call'.reqs = call.reqs /\ call'.keep = call.keep
      /\ call.kind = "searchDelete" =>
            /\ call'.delKey = call.delKey /\ call'.key = call.key /\ call'.n = call.n
            /\ call'.dels = call.dels /\ call'.unresolved = call.unresolved
      /\ call.kind = "searchInsert" =>
            /\ call'.key = call.key /\ call'.n = call.n /\ call'.dels = call.dels
            /\ call'.res = call.res /\ call'.ok = call.ok
  BY Restaged DEF Types
<1>2. Nameless'
  BY <1>1 DEF Nameless, Searches
<1>3. Asked'
  BY <1>1 DEF Asked
<1>4. ~Hung'
  <2>1. Hung' => call'.kind = "hung" \/ call'.st = "hung"
    BY DEF Hung
  <2> QED BY <1>1, <2>1 DEF Stages
<1> QED BY <1>1, <1>2, <1>3, <1>4

\* The initial states.
LEMMA InitIInv == Init => IInv
<1> SUFFICES ASSUME Init PROVE IInv
  OBVIOUS
<1>1. DOMAIN Empty = {}
  BY DEF Empty
<1>2. setting \in [remote : BOOLEAN, usehdd : BOOLEAN, clean : BOOLEAN]
  BY SettingTypes DEF Init
<1>3. PICK delKey \in DelKeys : client = NewClient(delKey)
  BY DEF Init, DelKeys
<1>4. /\ ClientOK(client, 0)
      /\ DOMAIN client.token = {} /\ DOMAIN client.ins = {} /\ DOMAIN client.del = {}
  BY <1>1, <1>3 DEF NewClient, ClientOK
<1>5. /\ ServerOK(server)
      /\ DOMAIN server.ins = {} /\ DOMAIN server.del = {} /\ DOMAIN server.cnt = {}
  BY <1>1, <1>2 DEF Init, NewServer, ServerOK
<1>6. /\ CallShape(call)
      /\ call.kind = IF setting.remote THEN "setup" ELSE "idle"
      /\ ~Hung
  <2>1. CASE setting.remote
    BY <2>1 DEF Init, SetupCall, CallShape, Searches, Stages, Hung
  <2>2. CASE ~setting.remote
    BY <2>2 DEF Init, Idle, CallShape, Searches, Hung
  <2> QED BY <2>1, <2>2
<1>7. /\ updates \in 0..MaxUpdates /\ updates = 0 /\ regular = Keywords /\ fresh \in BOOLEAN
      /\ live = NoDocs /\ used = NoDocs /\ answer = NoAnswer
      /\ live \in [Keywords -> SUBSET Docs] /\ used \in [Keywords -> SUBSET Docs]
  BY UpdatesBound, <1>2 DEF Init, NoDocs
<1>8. Types
  BY <1>2, <1>4, <1>5, <1>6, <1>7 DEF Types
<1>9. Nameless /\ Asked
  BY <1>4, <1>6, <1>7 DEF Nameless, Asked
<1>10. OneProcess /\ Tables
  <2>1. Within(client, server) /\ Own(server) /\ Counted(client, server)
    BY <1>5 DEF Within, Own, Counted
  <2>2. Agreement
    BY <1>5, <1>7 DEF Agreement, Agree, NoDocs
  <2>3. InFlight
    BY <1>6 DEF InFlight
  <2> QED BY <2>1, <2>2, <2>3 DEF OneProcess, Tables
<1>11. SearchCompletes /\ AnswerExact
  BY <1>6, <1>7 DEF SearchCompletes, AnswerExact, NoAnswer
<1> QED BY <1>8, <1>9, <1>10, <1>11 DEF IInv

\* A call fails, before or after it was handled.
LEMMA LoseCall == IInv /\ loseCall => IInv'
<1> SUFFICES ASSUME IInv, loseCall PROVE IInv'
  OBVIOUS
<1>1. /\ "st" \in DOMAIN call /\ call' = Failed
      /\ UNCHANGED <<setting, client, server, live, used, regular, fresh, answer, updates>>
  BY DEF loseCall, ghosts
<1>2. Types /\ Nameless /\ Asked /\ CallShape(call)
  BY DEF IInv, Types
<1>3. call.kind \notin {"idle", "aborted", "hung"} /\ call' = [call EXCEPT !.st = "failed"]
  BY <1>1, <1>2, HungShape DEF Failed
<1>4. /\ CallShape(call') /\ Nameless' /\ Asked' /\ ~Hung'
      /\ call'.kind = call.kind /\ call'.st = "failed"
  BY <1>1, <1>2, <1>3, RestagedCall DEF Stages
<1>5. Types'
  BY <1>1, <1>2, <1>4 DEF Types
<1>6. OneProcess' /\ AnswerExact'
  BY <1>1 DEF IInv, OneProcess, AnswerExact
<1>7. Tables'
  <2> SUFFICES ASSUME fresh PROVE Within(client, server)' /\ Own(server)' /\ Agreement' /\ InFlight'
    BY <1>1 DEF Tables
  <2>1. Within(client, server) /\ Own(server) /\ Agreement /\ InFlight
    BY DEF IInv, Tables
  <2>2. Agreement'
    BY <1>1, <2>1 DEF Agreement
  <2>3. call.kind = "searchInsert" =>
           call'.w = call.w /\ call'.ok = call.ok /\ call'.dels = call.dels /\ call'.key = call.key
    BY <1>2, <1>3, Restaged DEF Stages
  <2>4. InFlight'
    BY <1>1, <1>4, <2>1, <2>3 DEF InFlight
  <2> QED BY <1>1, <2>1, <2>2, <2>4
<1>8. SearchCompletes'
  BY <1>3, <1>4 DEF SearchCompletes
<1> QED BY <1>4, <1>5, <1>6, <1>7, <1>8 DEF IInv

\* The server's process ends: its memory is gone, the RocksDB tables are not.
LEMMA ServerGone ==
    ASSUME NEW s, ServerOK(s), NEW hdd \in BOOLEAN, NEW s2,
           s2 = IF hdd THEN [s EXCEPT !.up = "none", !.cnt = Empty] ELSE NewServer("none")
    PROVE  ServerOK(s2)
<1>1. DOMAIN Empty = {}
  BY DEF Empty
<1>2. CASE hdd
  BY <1>1, <1>2 DEF ServerOK
<1>3. CASE ~hdd
  BY <1>1, <1>3 DEF ServerOK, NewServer
<1> QED BY <1>2, <1>3

\* The server restarts.
LEMMA RestartServer == IInv /\ restartServer => IInv'
<1> SUFFICES ASSUME IInv, restartServer PROVE IInv'
  OBVIOUS
<1>1. /\ setting.remote /\ call' = Failed /\ fresh' = FALSE
      /\ UNCHANGED <<setting, client, live, used, regular, answer, updates>>
  BY DEF restartServer
<1>2. Types /\ Nameless /\ Asked /\ CallShape(call)
  BY DEF IInv, Types
<1>3. ServerOK(server')
  <2>1. ServerOK(server) /\ setting.usehdd \in BOOLEAN
    BY <1>2 DEF Types
  <2>2. server' = IF setting.usehdd THEN [server EXCEPT !.up = "none", !.cnt = Empty]
                  ELSE NewServer("none")
    BY DEF restartServer
  <2> QED BY <2>1, <2>2, ServerGone
<1>4. CallShape(call') /\ Nameless' /\ Asked'
  <2>1. CASE call.kind \in {"idle", "aborted", "hung"}
    <3>1. call' = call
      BY <1>1, <1>2, <2>1, HungShape DEF Failed
    <3> QED BY <1>1, <1>2, <3>1 DEF Nameless, Asked
  <2>2. CASE call.kind \notin {"idle", "aborted", "hung"}
    <3>1. call' = [call EXCEPT !.st = "failed"]
      BY <1>1, <1>2, <2>2, HungShape DEF Failed
    <3> QED BY <1>1, <1>2, <2>2, <3>1, RestagedCall DEF Stages
  <2> QED BY <2>1, <2>2
<1>5. Types'
  BY <1>1, <1>2, <1>3, <1>4 DEF Types
<1>6. OneProcess' /\ Tables' /\ SearchCompletes'
  BY <1>1 DEF OneProcess, Tables, SearchCompletes
<1>7. AnswerExact'
  BY <1>1 DEF IInv, AnswerExact
<1> QED BY <1>4, <1>5, <1>6, <1>7 DEF IInv

\* The server dies of a null pointer.
LEMMA Crash == IInv /\ crash => IInv'
<1> SUFFICES ASSUME IInv, crash PROVE IInv'
  OBVIOUS
<1>1. /\ call.kind \notin {"idle", "setup", "aborted", "hung"}
      /\ call' = [call EXCEPT !.st = "failed"] /\ fresh' = FALSE
      /\ UNCHANGED <<setting, client, live, used, regular, answer, updates>>
  BY DEF crash, bounds
<1>2. Types /\ Nameless /\ Asked /\ setting.remote
  BY <1>1 DEF IInv, Types
<1>3. ServerOK(server')
  <2>1. ServerOK(server) /\ setting.usehdd \in BOOLEAN
    BY <1>2 DEF Types
  <2>2. server' = IF setting.usehdd THEN [server EXCEPT !.up = "none", !.cnt = Empty]
                  ELSE NewServer("none")
    BY DEF crash
  <2> QED BY <2>1, <2>2, ServerGone
<1>4. CallShape(call') /\ Nameless' /\ Asked'
  BY <1>1, <1>2, RestagedCall DEF Stages
<1>5. Types'
  BY <1>1, <1>2, <1>3, <1>4 DEF Types
<1>6. OneProcess' /\ Tables' /\ SearchCompletes'
  BY <1>1, <1>2 DEF OneProcess, Tables, SearchCompletes
<1>7. AnswerExact'
  BY <1>1 DEF IInv, AnswerExact
<1> QED BY <1>4, <1>5, <1>6, <1>7 DEF IInv

\* A call returns.
LEMMA Return == IInv /\ return => IInv'
<1> SUFFICES ASSUME IInv, return PROVE IInv'
  OBVIOUS
<1>1. /\ call.kind \in {"setup", "insert", "delete", "batch"} /\ call' = Idle
      /\ answer' = IF call.kind = "batch" THEN call.out ELSE answer
      /\ UNCHANGED <<setting, client, server, live, used, regular, fresh, updates>>
  BY DEF return, ghosts, bounds
<1>2. Types /\ Nameless /\ Asked /\ Tables /\ OneProcess /\ AnswerExact
  BY DEF IInv
<1>3. CallShape(call') /\ call'.kind = "idle" /\ ~Hung'
  BY <1>1 DEF CallShape, Idle, Searches, Hung
<1>4. Types'
  BY <1>1, <1>2, <1>3 DEF Types
<1>5. Nameless'
  BY <1>1, <1>2 DEF Nameless, Searches
<1>6. Asked'
  BY <1>3 DEF Asked
<1>7. OneProcess' /\ Tables' /\ SearchCompletes'
  BY <1>1, <1>2, <1>3 DEF OneProcess, Tables, Agreement, InFlight, SearchCompletes
<1>8. AnswerExact'
  BY <1>1, <1>2 DEF AnswerExact, Asked, Exactly
<1> QED BY <1>4, <1>5, <1>6, <1>7, <1>8 DEF IInv

\* With empty tables nothing is known of any keyword, and nothing needs to be.
LEMMA EmptyTables ==
    ASSUME NEW c, NEW s, s.ins = Empty, s.del = Empty, s.cnt = Empty
    PROVE  /\ Within(c, s) /\ Own(s) /\ Counted(c, s)
           /\ \A key, delKey : Agree(key, delKey, s, {}, {})
<1>1. DOMAIN Empty = {}
  BY DEF Empty
<1> QED BY <1>1 DEF Within, Own, Counted, Agree

\* The server is set up.
LEMMA HandleSetup == IInv /\ handleSetup => IInv'
<1> SUFFICES ASSUME IInv, handleSetup PROVE IInv'
  OBVIOUS
<1>1. /\ call.kind = "setup" /\ call' = [call EXCEPT !.st = "done"]
      /\ fresh' = (server'.ins = Empty /\ server'.del = Empty)
      /\ UNCHANGED <<setting, client, live, used, regular, answer, updates>>
  BY DEF handleSetup, bounds
<1>2. Types /\ Nameless /\ Asked /\ setting.remote
  BY <1>1 DEF IInv, Types
<1>3. ServerOK(server') /\ server'.cnt = Empty
  <2>1. DOMAIN Empty = {} /\ ServerOK(server) /\ setting.usehdd \in BOOLEAN
    BY <1>2 DEF Types, Empty
  <2>2. CASE setting.usehdd
    <3>1. server' = [server EXCEPT !.up = IF @ = "ready" THEN "nodb" ELSE "ready", !.cnt = Empty]
      BY <2>2 DEF handleSetup
    <3> QED BY <2>1, <3>1 DEF ServerOK
  <2>3. CASE ~setting.usehdd
    <3>1. server' = NewServer("ready")
      BY <2>3 DEF handleSetup
    <3> QED BY <2>1, <3>1 DEF ServerOK, NewServer
  <2> QED BY <2>1, <2>2, <2>3
<1>4. /\ CallShape(call') /\ Nameless' /\ Asked' /\ ~Hung'
      /\ call'.kind = "setup" /\ call'.st = "done"
  BY <1>1, <1>2, RestagedCall DEF Stages
<1>5. Types'
  BY <1>1, <1>2, <1>3, <1>4 DEF Types
<1>6. Tables'
  <2> SUFFICES ASSUME fresh' PROVE Within(client, server)' /\ Own(server)' /\ Agreement' /\ InFlight'
    BY DEF Tables
  <2>1. server'.ins = Empty /\ server'.del = Empty /\ server'.cnt = Empty
    BY <1>1, <1>3
  <2>2. /\ Within(client', server') /\ Own(server')
        /\ \A key, delKey : Agree(key, delKey, server', {}, {})
    BY <2>1, EmptyTables
  <2>3. \A w \in regular' : live'[w] = {} /\ used'[w] = {}
    BY <1>1, <1>2 DEF Asked, NoDocs, Types
  <2>4. Agreement'
    BY <2>2, <2>3 DEF Agreement
  <2>5. InFlight'
    BY <1>4 DEF InFlight
  <2> QED BY <2>2, <2>4, <2>5
<1>7. OneProcess' /\ SearchCompletes'
  BY <1>1, <1>2, <1>4 DEF OneProcess, SearchCompletes
<1>8. AnswerExact'
  BY <1>1 DEF IInv, AnswerExact
<1> QED BY <1>4, <1>5, <1>6, <1>7, <1>8 DEF IInv

\* The client's program restarts.
LEMMA RestartClient == IInv /\ restartClient => IInv'
<1> SUFFICES ASSUME IInv, restartClient PROVE IInv'
  OBVIOUS
<1>1. /\ client' = NewClient("saved")
      /\ call' = IF setting.remote THEN SetupCall ELSE Idle
      /\ fresh' = (~setting.remote /\ server'.ins = Empty /\ server'.del = Empty)
      /\ live' = NoDocs /\ used' = NoDocs /\ regular' = Keywords
      /\ UNCHANGED <<setting, answer, updates>>
  BY DEF restartClient
<1>2. Types /\ setting.remote \in BOOLEAN /\ setting.usehdd \in BOOLEAN /\ ServerOK(server)
  BY DEF IInv, Types
<1>3. DOMAIN Empty = {}
  BY DEF Empty
<1>4. /\ ClientOK(client', updates')
      /\ DOMAIN client'.token = {} /\ DOMAIN client'.ins = {} /\ DOMAIN client'.del = {}
  BY <1>1, <1>3 DEF NewClient, ClientOK, DelKeys
<1>5. ServerOK(server') /\ (~setting.remote => server'.cnt = Empty)
  <2>1. CASE setting.remote
    BY <1>2, <2>1 DEF restartClient
  <2>2. CASE ~setting.remote /\ setting.usehdd
    <3>1. server' = [server EXCEPT !.cnt = Empty]
      BY <2>2 DEF restartClient
    <3> QED BY <1>2, <1>3, <3>1 DEF ServerOK
  <2>3. CASE ~setting.remote /\ ~setting.usehdd
    <3>1. server' = NewServer("ready")
      BY <2>3 DEF restartClient
    <3> QED BY <1>3, <3>1 DEF ServerOK, NewServer
  <2> QED BY <2>1, <2>2, <2>3
<1>6. /\ CallShape(call')
      /\ call'.kind = IF setting.remote THEN "setup" ELSE "idle"
      /\ ~Hung'
  <2>1. CASE setting.remote
    BY <1>1, <2>1 DEF SetupCall, CallShape, Searches, Stages, Hung
  <2>2. CASE ~setting.remote
    BY <1>1, <2>2 DEF Idle, CallShape, Searches, Hung
  <2> QED BY <2>1, <2>2
<1>7. Types'
  <2>1. NoDocs \in [Keywords -> SUBSET Docs]
    BY DEF NoDocs
  <2>2. fresh' \in BOOLEAN
    BY <1>1
  <2> QED BY <1>1, <1>2, <1>4, <1>5, <1>6, <2>1, <2>2 DEF Types
<1>8. Nameless' /\ Asked'
  BY <1>1, <1>4, <1>6 DEF Nameless, Asked
<1>9. OneProcess'
  BY <1>1, <1>3, <1>5 DEF OneProcess, Counted
<1>10. Tables'
  <2> SUFFICES ASSUME fresh' PROVE Within(client, server)' /\ Own(server)' /\ Agreement' /\ InFlight'
    BY DEF Tables
  <2>1. server'.ins = Empty /\ server'.del = Empty /\ server'.cnt = Empty
    BY <1>1, <1>5
  <2>2. /\ Within(client', server') /\ Own(server')
        /\ \A key, delKey : Agree(key, delKey, server', {}, {})
    BY <2>1, EmptyTables
  <2>3. \A w \in regular' : live'[w] = {} /\ used'[w] = {}
    BY <1>1 DEF NoDocs
  <2>4. Agreement'
    BY <2>2, <2>3 DEF Agreement
  <2>5. InFlight'
    BY <1>6 DEF InFlight
  <2> QED BY <2>2, <2>4, <2>5
<1>11. SearchCompletes'
  BY <1>6 DEF SearchCompletes
<1>12. AnswerExact'
  BY <1>1 DEF IInv, AnswerExact
<1> QED BY <1>7, <1>8, <1>9, <1>10, <1>11, <1>12 DEF IInv

-----------------------------------------------------------------------------
\* Updates.

\* Outside of its own search, no keyword in regular use has NoKey.
LEMMA NamedKeys ==
    ASSUME Types, Nameless, call.kind \notin Searches
    PROVE  /\ \A v \in regular : KeyFor(client, v) # NoKey
           /\ setting.clean => \A v \in Keywords : KeyFor(client, v) # NoKey
<1>1. ClientOK(client, updates) /\ updates \in Nat /\ regular \subseteq Keywords
  BY UpdatesBound DEF Types
<1>2. \A v \in Keywords :
        /\ v \in DOMAIN client.token => KeyFor(client, v) = client.token[v]
        /\ v \notin DOMAIN client.token => KeyFor(client, v) # NoKey
  BY <1>1, KeyForFacts
<1>3. CASE setting.clean
  BY <1>1, <1>2, <1>3 DEF Nameless
<1>4. CASE ~setting.clean
  BY <1>1, <1>2, <1>4 DEF Nameless
<1> QED BY <1>3, <1>4

\* An insertion is stored, for the client c whose counters include it.
LEMMA StoreInsertion ==
    ASSUME NEW c, NEW u \in Nat, ClientOK(c, u), ServerOK(server), NEW w \in Keywords,
           NEW r \in Request, r.key = KeyFor(c, w), r.cnt < Count(c.ins, r.key),
           storeInsertion(w, r), setting.usehdd \in BOOLEAN, regular \in SUBSET Keywords,
           live \in [Keywords -> SUBSET Docs], used \in [Keywords -> SUBSET Docs],
           \A v \in regular : KeyFor(c, v) # NoKey
    PROVE  /\ ServerOK(server') /\ regular' \in SUBSET regular /\ UNCHANGED fresh
           /\ live' \in [Keywords -> SUBSET Docs] /\ used' \in [Keywords -> SUBSET Docs]
           /\ Counted(c, server) => Counted(c, server')
           /\ Within(c, server) => Within(c, server')
           /\ /\ Own(server) /\ <<r.key, r.cnt>> \notin DOMAIN server.ins
              /\ \A v \in regular : Agree(KeyFor(c, v), c.delKey, server, live[v], used[v])
              => /\ Own(server')
                 /\ \A v \in regular' : Agree(KeyFor(c, v), c.delKey, server', live'[v], used'[v])
<1>1. /\ server' = Insert(server, r, setting.usehdd)
      /\ live' = [live EXCEPT ![w] = @ \cup {r.doc}]
      /\ used' = [used EXCEPT ![w] = @ \cup {r.doc}]
      /\ regular' = IF r.doc \in used[w] THEN regular \ {w} ELSE regular
      /\ UNCHANGED fresh
  BY DEF storeInsertion
<1>2. Stores(server, server', r.key, {r})
  BY <1>1, InsertStores
<1>3. r.key \in Keys /\ r.cnt \in Nat /\ r.doc \in Docs
  BY DEF Request
<1>4. ServerOK(server')
  BY <1>2, <1>3, StoresOK
<1>5. /\ Within(c, server) => Within(c, server')
      /\ Counted(c, server) => Counted(c, server')
  BY <1>2, StoresWithin
<1>6. /\ live' \in [Keywords -> SUBSET Docs] /\ used' \in [Keywords -> SUBSET Docs]
      /\ regular' \in SUBSET regular /\ (w \in regular' => r.doc \notin used[w])
      /\ \A v \in Keywords : v # w => live'[v] = live[v] /\ used'[v] = used[v]
      /\ live'[w] = live[w] \cup {r.doc} /\ used'[w] = used[w] \cup {r.doc}
  BY <1>1, <1>3
<1>7. ASSUME Own(server), <<r.key, r.cnt>> \notin DOMAIN server.ins PROVE Own(server')
  BY <1>2, <1>7, StoresOwn
<1>8. ASSUME <<r.key, r.cnt>> \notin DOMAIN server.ins,
             \A v \in regular : Agree(KeyFor(c, v), c.delKey, server, live[v], used[v]),
             NEW v \in regular'
      PROVE  Agree(KeyFor(c, v), c.delKey, server', live'[v], used'[v])
  <2>1. v \in regular /\ v \in Keywords
    BY <1>6
  <2>2. Agree(KeyFor(c, v), c.delKey, server, live[v], used[v])
    BY <1>8, <2>1
  <2>3. CASE v = w
    <3>1. r.doc \notin used[w]
      BY <1>6, <2>3
    <3>2. Agree(r.key, c.delKey, server, live[w], used[w])
      BY <2>2, <2>3
    <3>3. Agree(r.key, c.delKey, server', live[w] \cup {r.doc}, used[w] \cup {r.doc})
      BY <1>2, <1>8, <3>1, <3>2, StoresOne
    <3> QED BY <1>6, <2>3, <3>3
  <2>4. CASE v # w
    <3>1. KeyFor(c, v) # r.key
      <4>1. /\ KeyFor(c, v) = NoKey \/ KeyFor(c, v).word = v
            /\ KeyFor(c, w) = NoKey \/ KeyFor(c, w).word = w
        BY <2>1, KeyForFacts
      <4> QED BY <2>1, <2>4, <4>1
    <3>2. Agree(KeyFor(c, v), c.delKey, server', live[v], used[v])
      BY <1>2, <2>2, <3>1, StoresElsewhere
    <3> QED BY <1>6, <2>1, <2>4, <3>2
  <2> QED BY <2>3, <2>4
<1> QED BY <1>1, <1>4, <1>5, <1>6, <1>7, <1>8

\* insertKeyword, in one process or as a request.
LEMMA InsertKeyword ==
    ASSUME NEW w \in Keywords, NEW d \in Docs
    PROVE  IInv /\ insertKeyword(w, d) => IInv'
<1> SUFFICES ASSUME IInv, insertKeyword(w, d) PROVE IInv'
  OBVIOUS
<1> DEFINE r == Insertion(client, w, d)
           key == KeyFor(client, w)
<1>1. /\ call = Idle /\ updates < MaxUpdates /\ updates' = updates + 1
      /\ client' = AfterInsertion(client, w)
      /\ \/ setting.remote /\ Send([kind |-> "insert", st |-> "sent", w |-> w, req |-> r])
         \/ ~setting.remote /\ storeInsertion(w, r) /\ UNCHANGED call
      /\ UNCHANGED <<setting, answer>>
  BY DEF insertKeyword
<1>2. /\ Types /\ Nameless /\ OneProcess /\ Tables /\ AnswerExact
      /\ ClientOK(client, updates) /\ ServerOK(server) /\ updates \in Nat /\ updates \in 0..MaxUpdates
      /\ setting.usehdd \in BOOLEAN /\ regular \in SUBSET Keywords /\ MaxUpdates \in Nat
      /\ live \in [Keywords -> SUBSET Docs] /\ used \in [Keywords -> SUBSET Docs]
  BY UpdatesBound DEF IInv, Types
<1>3. /\ ClientOK(client', updates + 1)
      /\ Grown(client, client')
      /\ w \in DOMAIN client'.token /\ client'.token[w] = key /\ client'.delKey = client.delKey
      /\ Count(client'.ins, key) = Count(client.ins, key) + 1
      /\ DOMAIN client'.ins = DOMAIN client.ins \cup {key} /\ client'.del = client.del
      /\ \A v \in Keywords : KeyFor(client', v) = KeyFor(client, v)
      /\ DOMAIN client'.token = DOMAIN client.token \cup {w}
  BY <1>1, <1>2, AfterInsertionOK
<1>4. /\ \A v \in regular : KeyFor(client, v) # NoKey
      /\ setting.clean => \A v \in Keywords : KeyFor(client, v) # NoKey
  BY <1>1, <1>2, NamedKeys DEF Idle, Searches
<1>5. /\ key \in Keys /\ Count(client.ins, key) \in Nat
      /\ r = [key |-> key, cnt |-> Count(client.ins, key), doc |-> d]
  <2>1. key \in Keys
    BY <1>2, KeyForFacts
  <2>2. Count(client.ins, key) \in Nat
    BY <1>2, CountFacts DEF ClientOK
  <2> QED BY <2>1, <2>2 DEF Insertion
<1> HIDE DEF r, key
<1>6. r \in Request /\ r.key = key /\ r.cnt = Count(client.ins, key)
  BY <1>5 DEF Request
<1>7. \A v \in DOMAIN client'.token : v \in Keywords /\ client'.token[v] = KeyFor(client, v)
  <2>1. DOMAIN client'.token \subseteq Keywords
    BY <1>3 DEF ClientOK
  <2>2. \A v \in DOMAIN client'.token : KeyFor(client', v) = client'.token[v]
    BY DEF KeyFor
  <2> QED BY <1>3, <2>1, <2>2
<1>8. updates' \in 0..MaxUpdates /\ ClientOK(client', updates')
  BY <1>1, <1>2, <1>3
<1>9. /\ Within(client, server) => Within(client', server)
      /\ Counted(client, server) => Counted(client', server)
  BY <1>2, <1>3, GrownWithin
<1>10. fresh => <<r.key, r.cnt>> \notin DOMAIN server.ins
  <2> SUFFICES ASSUME fresh, <<r.key, r.cnt>> \in DOMAIN server.ins PROVE FALSE
    OBVIOUS
  <2>1. Within(client, server)
    BY <1>2 DEF Tables
  <2>2. r.cnt < Count(client.ins, r.key)
    BY <2>1 DEF Within
  <2> QED BY <1>5, <1>6, <2>2
<1>11. fresh => \A v \in regular : Agree(KeyFor(client', v), client'.delKey, server, live[v], used[v])
  BY <1>2, <1>3 DEF Tables, Agreement
<1>12. regular' \subseteq regular => Nameless'
  <2>1. CASE setting.clean
    <3>1. key # NoKey
      BY <1>4, <2>1 DEF key
    <3> QED BY <1>1, <1>2, <1>3, <1>4, <1>7, <2>1, <3>1 DEF Nameless
  <2>2. CASE ~setting.clean
    BY <1>1, <1>4, <1>7, <2>2 DEF Nameless
  <2> QED BY <2>1, <2>2
<1>13. CASE setting.remote /\ Send([kind |-> "insert", st |-> "sent", w |-> w, req |-> r])
  <2>1. /\ call' = [kind |-> "insert", st |-> "sent", w |-> w, req |-> r]
        /\ UNCHANGED <<server, live, used, regular, fresh>>
    BY <1>13 DEF Send, ghosts
  <2>2. CallShape(call') /\ call'.kind = "insert" /\ ~Hung'
    BY <1>6, <2>1 DEF CallShape, Searches, Stages, Hung
  <2>3. Types'
    BY <1>1, <1>2, <1>8, <1>13, <2>1, <2>2 DEF Types
  <2>4. Asked'
    BY <1>3, <1>6, <2>1 DEF Asked
  <2>5. Tables'
    <3> SUFFICES ASSUME fresh PROVE Within(client, server)' /\ Own(server)' /\ Agreement' /\ InFlight'
      BY <2>1 DEF Tables
    <3>1. Agreement'
      BY <1>11, <2>1 DEF Agreement
    <3>2. InFlight'
      BY <1>10, <2>1 DEF InFlight
    <3> QED BY <1>2, <1>9, <2>1, <3>1, <3>2 DEF Tables
  <2>6. OneProcess' /\ SearchCompletes' /\ AnswerExact'
    BY <1>1, <1>2, <1>13, <2>2 DEF OneProcess, SearchCompletes, AnswerExact
  <2> QED BY <1>12, <2>1, <2>3, <2>4, <2>5, <2>6 DEF IInv
<1>14. CASE ~setting.remote /\ storeInsertion(w, r) /\ UNCHANGED call
  <2>1. /\ ServerOK(server') /\ regular' \in SUBSET regular /\ UNCHANGED fresh
        /\ live' \in [Keywords -> SUBSET Docs] /\ used' \in [Keywords -> SUBSET Docs]
        /\ Counted(client', server) => Counted(client', server')
        /\ Within(client', server) => Within(client', server')
        /\ /\ Own(server) /\ <<r.key, r.cnt>> \notin DOMAIN server.ins
           /\ \A v \in regular : Agree(KeyFor(client', v), client'.delKey, server, live[v], used[v])
           => /\ Own(server')
              /\ \A v \in regular' : Agree(KeyFor(client', v), client'.delKey, server', live'[v], used'[v])
    <3>1. updates + 1 \in Nat
      BY <1>2
    <3>2. r.key = KeyFor(client', w) /\ r.cnt < Count(client'.ins, r.key)
      BY <1>3, <1>5, <1>6 DEF key
    <3>3. \A v \in regular : KeyFor(client', v) # NoKey
      BY <1>2, <1>3, <1>4
    <3> QED BY <1>2, <1>3, <1>6, <1>14, <3>1, <3>2, <3>3, StoreInsertion
  <2>2. call' = Idle /\ CallShape(call') /\ ~Hung' /\ call'.kind = "idle"
    BY <1>1, <1>14 DEF CallShape, Idle, Searches, Hung
  <2>3. Types'
    BY <1>1, <1>2, <1>8, <1>14, <2>1, <2>2 DEF Types
  <2>4. Asked'
    BY <2>2 DEF Asked
  <2>5. Tables'
    <3> SUFFICES ASSUME fresh PROVE Within(client, server)' /\ Own(server)' /\ Agreement' /\ InFlight'
      BY <2>1 DEF Tables
    <3>1. Own(server') /\ Agreement'
      BY <1>2, <1>10, <1>11, <2>1 DEF Tables, Agreement
    <3>2. InFlight'
      BY <2>2 DEF InFlight
    <3> QED BY <1>2, <1>9, <2>1, <3>1, <3>2 DEF Tables
  <2>6. OneProcess' /\ SearchCompletes' /\ AnswerExact'
    BY <1>1, <1>2, <1>9, <1>14, <2>1, <2>2 DEF OneProcess, SearchCompletes, AnswerExact
  <2> QED BY <1>12, <2>1, <2>3, <2>4, <2>5, <2>6 DEF IInv
<1> QED BY <1>1, <1>13, <1>14

\* The server handles the request of an insertion.
LEMMA HandleInsert == IInv /\ handleInsert => IInv'
<1> SUFFICES ASSUME IInv, handleInsert PROVE IInv'
  OBVIOUS
<1>1. /\ call.kind = "insert" /\ call.st = "sent" /\ call' = [call EXCEPT !.st = "done"]
      /\ storeInsertion(call.w, call.req)
      /\ UNCHANGED <<setting, client, answer, updates>>
  BY DEF handleInsert, Serves, Reply, bounds
<1>2. /\ Types /\ Nameless /\ Asked /\ Tables /\ AnswerExact /\ setting.remote
      /\ ClientOK(client, updates) /\ ServerOK(server) /\ updates \in Nat
      /\ setting.usehdd \in BOOLEAN /\ regular \in SUBSET Keywords
      /\ live \in [Keywords -> SUBSET Docs] /\ used \in [Keywords -> SUBSET Docs]
  BY <1>1, UpdatesBound DEF IInv, Types
<1>3. PICK w, r : w = call.w /\ r = call.req
  OBVIOUS
<1>4. /\ w \in Keywords /\ r \in Request /\ w \in DOMAIN client.token
      /\ r.key = KeyFor(client, w) /\ r.cnt < Count(client.ins, r.key)
  <2>1. w \in Keywords /\ r \in Request
    BY <1>1, <1>2, <1>3 DEF Types, CallShape
  <2>2. /\ w \in DOMAIN client.token /\ r.key = client.token[w]
        /\ Count(client.ins, r.key) = r.cnt + 1
    BY <1>1, <1>2, <1>3 DEF Asked
  <2> QED BY <2>1, <2>2 DEF KeyFor, Request
<1>5. \A v \in regular : KeyFor(client, v) # NoKey
  BY <1>1, <1>2, NamedKeys DEF Searches
<1>6. /\ ServerOK(server') /\ regular' \in SUBSET regular /\ UNCHANGED fresh
      /\ live' \in [Keywords -> SUBSET Docs] /\ used' \in [Keywords -> SUBSET Docs]
      /\ Counted(client, server) => Counted(client, server')
      /\ Within(client, server) => Within(client, server')
      /\ /\ Own(server) /\ <<r.key, r.cnt>> \notin DOMAIN server.ins
         /\ \A v \in regular : Agree(KeyFor(client, v), client.delKey, server, live[v], used[v])
         => /\ Own(server')
            /\ \A v \in regular' : Agree(KeyFor(client, v), client.delKey, server', live'[v], used'[v])
  BY <1>1, <1>2, <1>3, <1>4, <1>5, StoreInsertion
<1>7. /\ CallShape(call') /\ Nameless' /\ Asked' /\ ~Hung'
      /\ call'.kind = "insert" /\ call'.st = "done"
  BY <1>1, <1>2, <1>6, RestagedCall DEF Stages
<1>8. Types'
  BY <1>1, <1>2, <1>6, <1>7 DEF Types
<1>9. Tables'
  <2> SUFFICES ASSUME fresh PROVE Within(client, server)' /\ Own(server)' /\ Agreement' /\ InFlight'
    BY <1>6 DEF Tables
  <2>1. <<r.key, r.cnt>> \notin DOMAIN server.ins
    BY <1>1, <1>2, <1>3 DEF Tables, InFlight
  <2>2. Within(client', server') /\ Own(server') /\ Agreement'
    BY <1>1, <1>2, <1>6, <2>1 DEF Tables, Agreement
  <2>3. InFlight'
    BY <1>7 DEF InFlight
  <2> QED BY <2>2, <2>3
<1>10. OneProcess' /\ SearchCompletes' /\ AnswerExact'
  BY <1>1, <1>2, <1>7 DEF OneProcess, SearchCompletes, AnswerExact
<1> QED BY <1>7, <1>8, <1>9, <1>10 DEF IInv


DelRequest == [token : DelKeys \X Keys \X Nat, target : Keys \X Docs]

\* A deletion is stored, for the client c whose counters include it.
LEMMA StoreDeletion ==
    ASSUME NEW c, NEW u \in Nat, ClientOK(c, u), ServerOK(server), NEW w \in Keywords,
           NEW r \in DelRequest, r.token[1] = c.delKey, r.token[2] = KeyFor(c, w),
           r.target[1] = r.token[2], r.token[3] < Count(c.del, r.token[2]),
           storeDeletion(w, r), setting.usehdd \in BOOLEAN, regular \in SUBSET Keywords,
           live \in [Keywords -> SUBSET Docs], used \in [Keywords -> SUBSET Docs],
           \A v \in regular : KeyFor(c, v) # NoKey
    PROVE  /\ ServerOK(server') /\ regular' \in SUBSET regular /\ UNCHANGED fresh
           /\ live' \in [Keywords -> SUBSET Docs] /\ used' \in [Keywords -> SUBSET Docs]
           /\ Counted(c, server) => Counted(c, server')
           /\ Within(c, server) => Within(c, server')
           /\ /\ Own(server) /\ r.token \notin DOMAIN server.del
              /\ \A v \in regular : Agree(KeyFor(c, v), c.delKey, server, live[v], used[v])
              => /\ Own(server')
                 /\ \A v \in regular' : Agree(KeyFor(c, v), c.delKey, server', live'[v], used'[v])
<1>1. /\ server' = Delete(server, r, setting.usehdd)
      /\ live' = [live EXCEPT ![w] = @ \ {r.target[2]}]
      /\ regular' = IF r.target[2] \in live[w] THEN regular ELSE regular \ {w}
      /\ UNCHANGED <<used, fresh>>
  BY DEF storeDeletion
<1>2. PICK token, target : token = r.token /\ target = r.target
  OBVIOUS
<1>3. token \in DelKeys \X Keys \X Nat /\ target \in Keys \X Docs
  BY <1>2 DEF DelRequest
<1>4. Deletes(server, server', token, target)
  BY <1>1, <1>2, DeleteDeletes
<1>5. /\ ServerOK(server')
      /\ Within(c, server) => Within(c, server')
      /\ Counted(c, server) => Counted(c, server')
      /\ Own(server) => Own(server')
  BY <1>2, <1>3, <1>4, DeletesOK
<1>6. /\ live' \in [Keywords -> SUBSET Docs] /\ used' \in [Keywords -> SUBSET Docs]
      /\ regular' \in SUBSET regular /\ (w \in regular' => target[2] \in live[w])
      /\ \A v \in Keywords : v # w => live'[v] = live[v]
      /\ live'[w] = live[w] \ {target[2]} /\ used' = used
  BY <1>1, <1>2
<1>7. ASSUME token \notin DOMAIN server.del,
             \A v \in regular : Agree(KeyFor(c, v), c.delKey, server, live[v], used[v]),
             NEW v \in regular'
      PROVE  Agree(KeyFor(c, v), c.delKey, server', live'[v], used'[v])
  <2>1. v \in regular /\ v \in Keywords
    BY <1>6
  <2>2. Agree(KeyFor(c, v), c.delKey, server, live[v], used[v])
    BY <1>7, <2>1
  <2>3. CASE v = w
    <3>1. target[2] \in live[w]
      BY <1>6, <2>3
    <3>2. Agree(KeyFor(c, w), c.delKey, server, live[w], used[w])
      BY <2>2, <2>3
    <3>3. Agree(KeyFor(c, w), c.delKey, server', live[w] \ {target[2]}, used[w])
      BY <1>2, <1>4, <1>7, <3>1, <3>2, DeletesAgree
    <3> QED BY <1>6, <2>3, <3>3
  <2>4. CASE v # w
    <3>1. KeyFor(c, v) # token[2]
      <4>1. /\ KeyFor(c, v) = NoKey \/ KeyFor(c, v).word = v
            /\ KeyFor(c, w) = NoKey \/ KeyFor(c, w).word = w
        BY <2>1, KeyForFacts
      <4> QED BY <1>2, <2>1, <2>4, <4>1
    <3>2. Agree(KeyFor(c, v), c.delKey, server', live[v], used[v])
      BY <1>4, <2>2, <3>1, DeletesAgree
    <3> QED BY <1>6, <2>1, <2>4, <3>2
  <2> QED BY <2>3, <2>4
<1> QED BY <1>1, <1>2, <1>5, <1>6, <1>7

\* deleteKeyword, in one process or as a request.
LEMMA DeleteKeyword ==
    ASSUME NEW w \in Keywords, NEW d \in Docs
    PROVE  IInv /\ deleteKeyword(w, d) => IInv'
<1> SUFFICES ASSUME IInv, deleteKeyword(w, d) PROVE IInv'
  OBVIOUS
<1> DEFINE r == Deletion(client, w, d)
           key == KeyFor(client, w)
<1>1. /\ call = Idle /\ updates < MaxUpdates /\ updates' = updates + 1
      /\ client' = AfterDeletion(client, w)
      /\ \/ setting.remote /\ Send([kind |-> "delete", st |-> "sent", w |-> w, req |-> r])
         \/ ~setting.remote /\ storeDeletion(w, r) /\ UNCHANGED call
      /\ UNCHANGED <<setting, answer>>
  BY DEF deleteKeyword
<1>2. /\ Types /\ Nameless /\ OneProcess /\ Tables /\ AnswerExact
      /\ ClientOK(client, updates) /\ ServerOK(server) /\ updates \in Nat /\ updates \in 0..MaxUpdates
      /\ setting.usehdd \in BOOLEAN /\ regular \in SUBSET Keywords /\ MaxUpdates \in Nat
      /\ live \in [Keywords -> SUBSET Docs] /\ used \in [Keywords -> SUBSET Docs]
  BY UpdatesBound DEF IInv, Types
<1>3. /\ ClientOK(client', updates + 1)
      /\ Grown(client, client')
      /\ w \in DOMAIN client'.token /\ client'.token[w] = key /\ client'.delKey = client.delKey
      /\ Count(client'.del, key) = Count(client.del, key) + 1
      /\ DOMAIN client'.del = DOMAIN client.del \cup {key} /\ client'.ins = client.ins
      /\ \A v \in Keywords : KeyFor(client', v) = KeyFor(client, v)
      /\ DOMAIN client'.token = DOMAIN client.token \cup {w}
  BY <1>1, <1>2, AfterDeletionOK
<1>4. /\ \A v \in regular : KeyFor(client, v) # NoKey
      /\ setting.clean => \A v \in Keywords : KeyFor(client, v) # NoKey
  BY <1>1, <1>2, NamedKeys DEF Idle, Searches
<1>5. /\ key \in Keys /\ Count(client.del, key) \in Nat /\ client.delKey \in DelKeys
      /\ r = [token |-> <<client.delKey, key, Count(client.del, key)>>, target |-> <<key, d>>]
  <2>1. key \in Keys
    BY <1>2, KeyForFacts
  <2>2. Count(client.del, key) \in Nat
    BY <1>2, CountFacts DEF ClientOK
  <2>3. client.delKey \in DelKeys
    BY <1>2 DEF ClientOK
  <2> QED BY <2>1, <2>2, <2>3 DEF Deletion
<1> HIDE DEF r, key
<1>6. /\ r \in DelRequest /\ r.token[1] = client.delKey /\ r.token[2] = key
      /\ r.token[3] = Count(client.del, key) /\ r.target[1] = key
  BY <1>5 DEF DelRequest
<1>7. \A v \in DOMAIN client'.token : v \in Keywords /\ client'.token[v] = KeyFor(client, v)
  <2>1. DOMAIN client'.token \subseteq Keywords
    BY <1>3 DEF ClientOK
  <2>2. \A v \in DOMAIN client'.token : KeyFor(client', v) = client'.token[v]
    BY DEF KeyFor
  <2> QED BY <1>3, <2>1, <2>2
<1>8. updates' \in 0..MaxUpdates /\ ClientOK(client', updates')
  BY <1>1, <1>2, <1>3
<1>9. /\ Within(client, server) => Within(client', server)
      /\ Counted(client, server) => Counted(client', server)
  BY <1>2, <1>3, GrownWithin
<1>10. fresh => r.token \notin DOMAIN server.del
  <2> SUFFICES ASSUME fresh, r.token \in DOMAIN server.del PROVE FALSE
    OBVIOUS
  <2>1. Within(client, server)
    BY <1>2 DEF Tables
  <2>2. r.token[3] < Count(client.del, r.token[2])
    BY <1>6, <2>1 DEF Within
  <2> QED BY <1>5, <1>6, <2>2
<1>11. fresh => \A v \in regular : Agree(KeyFor(client', v), client'.delKey, server, live[v], used[v])
  BY <1>2, <1>3 DEF Tables, Agreement
<1>12. regular' \subseteq regular => Nameless'
  <2>1. CASE setting.clean
    <3>1. key # NoKey
      BY <1>4, <2>1 DEF key
    <3> QED BY <1>1, <1>2, <1>3, <1>4, <1>7, <2>1, <3>1 DEF Nameless
  <2>2. CASE ~setting.clean
    BY <1>1, <1>4, <1>7, <2>2 DEF Nameless
  <2> QED BY <2>1, <2>2
<1>13. CASE setting.remote /\ Send([kind |-> "delete", st |-> "sent", w |-> w, req |-> r])
  <2>1. /\ call' = [kind |-> "delete", st |-> "sent", w |-> w, req |-> r]
        /\ UNCHANGED <<server, live, used, regular, fresh>>
    BY <1>13 DEF Send, ghosts
  <2>2. CallShape(call') /\ call'.kind = "delete" /\ ~Hung'
    BY <1>6, <2>1 DEF CallShape, Searches, Stages, Hung, DelRequest
  <2>3. Types'
    BY <1>1, <1>2, <1>8, <1>13, <2>1, <2>2 DEF Types
  <2>4. Asked'
    BY <1>3, <1>6, <2>1 DEF Asked
  <2>5. Tables'
    <3> SUFFICES ASSUME fresh PROVE Within(client, server)' /\ Own(server)' /\ Agreement' /\ InFlight'
      BY <2>1 DEF Tables
    <3>1. Agreement'
      BY <1>11, <2>1 DEF Agreement
    <3>2. InFlight'
      BY <1>10, <2>1 DEF InFlight
    <3> QED BY <1>2, <1>9, <2>1, <3>1, <3>2 DEF Tables
  <2>6. OneProcess' /\ SearchCompletes' /\ AnswerExact'
    BY <1>1, <1>2, <1>13, <2>2 DEF OneProcess, SearchCompletes, AnswerExact
  <2> QED BY <1>12, <2>1, <2>3, <2>4, <2>5, <2>6 DEF IInv
<1>14. CASE ~setting.remote /\ storeDeletion(w, r) /\ UNCHANGED call
  <2>1. /\ ServerOK(server') /\ regular' \in SUBSET regular /\ UNCHANGED fresh
        /\ live' \in [Keywords -> SUBSET Docs] /\ used' \in [Keywords -> SUBSET Docs]
        /\ Counted(client', server) => Counted(client', server')
        /\ Within(client', server) => Within(client', server')
        /\ /\ Own(server) /\ r.token \notin DOMAIN server.del
           /\ \A v \in regular : Agree(KeyFor(client', v), client'.delKey, server, live[v], used[v])
           => /\ Own(server')
              /\ \A v \in regular' : Agree(KeyFor(client', v), client'.delKey, server', live'[v], used'[v])
    <3>1. updates + 1 \in Nat
      BY <1>2
    <3>2. /\ r.token[1] = client'.delKey /\ r.token[2] = KeyFor(client', w)
          /\ r.target[1] = r.token[2] /\ r.token[3] < Count(client'.del, r.token[2])
      BY <1>3, <1>5, <1>6 DEF key
    <3>3. \A v \in regular : KeyFor(client', v) # NoKey
      BY <1>2, <1>3, <1>4
    <3> QED BY <1>2, <1>3, <1>6, <1>14, <3>1, <3>2, <3>3, StoreDeletion
  <2>2. call' = Idle /\ CallShape(call') /\ ~Hung' /\ call'.kind = "idle"
    BY <1>1, <1>14 DEF CallShape, Idle, Searches, Hung
  <2>3. Types'
    BY <1>1, <1>2, <1>8, <1>14, <2>1, <2>2 DEF Types
  <2>4. Asked'
    BY <2>2 DEF Asked
  <2>5. Tables'
    <3> SUFFICES ASSUME fresh PROVE Within(client, server)' /\ Own(server)' /\ Agreement' /\ InFlight'
      BY <2>1 DEF Tables
    <3>1. Own(server') /\ Agreement'
      BY <1>2, <1>10, <1>11, <2>1 DEF Tables, Agreement
    <3>2. InFlight'
      BY <2>2 DEF InFlight
    <3> QED BY <1>2, <1>9, <2>1, <3>1, <3>2 DEF Tables
  <2>6. OneProcess' /\ SearchCompletes' /\ AnswerExact'
    BY <1>1, <1>2, <1>9, <1>14, <2>1, <2>2 DEF OneProcess, SearchCompletes, AnswerExact
  <2> QED BY <1>12, <2>1, <2>3, <2>4, <2>5, <2>6 DEF IInv
<1> QED BY <1>1, <1>13, <1>14

\* The server handles the request of a deletion.
LEMMA HandleDelete == IInv /\ handleDelete => IInv'
<1> SUFFICES ASSUME IInv, handleDelete PROVE IInv'
  OBVIOUS
<1>1. /\ call.kind = "delete" /\ call.st = "sent" /\ call' = [call EXCEPT !.st = "done"]
      /\ storeDeletion(call.w, call.req)
      /\ UNCHANGED <<setting, client, answer, updates>>
  BY DEF handleDelete, Serves, Reply, bounds
<1>2. /\ Types /\ Nameless /\ Asked /\ Tables /\ AnswerExact /\ setting.remote
      /\ ClientOK(client, updates) /\ ServerOK(server) /\ updates \in Nat
      /\ setting.usehdd \in BOOLEAN /\ regular \in SUBSET Keywords
      /\ live \in [Keywords -> SUBSET Docs] /\ used \in [Keywords -> SUBSET Docs]
  BY <1>1, UpdatesBound DEF IInv, Types
<1>3. PICK w, r : w = call.w /\ r = call.req
  OBVIOUS
<1>4. /\ w \in Keywords /\ r \in DelRequest /\ w \in DOMAIN client.token
      /\ r.token[1] = client.delKey /\ r.token[2] = KeyFor(client, w)
      /\ r.target[1] = r.token[2] /\ r.token[3] < Count(client.del, r.token[2])
  <2>1. w \in Keywords /\ r \in DelRequest
    BY <1>1, <1>2, <1>3 DEF Types, CallShape, DelRequest
  <2>2. /\ w \in DOMAIN client.token /\ r.token[2] = client.token[w]
        /\ r.token[1] = client.delKey /\ r.target[1] = client.token[w]
        /\ Count(client.del, r.token[2]) = r.token[3] + 1
    BY <1>1, <1>2, <1>3 DEF Asked
  <2>3. r.token[3] \in Nat
    BY <2>1 DEF DelRequest
  <2> QED BY <2>1, <2>2, <2>3 DEF KeyFor
<1>5. \A v \in regular : KeyFor(client, v) # NoKey
  BY <1>1, <1>2, NamedKeys DEF Searches
<1>6. /\ ServerOK(server') /\ regular' \in SUBSET regular /\ UNCHANGED fresh
      /\ live' \in [Keywords -> SUBSET Docs] /\ used' \in [Keywords -> SUBSET Docs]
      /\ Counted(client, server) => Counted(client, server')
      /\ Within(client, server) => Within(client, server')
      /\ /\ Own(server) /\ r.token \notin DOMAIN server.del
         /\ \A v \in regular : Agree(KeyFor(client, v), client.delKey, server, live[v], used[v])
         => /\ Own(server')
            /\ \A v \in regular' : Agree(KeyFor(client, v), client.delKey, server', live'[v], used'[v])
  BY <1>1, <1>2, <1>3, <1>4, <1>5, StoreDeletion
<1>7. /\ CallShape(call') /\ Nameless' /\ Asked' /\ ~Hung'
      /\ call'.kind = "delete" /\ call'.st = "done"
  BY <1>1, <1>2, <1>6, RestagedCall DEF Stages
<1>8. Types'
  BY <1>1, <1>2, <1>6, <1>7 DEF Types
<1>9. Tables'
  <2> SUFFICES ASSUME fresh PROVE Within(client, server)' /\ Own(server)' /\ Agreement' /\ InFlight'
    BY <1>6 DEF Tables
  <2>1. r.token \notin DOMAIN server.del
    BY <1>1, <1>2, <1>3 DEF Tables, InFlight
  <2>2. Within(client', server') /\ Own(server') /\ Agreement'
    BY <1>1, <1>2, <1>6, <2>1 DEF Tables, Agreement
  <2>3. InFlight'
    BY <1>7 DEF InFlight
  <2> QED BY <2>2, <2>3
<1>10. OneProcess' /\ SearchCompletes' /\ AnswerExact'
  BY <1>1, <1>2, <1>7 DEF OneProcess, SearchCompletes, AnswerExact
<1> QED BY <1>7, <1>8, <1>9, <1>10 DEF IInv

-----------------------------------------------------------------------------
\* Re-insertions.

\* The results of a cleaning search are stored under a key that was never used.
LEMMA StoreBatch ==
    ASSUME NEW c, NEW u \in Nat, ClientOK(c, u), ServerOK(server), NEW w \in DOMAIN c.token,
           NEW reqs \in Seq(Request), NEW key, key = c.token[w], key \in Keys, key # NoKey,
           key \notin DOMAIN c.del, Count(c.ins, key) = Len(reqs),
           \A i \in DOMAIN reqs : reqs[i].key = key /\ reqs[i].cnt = i - 1,
           setting.usehdd \in BOOLEAN, server' = InsertAll(server, reqs, setting.usehdd)
    PROVE  /\ ServerOK(server')
           /\ Counted(c, server) => Counted(c, server')
           /\ Within(c, server) => Within(c, server')
           /\ Unused(key) /\ Own(server) => Own(server')
           /\ \A L, U : \A v \in Keywords :
                 /\ v # w
                 /\ Agree(KeyFor(c, v), c.delKey, server, L, U)
                 => Agree(KeyFor(c, v), c.delKey, server', L, U)
           /\ \A L :
                 /\ Unused(key) /\ Within(c, server)
                 /\ Exactly([i \in DOMAIN reqs |-> reqs[i].doc], L)
                 => Agree(key, c.delKey, server', L, L)
<1> DEFINE R == {reqs[i] : i \in DOMAIN reqs}
<1>1. Stores(server, server', key, R)
  BY InsertAllStores
<1>2. DOMAIN reqs = 1..Len(reqs) /\ Len(reqs) \in Nat /\ \A i \in DOMAIN reqs : reqs[i] \in Request
  BY ElementOfSeq, LenProperties
<1>3. R \in SUBSET Request
  BY <1>2
<1>4. ServerOK(server')
  <2> HIDE DEF R
  <2> QED BY <1>1, <1>3, StoresOK
<1>5. \A r \in R : r.cnt < Count(c.ins, key)
  BY <1>2
<1>6. /\ Within(c, server) => Within(c, server')
      /\ Counted(c, server) => Counted(c, server')
  <2> HIDE DEF R
  <2> QED BY <1>1, <1>5, StoresWithin
<1>7. \A q, r \in R : q.cnt = r.cnt => q = r
  BY <1>2
<1>8. ASSUME Unused(key), Own(server) PROVE Own(server')
  <2> HIDE DEF R
  <2>1. \A r \in R : <<key, r.cnt>> \notin DOMAIN server.ins
    BY <1>8 DEF Unused
  <2> QED BY <1>1, <1>7, <1>8, <2>1, StoresOwn
<1>9. ASSUME NEW v \in Keywords, NEW L, NEW U, v # w,
             Agree(KeyFor(c, v), c.delKey, server, L, U)
      PROVE  Agree(KeyFor(c, v), c.delKey, server', L, U)
  <2>1. w \in Keywords
    BY DEF ClientOK
  <2>2. KeyFor(c, v) # key
    <3>1. /\ KeyFor(c, v) = NoKey \/ KeyFor(c, v).word = v
          /\ KeyFor(c, w) = NoKey \/ KeyFor(c, w).word = w
          /\ KeyFor(c, w) = key
      BY <2>1, KeyForFacts
    <3> QED BY <1>9, <3>1
  <2> HIDE DEF R
  <2> QED BY <1>1, <1>9, <2>2, StoresElsewhere
<1>10. ASSUME NEW L, Unused(key), Within(c, server),
              Exactly([i \in DOMAIN reqs |-> reqs[i].doc], L)
       PROVE  Agree(key, c.delKey, server', L, L)
  <2> DEFINE docs == [i \in DOMAIN reqs |-> reqs[i].doc]
  <2>1. \A t \in DOMAIN server.ins : t[1] # key
    BY <1>10 DEF Unused
  <2>2. \A t \in DOMAIN server.del : t[1] = c.delKey => t[2] # key
    <3> SUFFICES ASSUME NEW t \in DOMAIN server.del, t[1] = c.delKey, t[2] = key PROVE FALSE
      OBVIOUS
    <3>1. t[3] \in Nat
      BY DEF ServerOK
    <3>2. t[3] < Count(c.del, key)
      BY <1>10 DEF Within
    <3>3. Count(c.del, key) = 0
      BY DEF Count
    <3> QED BY <3>1, <3>2, <3>3
  <2>3. IsInjective(docs) /\ ToSet(docs) = L
    BY <1>10 DEF Exactly
  <2>4. L = {r.doc : r \in R}
    BY <2>3 DEF ToSet
  <2>5. \A q, r \in R : q.doc = r.doc => q = r
    BY <2>3 DEF IsInjective
  <2> HIDE DEF R
  <2> QED BY <1>1, <2>1, <2>2, <2>4, <2>5, StoresBatch
<1> QED BY <1>4, <1>6, <1>8, <1>9, <1>10

\* The server handles the batch.
LEMMA HandleBatchInsert == IInv /\ handleBatchInsert => IInv'
<1> SUFFICES ASSUME IInv, handleBatchInsert PROVE IInv'
  OBVIOUS
<1>1. /\ call.kind = "batch" /\ call.st = "sent" /\ call' = [call EXCEPT !.st = "done"]
      /\ server' = InsertAll(server, call.reqs, setting.usehdd)
      /\ used' = [used EXCEPT ![call.w] = {call.reqs[i].doc : i \in DOMAIN call.reqs}]
      /\ regular' = IF call.keep THEN regular \cup {call.w} ELSE regular
      /\ UNCHANGED <<setting, client, answer, updates, live, fresh>>
  BY DEF handleBatchInsert, Serves, Reply, bounds
<1>2. /\ Types /\ Nameless /\ Asked /\ Tables /\ AnswerExact /\ setting.remote
      /\ ClientOK(client, updates) /\ ServerOK(server) /\ updates \in Nat /\ CallShape(call)
      /\ setting.usehdd \in BOOLEAN /\ regular \in SUBSET Keywords
      /\ live \in [Keywords -> SUBSET Docs] /\ used \in [Keywords -> SUBSET Docs]
  BY <1>1, UpdatesBound DEF IInv, Types
<1>3. PICK w, reqs, key : w = call.w /\ reqs = call.reqs /\ key = client.token[call.w]
  OBVIOUS
<1>4. w \in Keywords /\ reqs \in Seq(Request) /\ call.keep \in BOOLEAN
  BY <1>1, <1>2, <1>3 DEF CallShape
<1>5. /\ w \in DOMAIN client.token /\ key # NoKey
      /\ key \notin DOMAIN client.del /\ Count(client.ins, key) = Len(reqs)
      /\ \A i \in DOMAIN reqs : reqs[i].key = key /\ reqs[i].cnt = i - 1
  BY <1>1, <1>2, <1>3 DEF Asked
<1>6. key \in Keys
  <2>1. KeyFor(client, w) \in Keys /\ KeyFor(client, w) = client.token[w]
    BY <1>2, <1>4, <1>5, KeyForFacts
  <2> QED BY <1>3, <2>1
<1>7. /\ ServerOK(server')
      /\ Counted(client, server) => Counted(client, server')
      /\ Within(client, server) => Within(client, server')
      /\ Unused(key) /\ Own(server) => Own(server')
      /\ \A L, U : \A v \in Keywords :
            /\ v # w
            /\ Agree(KeyFor(client, v), client.delKey, server, L, U)
            => Agree(KeyFor(client, v), client.delKey, server', L, U)
      /\ \A L :
            /\ Unused(key) /\ Within(client, server)
            /\ Exactly([i \in DOMAIN reqs |-> reqs[i].doc], L)
            => Agree(key, client.delKey, server', L, L)
  <2>1. server' = InsertAll(server, reqs, setting.usehdd)
    BY <1>1, <1>3
  <2> QED BY <1>2, <1>3, <1>4, <1>5, <1>6, <2>1, StoreBatch
<1>8. /\ CallShape(call') /\ call'.kind = "batch" /\ call'.st = "done" /\ call'.w = call.w
      /\ call'.out = call.out /\ call'.reqs = call.reqs /\ call'.keep = call.keep
  BY <1>1, <1>2, Restaged DEF Stages
<1>9. Nameless' /\ Asked'
  <2>1. Asked'
    BY <1>1, <1>2, <1>8 DEF Asked
  <2>2. CASE setting.clean
    <3>1. Nameless'
      BY <1>1, <1>2, <1>8, <2>2 DEF Nameless, Searches
    <3> QED BY <2>1, <3>1
  <2>3. CASE ~setting.clean
    <3>1. \A v \in regular \cap DOMAIN client.token : client.token[v] # NoKey
      BY <1>2, <2>3 DEF Nameless
    <3>2. Nameless'
      BY <1>1, <1>3, <1>5, <2>3, <3>1 DEF Nameless
    <3> QED BY <2>1, <3>2
  <2> QED BY <2>2, <2>3
<1>10. ~Hung'
  <2>1. Hung' => call'.kind = "hung" \/ call'.st = "hung"
    BY DEF Hung
  <2> QED BY <1>8, <2>1
<1>11. /\ used' \in [Keywords -> SUBSET Docs] /\ regular' \in SUBSET Keywords
       /\ used'[w] = {reqs[i].doc : i \in DOMAIN reqs}
       /\ \A v \in Keywords : v # w => used'[v] = used[v] /\ (v \in regular' => v \in regular)
       /\ w \in regular' => call.keep \/ w \in regular
  <2>1. \A i \in DOMAIN reqs : reqs[i].doc \in Docs
    <3>1. \A i \in DOMAIN reqs : reqs[i] \in Request
      BY <1>4, ElementOfSeq, LenProperties
    <3> QED BY <3>1 DEF Request
  <2> QED BY <1>1, <1>2, <1>3, <1>4, <2>1
<1>12. Types'
  BY <1>1, <1>2, <1>7, <1>8, <1>11 DEF Types
<1>13. Tables'
  <2> SUFFICES ASSUME fresh PROVE Within(client, server)' /\ Own(server)' /\ Agreement' /\ InFlight'
    BY <1>1 DEF Tables
  <2>1. Within(client, server) /\ Own(server) /\ Agreement /\ InFlight
    BY <1>2 DEF Tables
  <2>2. /\ Unused(key) /\ w \notin regular
        /\ call.keep => Exactly([i \in DOMAIN reqs |-> reqs[i].doc], live[w])
    BY <1>1, <1>3, <2>1 DEF InFlight
  <2>3. Agreement'
    <3> SUFFICES ASSUME NEW v \in regular'
                 PROVE  Agree(KeyFor(client, v), client.delKey, server', live[v], used'[v])
      BY <1>1 DEF Agreement
    <3>1. CASE v = w
      <4>1. Exactly([i \in DOMAIN reqs |-> reqs[i].doc], live[w])
        BY <1>11, <2>2, <3>1
      <4>2. used'[w] = live[w]
        BY <1>11, <4>1 DEF Exactly, ToSet
      <4>3. Agree(key, client.delKey, server', live[w], live[w])
        BY <1>7, <2>1, <2>2, <4>1
      <4>4. KeyFor(client, w) = key
        BY <1>3, <1>5 DEF KeyFor
      <4> QED BY <3>1, <4>2, <4>3, <4>4
    <3>2. CASE v # w
      <4>1. v \in Keywords /\ v \in regular /\ used'[v] = used[v]
        BY <1>11, <3>2
      <4>2. Agree(KeyFor(client, v), client.delKey, server, live[v], used[v])
        BY <2>1, <4>1 DEF Agreement
      <4> QED BY <1>7, <3>2, <4>1, <4>2
    <3> QED BY <3>1, <3>2
  <2>4. InFlight'
    BY <1>8 DEF InFlight
  <2> QED BY <1>1, <1>7, <2>1, <2>2, <2>3, <2>4
<1>14. OneProcess' /\ SearchCompletes' /\ AnswerExact'
  BY <1>1, <1>2, <1>8, <1>10 DEF OneProcess, SearchCompletes, AnswerExact
<1> QED BY <1>9, <1>12, <1>13, <1>14 DEF IInv

-----------------------------------------------------------------------------
\* Searches of the model.

\* Nothing is stored under a key that the client never used.
LEMMA NeverUsed ==
    ASSUME NEW c, NEW s, ServerOK(s), Within(c, s), NEW key, key \notin DOMAIN c.ins
    PROVE  /\ \A t \in DOMAIN s.ins : t[1] # key
           /\ \A L, U : Own(s) /\ Agree(key, c.delKey, s, L, U) => L = {} /\ U = {}
           /\ key \notin DOMAIN c.del => Agree(key, c.delKey, s, {}, {})
<1>1. \A t \in DOMAIN s.ins : t[1] # key
  <2> SUFFICES ASSUME NEW t \in DOMAIN s.ins, t[1] = key PROVE FALSE
    OBVIOUS
  <2>1. t[2] \in Nat
    BY DEF ServerOK
  <2>2. t[2] < 0
    BY DEF Within, Count
  <2> QED BY <2>1, <2>2
<1>2. ASSUME NEW L, NEW U, Own(s), Agree(key, c.delKey, s, L, U) PROVE L = {} /\ U = {}
  <2>1. \A d \in U : <<key, d>> \in DOMAIN s.cnt
    BY <1>2 DEF Agree
  <2>2. ASSUME NEW d \in U PROVE FALSE
    <3>1. <<<<key, d>>[1], s.cnt[<<key, d>>]>> \in DOMAIN s.ins
      BY <1>2, <2>1 DEF Own
    <3> QED BY <1>1, <3>1
  <2>3. L \subseteq U
    BY <1>2 DEF Agree
  <2> QED BY <2>2, <2>3
<1>3. ASSUME key \notin DOMAIN c.del PROVE Agree(key, c.delKey, s, {}, {})
  <2>1. \A t \in DOMAIN s.del : t[1] = c.delKey => t[2] # key
    <3> SUFFICES ASSUME NEW t \in DOMAIN s.del, t[1] = c.delKey, t[2] = key PROVE FALSE
      OBVIOUS
    <3>1. t[3] \in Nat
      BY DEF ServerOK
    <3>2. t[3] < 0
      BY <1>3 DEF Within, Count
    <3> QED BY <3>1, <3>2
  <2> QED BY <1>1, <2>1 DEF Agree
<1> QED BY <1>1, <1>2, <1>3

\* A search looks its keyword up, which names it NoKey if it has no key yet.
LEMMA LookUp ==
    ASSUME Types, Nameless, Tables, call.kind = "idle", NEW w \in Keywords,
           NEW c, c = LookedUp(client, w), NEW reg, reg = regular \ Irregular(w)
    PROVE  /\ ClientOK(c, updates) /\ w \in DOMAIN c.token
           /\ c.token[w] \in Keys /\ KeyFor(c, w) = c.token[w]
           /\ reg \in SUBSET regular
           /\ c.ins = client.ins /\ c.del = client.del /\ c.delKey = client.delKey
           /\ Counted(client, server) => Counted(c, server)
           /\ fresh => /\ Within(c, server) /\ Own(server)
                       /\ \A v \in reg : Agree(KeyFor(c, v), c.delKey, server, live[v], used[v])
           /\ IF setting.clean
              THEN /\ NoKey \notin DOMAIN c.ins \cup DOMAIN c.del
                   /\ \A v \in DOMAIN c.token : c.token[v] = NoKey => v = w
              ELSE \A v \in reg \cap DOMAIN c.token : c.token[v] # NoKey
<1>1. /\ ClientOK(client, updates) /\ updates \in Nat /\ ServerOK(server)
      /\ regular \in SUBSET Keywords
  BY UpdatesBound DEF Types
<1>2. /\ ClientOK(c, updates) /\ Grown(client, c)
      /\ c.ins = client.ins /\ c.del = client.del /\ c.delKey = client.delKey
      /\ DOMAIN c.token = DOMAIN client.token \cup {w}
      /\ c.token[w] = IF w \in DOMAIN client.token THEN client.token[w] ELSE NoKey
      /\ \A v \in DOMAIN client.token : c.token[v] = client.token[v]
      /\ \A v \in Keywords : v # w => KeyFor(c, v) = KeyFor(client, v)
  BY <1>1, LookedUpOK
<1>3. /\ KeyFor(c, w) \in Keys /\ KeyFor(c, w) = c.token[w]
  BY <1>1, <1>2, KeyForFacts
<1>4. /\ Counted(client, server) => Counted(c, server)
      /\ Within(client, server) => Within(c, server)
  BY <1>1, <1>2, GrownWithin
<1>5. reg \in SUBSET regular /\ (~setting.clean /\ w \in reg => w \in DOMAIN client.token)
  BY DEF Irregular
<1>6. CASE setting.clean
  <2>1. /\ NoKey \notin DOMAIN client.ins \cup DOMAIN client.del
        /\ \A v \in DOMAIN client.token : client.token[v] # NoKey
    BY <1>6 DEF Nameless, Searches
  <2>2. /\ NoKey \notin DOMAIN c.ins \cup DOMAIN c.del
        /\ \A v \in DOMAIN c.token : c.token[v] = NoKey => v = w
    BY <1>2, <2>1
  <2>3. ASSUME fresh
        PROVE  /\ Within(c, server) /\ Own(server)
               /\ \A v \in reg : Agree(KeyFor(c, v), c.delKey, server, live[v], used[v])
    <3>1. Within(client, server) /\ Within(c, server) /\ Own(server) /\ Agreement
      BY <1>4, <2>3 DEF Tables
    <3> SUFFICES ASSUME NEW v \in reg
                 PROVE  Agree(KeyFor(c, v), c.delKey, server, live[v], used[v])
      BY <3>1
    <3>2. v \in Keywords /\ Agree(KeyFor(client, v), client.delKey, server, live[v], used[v])
      BY <1>1, <1>5, <3>1 DEF Agreement
    <3>3. CASE v # w
      BY <1>2, <3>2, <3>3
    <3>4. CASE v = w /\ w \in DOMAIN client.token
      <4>1. KeyFor(client, w) = client.token[w]
        BY <3>4 DEF KeyFor
      <4>2. KeyFor(c, w) = KeyFor(client, w)
        BY <1>2, <1>3, <3>4, <4>1
      <4> QED BY <1>2, <3>2, <3>4, <4>2
    <3>5. CASE v = w /\ w \notin DOMAIN client.token
      <4>1. KeyFor(client, w) \notin DOMAIN client.ins
        BY <1>1, <3>5, KeyForFacts
      <4>2. live[w] = {} /\ used[w] = {}
        BY <1>1, <3>1, <3>2, <3>5, <4>1, NeverUsed
      <4>3. KeyFor(c, w) = NoKey
        BY <1>2, <1>3, <3>5
      <4>4. Agree(NoKey, c.delKey, server, {}, {})
        BY <1>1, <2>2, <3>1, NeverUsed
      <4> QED BY <3>5, <4>2, <4>3, <4>4
    <3> QED BY <3>3, <3>4, <3>5
  <2> QED BY <1>2, <1>3, <1>4, <1>5, <1>6, <2>2, <2>3
<1>7. CASE ~setting.clean
  <2>1. \A v \in regular \cap DOMAIN client.token : client.token[v] # NoKey
    BY <1>7 DEF Nameless
  <2>2. \A v \in reg \cap DOMAIN c.token : c.token[v] # NoKey
    <3> SUFFICES ASSUME NEW v \in reg \cap DOMAIN c.token PROVE c.token[v] # NoKey
      OBVIOUS
    <3>1. v \in DOMAIN client.token /\ v \in regular
      BY <1>2, <1>5, <1>7
    <3> QED BY <1>2, <2>1, <3>1
  <2>3. ASSUME fresh
        PROVE  /\ Within(c, server) /\ Own(server)
               /\ \A v \in reg : Agree(KeyFor(c, v), c.delKey, server, live[v], used[v])
    <3>1. Within(c, server) /\ Own(server) /\ Agreement
      BY <1>4, <2>3 DEF Tables
    <3> SUFFICES ASSUME NEW v \in reg
                 PROVE  Agree(KeyFor(c, v), c.delKey, server, live[v], used[v])
      BY <3>1
    <3>2. v \in Keywords /\ Agree(KeyFor(client, v), client.delKey, server, live[v], used[v])
      BY <1>1, <1>5, <3>1 DEF Agreement
    <3>3. CASE v # w
      BY <1>2, <3>2, <3>3
    <3>4. CASE v = w
      <4>1. w \in DOMAIN client.token
        BY <1>5, <1>7, <3>4
      <4>2. KeyFor(client, w) = client.token[w]
        BY <4>1 DEF KeyFor
      <4>3. KeyFor(c, w) = KeyFor(client, w)
        BY <1>2, <1>3, <4>1, <4>2
      <4> QED BY <1>2, <3>2, <3>4, <4>3
    <3> QED BY <3>3, <3>4
  <2> QED BY <1>2, <1>3, <1>4, <1>5, <1>7, <2>2, <2>3
<1> QED BY <1>6, <1>7

\* A search over gRPC asks for the deletions.
LEMMA SearchDeletedKeyword ==
    ASSUME NEW w \in Keywords
    PROVE  IInv /\ searchDeletedKeyword(w) => IInv'
<1> SUFFICES ASSUME IInv, searchDeletedKeyword(w) PROVE IInv'
  OBVIOUS
<1>1. PICK c, key : c = LookedUp(client, w) /\ key = c.token[w]
  OBVIOUS
<1>2. /\ call = Idle /\ setting.remote /\ client' = c
      /\ call' = [kind |-> "searchDelete", st |-> "sent", w |-> w, delKey |-> c.delKey,
                  key |-> key, n |-> Count(c.del, key), dels |-> {}, unresolved |-> FALSE]
      /\ regular' = regular \ Irregular(w)
      /\ UNCHANGED <<setting, server, live, used, fresh, answer, updates>>
  BY <1>1 DEF searchDeletedKeyword
<1>3. Types /\ Nameless /\ Tables /\ AnswerExact /\ updates \in Nat /\ call.kind = "idle"
  BY <1>2, UpdatesBound DEF IInv, Types, Idle
<1>4. /\ ClientOK(c, updates) /\ w \in DOMAIN c.token
      /\ c.token[w] \in Keys /\ KeyFor(c, w) = c.token[w]
      /\ regular' \in SUBSET regular
      /\ c.ins = client.ins /\ c.del = client.del /\ c.delKey = client.delKey
      /\ Counted(client, server) => Counted(c, server)
      /\ fresh => /\ Within(c, server) /\ Own(server)
                  /\ \A v \in regular' : Agree(KeyFor(c, v), c.delKey, server, live[v], used[v])
      /\ IF setting.clean
         THEN /\ NoKey \notin DOMAIN c.ins \cup DOMAIN c.del
              /\ \A v \in DOMAIN c.token : c.token[v] = NoKey => v = w
         ELSE \A v \in regular' \cap DOMAIN c.token : c.token[v] # NoKey
  BY <1>1, <1>2, <1>3, LookUp
<1>5. Count(c.del, key) \in Nat /\ c.delKey \in DelKeys
  BY <1>4, CountFacts DEF ClientOK
<1>6. CallShape(call') /\ call'.kind = "searchDelete" /\ call'.w = w /\ ~Hung'
  <2>1. PICK n : n = Count(c.del, key)
    OBVIOUS
  <2> QED BY <1>1, <1>2, <1>4, <1>5, <2>1 DEF CallShape, Searches, Stages, Hung
<1>7. Types'
  BY <1>2, <1>3, <1>4, <1>6 DEF Types
<1>8. Nameless'
  BY <1>2, <1>4, <1>6 DEF Nameless, Searches
<1>9. Asked'
  BY <1>1, <1>2, <1>4, <1>6 DEF Asked
<1>10. Tables'
  BY <1>2, <1>4, <1>6 DEF Tables, Agreement, InFlight
<1>11. OneProcess' /\ SearchCompletes' /\ AnswerExact'
  BY <1>2, <1>3, <1>6 DEF OneProcess, SearchCompletes, AnswerExact
<1> QED BY <1>7, <1>8, <1>9, <1>10, <1>11 DEF IInv

\* The server looks the deletions up.
LEMMA HandleSearchDelete == IInv /\ handleSearchDelete => IInv'
<1> SUFFICES ASSUME IInv, handleSearchDelete PROVE IInv'
  OBVIOUS
<1>1. PICK dels, unresolved :
        LET targets == Targets(server, call.delKey, call.key, call.n)
        IN  dels = Revoked(server, targets) /\ unresolved = Unresolved(server, targets)
  OBVIOUS
<1>2. /\ call.kind = "searchDelete" /\ call.st = "sent"
      /\ call' = [[call EXCEPT !.dels = dels, !.unresolved = unresolved] EXCEPT !.st = "done"]
      /\ UNCHANGED <<setting, client, answer, updates, server, live, used, regular, fresh>>
  BY <1>1 DEF handleSearchDelete, Serves, Reply, bounds, ghosts
<1>3. /\ Types /\ Nameless /\ Asked /\ Tables /\ AnswerExact /\ setting.remote
      /\ ClientOK(client, updates) /\ ServerOK(server) /\ updates \in Nat /\ CallShape(call)
      /\ regular \in SUBSET Keywords
  BY <1>2, UpdatesBound DEF IInv, Types
<1>4. dels \in SUBSET Nat /\ unresolved \in BOOLEAN
  <2>1. dels \in SUBSET Nat
    BY <1>1, <1>3, RevokedTypes
  <2> QED BY <1>1, <2>1 DEF Unresolved
<1>5. /\ CallShape(call') /\ call'.kind = "searchDelete" /\ call'.st = "done" /\ call'.w = call.w
      /\ call'.delKey = call.delKey /\ call'.key = call.key /\ call'.n = call.n
      /\ call'.dels = dels /\ call'.unresolved = unresolved
  BY <1>2, <1>3, <1>4 DEF CallShape, Searches, Stages
<1>6. Types'
  BY <1>2, <1>3, <1>5 DEF Types
<1>7. Nameless'
  BY <1>2, <1>3, <1>5 DEF Nameless, Searches
<1>8. Asked'
  BY <1>2, <1>3, <1>5 DEF Asked
<1>9. /\ call.w \in DOMAIN client.token /\ call.key = client.token[call.w]
      /\ call.delKey = client.delKey /\ call.n = Count(client.del, call.key)
  BY <1>2, <1>3 DEF Asked
<1>10. ASSUME fresh, call.w \in regular
       PROVE  ~unresolved /\ Hides(server, dels, call.key, live[call.w])
  <2>1. Within(client, server) /\ Own(server) /\ Agreement
    BY <1>3, <1>10 DEF Tables
  <2>2. Agree(call.key, client.delKey, server, live[call.w], used[call.w])
    BY <1>9, <1>10, <2>1 DEF Agreement, KeyFor
  <2>3. LET T == Targets(server, client.delKey, call.key, Count(client.del, call.key))
        IN  ~Unresolved(server, T) /\ Hides(server, Revoked(server, T), call.key, live[call.w])
    BY <1>3, <2>1, <2>2, RevokedExact
  <2> QED BY <1>1, <1>9, <2>3
<1>11. Tables'
  <2> SUFFICES ASSUME fresh PROVE Within(client, server)' /\ Own(server)' /\ Agreement' /\ InFlight'
    BY <1>2 DEF Tables
  <2>1. Within(client, server)' /\ Own(server)' /\ Agreement'
    BY <1>2, <1>3 DEF Tables, Agreement
  <2>2. InFlight'
    BY <1>2, <1>5, <1>10 DEF InFlight
  <2> QED BY <2>1, <2>2
<1>12. OneProcess' /\ SearchCompletes' /\ AnswerExact'
  <2>1. ~Hung'
    BY <1>5, HungFacts DEF Hung
  <2> QED BY <1>2, <1>3, <1>5, <2>1 DEF OneProcess, SearchCompletes, AnswerExact
<1> QED BY <1>6, <1>7, <1>8, <1>11, <1>12 DEF IInv

\* There are no more entries under a key than updates.
LEMMA CountBound ==
    ASSUME NEW c, NEW u \in 0..MaxUpdates, ClientOK(c, u), NEW key
    PROVE  Count(c.ins, key) \in 0..MaxUpdates /\ Count(c.ins, key) <= u
<1>1. CASE key \in DOMAIN c.ins
  <2>1. c.ins[key] \in Nat /\ c.ins[key] < u
    BY <1>1 DEF ClientOK
  <2> QED BY <1>1, <2>1, UpdatesBound DEF Count
<1>2. CASE key \notin DOMAIN c.ins
  BY <1>2, UpdatesBound DEF Count
<1> QED BY <1>1, <1>2

\* The client leaves out what the server named, and dies of nothing when that lies
\* below its counter.
LEMMA LeftOutFacts ==
    ASSUME NEW n \in Nat, NEW dels \in SUBSET Nat
    PROVE  /\ LeftOut(n, dels) \in SUBSET (0..(n - 1))
           /\ dels = {} => LeftOut(n, dels) = {}
           /\ dels \in SUBSET (0..(n - 1)) => LeftOut(n, dels) = dels /\ ~OutOfArray(n, dels)
<1>1. LeftOut(n, dels) \in SUBSET (0..(n - 1)) /\ (dels = {} => LeftOut(n, dels) = {})
  <2>1. CASE n = 1 /\ dels # {}
    <3>1. LeftOut(n, dels) = {0}
      BY <2>1 DEF LeftOut
    <3>2. {0} \in SUBSET (0..(n - 1))
      BY <2>1
    <3> QED BY <2>1, <3>1, <3>2
  <2>2. CASE ~(n = 1 /\ dels # {})
    <3>1. LeftOut(n, dels) = dels \cap 0..(n - 1)
      BY <2>2 DEF LeftOut
    <3> QED BY <3>1
  <2> QED BY <2>1, <2>2
<1>2. ASSUME dels \in SUBSET (0..(n - 1)) PROVE LeftOut(n, dels) = dels
  <2>1. CASE n = 1
    <3>1. dels \subseteq {0}
      BY <1>2, <2>1
    <3> QED BY <2>1, <3>1 DEF LeftOut
  <2>2. CASE n # 1
    BY <1>2, <2>2 DEF LeftOut
  <2> QED BY <2>1, <2>2
<1>3. ASSUME dels \in SUBSET (0..(n - 1)), OutOfArray(n, dels) PROVE FALSE
  <2>1. PICK i \in dels, k \in 0..n : 2^k \in n..i
    BY <1>3 DEF OutOfArray
  <2>2. i \in Nat /\ i < n
    BY <1>3
  <2>3. PICK x : x = 2^k
    OBVIOUS
  <2>4. x \in n..i
    BY <2>1, <2>3
  <2> QED BY <2>2, <2>4
<1> QED BY <1>1, <1>2, <1>3

\* The client asks for the entries, with the deletions left out.
LEMMA SearchInsertedKeyword == IInv /\ searchInsertedKeyword => IInv'
<1> SUFFICES ASSUME IInv, searchInsertedKeyword PROVE IInv'
  OBVIOUS
<1>1. PICK n, ok, dels, unresolved :
        /\ n = Count(client.ins, call.key)
        /\ ok = (call.st = "done")
        /\ dels = IF ok THEN call.dels ELSE {}
        /\ unresolved = (ok /\ call.unresolved)
  OBVIOUS
<1>2. /\ call.kind = "searchDelete" /\ call.st \in {"done", "failed"}
      /\ \/ /\ unresolved \/ OutOfArray(n, dels)
            /\ call' = [kind |-> "aborted", w |-> call.w]
         \/ /\ ~unresolved
            /\ call' = [kind |-> "searchInsert", st |-> "sent", w |-> call.w,
                        key |-> call.key, n |-> n, dels |-> LeftOut(n, dels),
                        res |-> <<>>, ok |-> ok]
      /\ UNCHANGED <<setting, client, server, live, used, regular, fresh, answer, updates>>
  BY <1>1 DEF searchInsertedKeyword, ghosts, bounds
<1>3. /\ Types /\ Nameless /\ Asked /\ Tables /\ AnswerExact /\ setting.remote
      /\ ClientOK(client, updates) /\ ServerOK(server) /\ updates \in Nat /\ CallShape(call)
      /\ regular \in SUBSET Keywords
  BY <1>2, UpdatesBound DEF IInv, Types
<1>4. /\ call.w \in Keywords /\ call.key \in Keys /\ ok \in BOOLEAN
      /\ dels \in SUBSET Nat /\ n \in Nat
  <2>1. call.w \in Keywords /\ call.key \in Keys /\ call.dels \in SUBSET Nat
    BY <1>2, <1>3 DEF CallShape
  <2>2. n \in Nat
    BY <1>1, <1>3, CountFacts DEF ClientOK
  <2> QED BY <1>1, <2>1, <2>2
<1>5. call.w \in DOMAIN client.token /\ call.key = client.token[call.w]
  BY <1>2, <1>3 DEF Asked
<1>6. ASSUME fresh, call.w \in regular
      PROVE  /\ ~unresolved /\ dels \in SUBSET (0..(n - 1))
             /\ ok => Hides(server, dels, call.key, live[call.w])
  <2>1. CASE ok
    <3>1. call.st = "done" /\ dels = call.dels /\ unresolved = call.unresolved
      BY <1>1, <1>2, <1>3, <2>1 DEF CallShape
    <3>2. ~call.unresolved /\ Hides(server, dels, call.key, live[call.w]) /\ Within(client, server)
      BY <1>2, <1>3, <1>6, <3>1 DEF Tables, InFlight
    <3>3. dels \in SUBSET (0..(n - 1))
      BY <1>1, <1>3, <1>4, <3>2, HiddenWithin
    <3> QED BY <3>1, <3>2, <3>3
  <2>2. CASE ~ok
    BY <1>1, <2>2
  <2> QED BY <2>1, <2>2
<1>7. Within(client, server)' <=> Within(client, server)
  BY <1>2
<1>8. CASE (unresolved \/ OutOfArray(n, dels)) /\ call' = [kind |-> "aborted", w |-> call.w]
  <2>1. CallShape(call') /\ call'.kind = "aborted" /\ call'.w = call.w /\ ~Hung'
    BY <1>4, <1>8 DEF CallShape, Searches, Hung
  <2>2. Types'
    BY <1>2, <1>3, <2>1 DEF Types
  <2>3. Nameless'
    BY <1>2, <1>3, <2>1 DEF Nameless, Searches
  <2>4. Asked'
    BY <2>1 DEF Asked
  <2>5. Tables'
    BY <1>2, <1>3, <2>1 DEF Tables, Agreement, InFlight
  <2>6. SearchCompletes'
    <3>1. ASSUME fresh, call.w \in regular PROVE FALSE
      <4>1. ~OutOfArray(n, dels)
        BY <1>4, <1>6, <3>1, LeftOutFacts
      <4> QED BY <1>6, <1>8, <3>1, <4>1
    <3> QED BY <1>2, <2>1, <3>1 DEF SearchCompletes
  <2>7. OneProcess' /\ AnswerExact'
    BY <1>2, <1>3 DEF OneProcess, AnswerExact
  <2> QED BY <2>2, <2>3, <2>4, <2>5, <2>6, <2>7 DEF IInv
<1>9. CASE /\ ~unresolved
           /\ call' = [kind |-> "searchInsert", st |-> "sent", w |-> call.w,
                       key |-> call.key, n |-> n, dels |-> LeftOut(n, dels),
                       res |-> <<>>, ok |-> ok]
  <2>1. PICK out : out = LeftOut(n, dels)
    OBVIOUS
  <2>2. /\ out \in SUBSET (0..(n - 1)) /\ out \in SUBSET Nat
        /\ dels = {} => out = {}
        /\ dels \in SUBSET (0..(n - 1)) => out = dels
    BY <1>4, <2>1, LeftOutFacts
  <2>3. /\ call'.kind = "searchInsert" /\ call'.st = "sent" /\ call'.w = call.w
        /\ call'.key = call.key /\ call'.n = n /\ call'.dels = out /\ call'.res = <<>>
        /\ call'.ok = ok
    BY <1>9, <2>1
  <2>4. <<>> \in Seq(Docs) /\ Len(<<>>) = 0
    OBVIOUS
  <2>5. CallShape(call')
    <3>1. call' \in [kind : {"searchInsert"}, st : Stages \cup {"hung"}, w : Keywords,
                    key : Keys, n : Nat, dels : SUBSET Nat, res : Seq(Docs), ok : BOOLEAN]
      BY <1>4, <1>9, <2>1, <2>2, <2>4 DEF Stages
    <3> QED BY <2>3, <3>1 DEF CallShape, Searches
  <2>6. Types'
    BY <1>2, <1>3, <2>3, <2>5 DEF Types
  <2>7. Nameless'
    BY <1>2, <1>3, <2>3 DEF Nameless, Searches
  <2>8. Asked'
    <3>1. ~ok => out = {}
      BY <1>1, <2>2
    <3> QED BY <1>1, <1>2, <1>4, <1>5, <2>2, <2>3, <2>4, <3>1 DEF Asked
  <2>9. Tables'
    <3> SUFFICES ASSUME fresh PROVE Within(client, server)' /\ Own(server)' /\ Agreement' /\ InFlight'
      BY <1>2 DEF Tables
    <3>1. Within(client, server)' /\ Own(server)' /\ Agreement'
      BY <1>2, <1>3 DEF Tables, Agreement
    <3>2. ASSUME call.w \in regular, ok PROVE Hides(server, out, call.key, live[call.w])
      BY <1>6, <2>2, <3>2
    <3>3. InFlight'
      BY <1>2, <2>3, <3>2 DEF InFlight
    <3> QED BY <3>1, <3>3
  <2>10. OneProcess' /\ SearchCompletes' /\ AnswerExact'
    <3>1. ~Hung'
      BY <2>3, <2>5, HungFacts DEF Hung
    <3> QED BY <1>2, <1>3, <2>3, <3>1 DEF OneProcess, SearchCompletes, AnswerExact
  <2> QED BY <2>6, <2>7, <2>8, <2>9, <2>10 DEF IInv
<1> QED BY <1>2, <1>8, <1>9

\* The server looks the entries up, or walks off an empty list.
LEMMA HandleSearchInsert == IInv /\ handleSearchInsert => IInv'
<1> SUFFICES ASSUME IInv, handleSearchInsert PROVE IInv'
  OBVIOUS
<1>1. PICK res : res = Found(server, call.key, call.n, call.dels)
  OBVIOUS
<1>2. /\ call.kind = "searchInsert" /\ call.st = "sent"
      /\ \/ call' = [[call EXCEPT !.res = res] EXCEPT !.st = "done"]
         \/ NothingLeft(call.n, call.dels) /\ call' = [call EXCEPT !.st = "hung"]
      /\ UNCHANGED <<setting, client, answer, updates, server, live, used, regular, fresh>>
  BY <1>1 DEF handleSearchInsert, Serves, Reply, bounds, ghosts
<1>3. /\ Types /\ Nameless /\ Asked /\ Tables /\ AnswerExact /\ setting.remote
      /\ ClientOK(client, updates) /\ ServerOK(server) /\ updates \in 0..MaxUpdates
      /\ CallShape(call) /\ regular \in SUBSET Keywords
  BY <1>2 DEF IInv, Types
<1>4. /\ call.w \in DOMAIN client.token /\ call.key = client.token[call.w]
      /\ call.n = Count(client.ins, call.key) /\ call.dels \in SUBSET (0..(call.n - 1))
      /\ call.n \in 0..MaxUpdates /\ (~call.ok => call.dels = {})
  <2>1. /\ call.w \in DOMAIN client.token /\ call.key = client.token[call.w]
        /\ call.n = Count(client.ins, call.key) /\ call.dels \in SUBSET (0..(call.n - 1))
        /\ (~call.ok => call.dels = {})
    BY <1>2, <1>3 DEF Asked
  <2> QED BY <1>3, <2>1, CountBound
<1>5. res \in Seq(Docs) /\ Len(res) <= call.n
  BY <1>1, <1>3, <1>4, FoundTypes
<1>6. ASSUME fresh, call.w \in regular, call.ok
      PROVE  Exactly(res, live[call.w]) /\ (NothingLeft(call.n, call.dels) => live[call.w] = {})
  <2>1. /\ Within(client, server) /\ Own(server) /\ Agreement
        /\ Hides(server, call.dels, call.key, live[call.w])
    BY <1>2, <1>3, <1>6 DEF Tables, InFlight
  <2>2. Agree(call.key, client.delKey, server, live[call.w], used[call.w])
    BY <1>4, <1>6, <2>1 DEF Agreement, KeyFor
  <2>3. PICK key, n, D, L, U :
          key = call.key /\ n = call.n /\ D = call.dels /\ L = live[call.w] /\ U = used[call.w]
    OBVIOUS
  <2>4. /\ Agree(key, client.delKey, server, L, U) /\ Hides(server, D, key, L)
        /\ n \in 0..MaxUpdates /\ n = Count(client.ins, key) /\ D \in SUBSET (0..(n - 1))
    BY <1>4, <2>1, <2>2, <2>3
  <2>5. Exactly(Found(server, key, n, D), L) /\ (NothingLeft(n, D) => L = {})
    BY <1>3, <2>1, <2>4, FoundExact
  <2> QED BY <1>1, <2>3, <2>5
<1>7. ASSUME NothingLeft(call.n, call.dels) PROVE call.ok
  <2>1. call.n > 0 /\ 0..(call.n - 1) \subseteq call.dels /\ call.n \in Nat
    BY <1>4, <1>7, UpdatesBound DEF NothingLeft
  <2>2. 0 \in call.dels
    BY <2>1
  <2> QED BY <1>2, <1>3, <1>4, <2>2 DEF CallShape
<1>8. /\ CallShape(call') /\ call'.kind = "searchInsert" /\ call'.w = call.w
      /\ call'.key = call.key /\ call'.n = call.n /\ call'.dels = call.dels
      /\ call'.ok = call.ok
      /\ \/ call'.st = "done" /\ call'.res = res
         \/ call'.st = "hung" /\ call'.res = call.res /\ NothingLeft(call.n, call.dels)
  <2>1. call \in [kind : {"searchInsert"}, st : Stages \cup {"hung"}, w : Keywords,
                    key : Keys, n : Nat, dels : SUBSET Nat, res : Seq(Docs), ok : BOOLEAN]
    BY <1>2, <1>3 DEF CallShape
  <2>2. call' \in [kind : {"searchInsert"}, st : Stages \cup {"hung"}, w : Keywords,
                    key : Keys, n : Nat, dels : SUBSET Nat, res : Seq(Docs), ok : BOOLEAN]
    BY <1>2, <1>5, <2>1 DEF Stages
  <2>3. CallShape(call')
    BY <2>2 DEF CallShape, Searches
  <2> QED BY <1>2, <2>1, <2>3
<1>9. Types'
  BY <1>2, <1>3, <1>8 DEF Types
<1>10. Nameless'
  BY <1>2, <1>3, <1>8 DEF Nameless, Searches
<1>11. Asked'
  <2>1. Len(call.res) <= call.n
    BY <1>2, <1>3 DEF Asked
  <2> QED BY <1>2, <1>4, <1>5, <1>8, <2>1 DEF Asked
<1>12. Tables'
  <2> SUFFICES ASSUME fresh PROVE Within(client, server)' /\ Own(server)' /\ Agreement' /\ InFlight'
    BY <1>2 DEF Tables
  <2>1. Within(client, server)' /\ Own(server)' /\ Agreement'
    BY <1>2, <1>3 DEF Tables, Agreement
  <2>2. call.w \in regular /\ call.ok => Hides(server, call.dels, call.key, live[call.w])
    BY <1>2, <1>3 DEF Tables, InFlight
  <2>3. InFlight'
    BY <1>2, <1>6, <1>8, <2>2 DEF InFlight
  <2> QED BY <2>1, <2>3
<1>13. SearchCompletes'
  <2> SUFFICES ASSUME Hung', fresh', call'.w \in regular' PROVE (live[call.w])' = {}
    BY <1>8 DEF SearchCompletes
  <2>1. call'.st = "hung"
    BY <1>8, HungFacts DEF Hung
  <2>2. NothingLeft(call.n, call.dels)
    BY <1>8, <2>1
  <2> QED BY <1>2, <1>6, <1>7, <1>8, <2>2
<1>14. OneProcess' /\ AnswerExact'
  BY <1>2, <1>3 DEF OneProcess, AnswerExact
<1> QED BY <1>9, <1>10, <1>11, <1>12, <1>13, <1>14 DEF IInv

\* The client takes the results over and, with cleaning, sends them again.
LEMMA ProcessSearch == IInv /\ processSearch => IInv'
<1> SUFFICES ASSUME IInv, processSearch PROVE IInv'
  OBVIOUS
<1>1. PICK w, ok, res, out :
        /\ w = call.w
        /\ ok = (call.ok /\ call.st = "done")
        /\ res = IF call.st = "done" THEN call.res ELSE <<>>
        /\ out = Outcome(w, res, ok)
  OBVIOUS
<1>2. /\ call.kind = "searchInsert" /\ call.st \in {"done", "failed"}
      /\ IF setting.clean
         THEN /\ client' = AfterReinsertions(client, w, res)
              /\ call' = [kind |-> "batch", st |-> "sent", w |-> w, out |-> out,
                          reqs |-> Reinsertions(client, w, res),
                          keep |-> ok /\ w \in regular]
              /\ regular' = regular \ {w}
              /\ used' = [used EXCEPT ![w] = {}]
              /\ UNCHANGED answer
         ELSE answer' = out /\ call' = Idle /\ UNCHANGED <<client, used, regular>>
      /\ UNCHANGED <<setting, server, live, fresh, updates>>
  BY <1>1, Zenon DEF processSearch, bounds
<1>3. /\ Types /\ Nameless /\ Asked /\ Tables /\ AnswerExact /\ setting.remote
      /\ ClientOK(client, updates) /\ ServerOK(server) /\ updates \in 0..MaxUpdates
      /\ updates \in Nat /\ CallShape(call) /\ regular \in SUBSET Keywords
      /\ used \in [Keywords -> SUBSET Docs] /\ setting.clean \in BOOLEAN
  BY <1>2, UpdatesBound DEF IInv, Types
<1>4. /\ w \in Keywords /\ w \in DOMAIN client.token /\ call.res \in Seq(Docs)
      /\ Len(call.res) <= Count(client.ins, call.key) /\ ok \in BOOLEAN
  BY <1>1, <1>2, <1>3 DEF CallShape, Asked
<1>5. res \in Seq(Docs) /\ Len(res) <= updates
  <2>1. CASE call.st = "done"
    <3>1. Count(client.ins, call.key) \in 0..MaxUpdates /\ Count(client.ins, call.key) <= updates
      BY <1>3, CountBound
    <3>2. Len(call.res) \in Nat
      BY <1>4, LenProperties
    <3> QED BY <1>1, <1>3, <1>4, <2>1, <3>1, <3>2
  <2>2. CASE call.st # "done"
    BY <1>1, <1>3, <2>2
  <2> QED BY <2>1, <2>2
<1>6. ASSUME fresh, w \in regular, ok PROVE Exactly(res, live[w])
  <2>1. call.ok /\ call.st = "done" /\ res = call.res
    BY <1>1, <1>2, <1>3, <1>6 DEF CallShape
  <2> QED BY <1>1, <1>2, <1>3, <1>6, <2>1 DEF Tables, InFlight
<1>7. out.res = res /\ out.expected = live[w] /\ (out.trusted => Exactly(out.res, out.expected))
  <2>1. out = [res |-> res, expected |-> live[w],
               trusted |-> ok /\ fresh /\ w \in regular \ Irregular(w)]
    BY <1>1 DEF Outcome
  <2> QED BY <1>3, <1>4, <1>6, <2>1 DEF Types
<1>8. CASE ~setting.clean
  <2>1. answer' = out /\ call' = Idle /\ UNCHANGED <<client, used, regular>>
    BY <1>2, <1>8
  <2>2. CallShape(call') /\ call'.kind = "idle" /\ ~Hung'
    BY <2>1 DEF CallShape, Idle, Searches, Hung
  <2>3. Types'
    BY <1>2, <1>3, <2>1, <2>2 DEF Types
  <2>4. Nameless'
    BY <1>2, <1>3, <1>8, <2>1 DEF Nameless
  <2>5. Asked'
    BY <2>2 DEF Asked
  <2>6. Tables'
    BY <1>2, <1>3, <2>1, <2>2 DEF Tables, Agreement, InFlight
  <2>7. OneProcess' /\ SearchCompletes' /\ AnswerExact'
    BY <1>2, <1>3, <1>7, <2>1, <2>2 DEF OneProcess, SearchCompletes, AnswerExact, Exactly
  <2> QED BY <2>3, <2>4, <2>5, <2>6, <2>7 DEF IInv
<1>9. CASE setting.clean
  <2>1. PICK reqs, key : reqs = Reinsertions(client, w, res) /\ key = client'.token[w]
    OBVIOUS
  <2>2. /\ client' = AfterReinsertions(client, w, res)
        /\ call' = [kind |-> "batch", st |-> "sent", w |-> w, out |-> out,
                    reqs |-> reqs, keep |-> ok /\ w \in regular]
        /\ regular' = regular \ {w}
        /\ used' = [used EXCEPT ![w] = {}]
        /\ UNCHANGED answer
    BY <1>2, <1>9, <2>1
  <2>3. /\ ClientOK(client', updates) /\ Grown(client, client')
        /\ client'.delKey = client.delKey /\ client'.del = client.del
        /\ DOMAIN client'.token = DOMAIN client.token
        /\ \A v \in DOMAIN client.token : v # w => client'.token[v] = client.token[v]
        /\ key \in Keys /\ key # NoKey /\ key.word = w
        /\ key \notin DOMAIN client.ins /\ key \notin DOMAIN client.del
        /\ DOMAIN client'.ins \subseteq DOMAIN client.ins \cup {key}
        /\ Count(client'.ins, key) = Len(res)
        /\ reqs \in Seq(Request) /\ DOMAIN reqs = DOMAIN res /\ Len(reqs) = Len(res)
        /\ \A i \in DOMAIN reqs :
              reqs[i].key = key /\ reqs[i].cnt = i - 1 /\ reqs[i].doc = res[i]
    BY <1>3, <1>4, <1>5, <2>1, <2>2, ReinsertionsOK
  <2>4. /\ call'.kind = "batch" /\ call'.st = "sent" /\ call'.w = w /\ call'.out = out
        /\ call'.reqs = reqs /\ call'.keep = (ok /\ w \in regular)
    BY <2>2
  <2>5. CallShape(call')
    <3>1. call' \in [kind : {"batch"}, st : Stages, w : Keywords, out : {call'.out},
                    reqs : Seq(Request), keep : BOOLEAN]
      BY <1>4, <2>2, <2>3 DEF Stages
    <3> QED BY <2>4, <3>1 DEF CallShape, Searches
  <2>6. used' \in [Keywords -> SUBSET Docs] /\ regular' \in SUBSET Keywords
    BY <1>3, <2>2
  <2>7. Types'
    BY <1>2, <1>3, <2>3, <2>4, <2>5, <2>6 DEF Types
  <2>8. Nameless'
    <3>1. /\ NoKey \notin DOMAIN client.ins \cup DOMAIN client.del
          /\ \A v \in DOMAIN client.token : client.token[v] = NoKey => v = w
      BY <1>1, <1>3, <1>9 DEF Nameless
    <3>2. \A v \in DOMAIN client'.token : client'.token[v] # NoKey
      BY <2>1, <2>3, <3>1
    <3> QED BY <1>2, <1>9, <2>3, <3>1, <3>2 DEF Nameless
  <2>9. Asked'
    BY <1>4, <1>7, <2>1, <2>3, <2>4 DEF Asked
  <2>10. Tables'
    <3> SUFFICES ASSUME fresh PROVE Within(client, server)' /\ Own(server)' /\ Agreement' /\ InFlight'
      BY <1>2 DEF Tables
    <3>1. Within(client, server) /\ Own(server) /\ Agreement
      BY <1>3 DEF Tables
    <3>2. Within(client', server)
      BY <1>3, <2>3, <3>1, GrownWithin
    <3>3. Agreement'
      <4> SUFFICES ASSUME NEW v \in regular'
                   PROVE  Agree(KeyFor(client', v), client'.delKey, server', live'[v], used'[v])
        BY DEF Agreement
      <4>1. v \in regular /\ v \in Keywords /\ v # w
        BY <1>3, <2>2
      <4>2. KeyFor(client', v) = KeyFor(client, v)
        BY <2>3, <4>1 DEF KeyFor
      <4>3. used'[v] = used[v]
        BY <1>3, <2>2, <4>1
      <4>4. Agree(KeyFor(client, v), client.delKey, server, live[v], used[v])
        BY <3>1, <4>1 DEF Agreement
      <4> QED BY <1>2, <2>3, <4>2, <4>3, <4>4
    <3>4. Unused(key)
      BY <1>3, <2>3, <3>1, NeverUsed DEF Unused
    <3>5. ASSUME ok, w \in regular PROVE Exactly([i \in DOMAIN reqs |-> reqs[i].doc], live[w])
      <4>1. [i \in DOMAIN reqs |-> reqs[i].doc] = res
        BY <1>5, <2>3
      <4>2. Exactly(res, live[w])
        BY <1>6, <3>5
      <4> QED BY <4>1, <4>2
    <3>6. InFlight'
      BY <1>2, <2>1, <2>2, <2>4, <3>4, <3>5 DEF InFlight, Unused
    <3> QED BY <1>2, <3>1, <3>2, <3>3, <3>6
  <2>11. OneProcess' /\ SearchCompletes' /\ AnswerExact'
    <3>1. ~Hung'
      BY <2>4, <2>5, HungFacts DEF Hung
    <3> QED BY <1>2, <1>3, <2>2, <2>4, <3>1 DEF OneProcess, SearchCompletes, AnswerExact
  <2> QED BY <2>7, <2>8, <2>9, <2>10, <2>11 DEF IInv
<1> QED BY <1>3, <1>8, <1>9

\* A search in one process: it aborts, does not return, or answers and cleans.
LEMMA SearchKeyword ==
    ASSUME NEW w \in Keywords
    PROVE  IInv /\ searchKeyword(w) => IInv'
<1> SUFFICES ASSUME IInv, searchKeyword(w) PROVE IInv'
  OBVIOUS
<1>1. PICK c, key, targets, n, dels, res, reg :
        /\ c = LookedUp(client, w) /\ key = c.token[w]
        /\ targets = Targets(server, c.delKey, key, Count(c.del, key))
        /\ n = Count(c.ins, key) /\ dels = Revoked(server, targets)
        /\ res = Found(server, key, n, dels) /\ reg = regular \ Irregular(w)
  OBVIOUS
<1>2. /\ call = Idle /\ ~setting.remote
      /\ \/ /\ Unresolved(server, targets)
            /\ call' = [kind |-> "aborted", w |-> w]
            /\ client' = c
            /\ regular' = reg
            /\ UNCHANGED <<server, live, used, answer>>
         \/ /\ NothingLeft(n, dels)
            /\ call' = [kind |-> "hung", w |-> w]
            /\ client' = c
            /\ regular' = reg
            /\ UNCHANGED <<server, live, used, answer>>
         \/ /\ answer' = Outcome(w, res, TRUE)
            /\ regular' = reg
            /\ IF setting.clean
               THEN /\ client' = AfterReinsertions(c, w, res)
                    /\ server' = InsertAll(server, Reinsertions(c, w, res), setting.usehdd)
                    /\ used' = [used EXCEPT ![w] = ToSet(res)]
               ELSE client' = c /\ UNCHANGED <<server, used>>
            /\ UNCHANGED <<call, live>>
      /\ UNCHANGED <<setting, fresh, updates>>
  BY <1>1, Zenon DEF searchKeyword
<1>3. /\ Types /\ Nameless /\ Tables /\ AnswerExact /\ OneProcess
      /\ ServerOK(server) /\ updates \in 0..MaxUpdates /\ updates \in Nat
      /\ setting.usehdd \in BOOLEAN /\ setting.clean \in BOOLEAN /\ regular \in SUBSET Keywords
      /\ live \in [Keywords -> SUBSET Docs] /\ used \in [Keywords -> SUBSET Docs]
      /\ call.kind = "idle" /\ fresh \in BOOLEAN
  BY <1>2, UpdatesBound DEF IInv, Types, Idle
<1>4. /\ ClientOK(c, updates) /\ w \in DOMAIN c.token
      /\ c.token[w] \in Keys /\ KeyFor(c, w) = c.token[w]
      /\ reg \in SUBSET regular
      /\ c.ins = client.ins /\ c.del = client.del /\ c.delKey = client.delKey
      /\ Counted(client, server) => Counted(c, server)
      /\ fresh => /\ Within(c, server) /\ Own(server)
                  /\ \A v \in reg : Agree(KeyFor(c, v), c.delKey, server, live[v], used[v])
      /\ IF setting.clean
         THEN /\ NoKey \notin DOMAIN c.ins \cup DOMAIN c.del
              /\ \A v \in DOMAIN c.token : c.token[v] = NoKey => v = w
         ELSE \A v \in reg \cap DOMAIN c.token : c.token[v] # NoKey
  <2>1. c = LookedUp(client, w) /\ reg = regular \ Irregular(w)
    BY <1>1
  <2>2. Types /\ Nameless /\ Tables /\ call.kind = "idle"
    BY <1>3
  <2> QED BY <2>1, <2>2, LookUp
<1>5. Counted(c, server)
  BY <1>2, <1>3, <1>4 DEF OneProcess
<1>6. n \in 0..MaxUpdates /\ n <= updates /\ dels \in SUBSET (0..(n - 1))
  <2>1. n \in 0..MaxUpdates /\ n <= updates
    BY <1>1, <1>3, <1>4, CountBound
  <2>2. dels \in SUBSET (0..(n - 1))
    BY <1>1, <1>3, <1>4, <1>5, RevokedTypes
  <2> QED BY <2>1, <2>2
<1>7. res \in Seq(Docs) /\ Len(res) <= updates
  <2>1. res \in Seq(Docs) /\ Len(res) <= n
    BY <1>1, <1>3, <1>6, FoundTypes
  <2>2. Len(res) \in Nat /\ n \in Nat
    BY <1>6, <2>1, LenProperties, UpdatesBound
  <2> QED BY <1>3, <1>6, <2>1, <2>2
<1>8. ASSUME fresh, w \in reg
      PROVE  /\ ~Unresolved(server, targets) /\ Exactly(res, live[w])
             /\ NothingLeft(n, dels) => live[w] = {}
  <2>1. Within(c, server) /\ Own(server) /\ Agree(key, c.delKey, server, live[w], used[w])
    BY <1>1, <1>4, <1>8
  <2>2. PICK L, U : L = live[w] /\ U = used[w]
    OBVIOUS
  <2>3. Agree(key, c.delKey, server, L, U)
    BY <2>1, <2>2
  <2>4. LET T == Targets(server, c.delKey, key, Count(c.del, key))
        IN  ~Unresolved(server, T) /\ Hides(server, Revoked(server, T), key, L)
    BY <1>3, <1>4, <2>1, <2>3, RevokedExact
  <2>5. ~Unresolved(server, targets) /\ Hides(server, dels, key, L)
    BY <1>1, <2>4
  <2>6. Exactly(Found(server, key, n, dels), L) /\ (NothingLeft(n, dels) => L = {})
    BY <1>1, <1>3, <1>4, <1>6, <2>1, <2>3, <2>5, FoundExact
  <2> QED BY <1>1, <2>2, <2>5, <2>6
<1>9. ASSUME client' = c, regular' = reg, UNCHANGED <<server, live, used>>,
             \/ call' = Idle
             \/ call' = [kind |-> "aborted", w |-> w]
             \/ call' = [kind |-> "hung", w |-> w],
             setting.clean => call'.kind \in Searches /\ call'.w = w
      PROVE  Types' /\ Nameless' /\ Asked' /\ OneProcess' /\ Tables'
  <2>1. CallShape(call') /\ call'.kind \in {"idle", "aborted", "hung"}
    BY <1>9 DEF CallShape, Searches, Idle
  <2>2. Types'
    BY <1>2, <1>3, <1>4, <1>9, <2>1 DEF Types
  <2>3. Nameless'
    BY <1>2, <1>4, <1>9 DEF Nameless
  <2>4. Asked'
    BY <2>1 DEF Asked
  <2>5. OneProcess'
    BY <1>5, <1>9 DEF OneProcess
  <2>6. Tables'
    BY <1>2, <1>4, <1>9, <2>1 DEF Tables, Agreement, InFlight
  <2> QED BY <2>2, <2>3, <2>4, <2>5, <2>6
<1>10. CASE /\ Unresolved(server, targets)
            /\ call' = [kind |-> "aborted", w |-> w]
            /\ client' = c
            /\ regular' = reg
            /\ UNCHANGED <<server, live, used, answer>>
  <2>1. call'.kind = "aborted" /\ call'.w = w /\ ~Hung'
    BY <1>10 DEF Hung
  <2>2. Types' /\ Nameless' /\ Asked' /\ OneProcess' /\ Tables'
    BY <1>9, <1>10, <2>1 DEF Searches
  <2>3. SearchCompletes'
    BY <1>2, <1>8, <1>10, <2>1 DEF SearchCompletes
  <2>4. AnswerExact'
    BY <1>3, <1>10 DEF AnswerExact
  <2> QED BY <2>2, <2>3, <2>4 DEF IInv
<1>11. CASE /\ NothingLeft(n, dels)
            /\ call' = [kind |-> "hung", w |-> w]
            /\ client' = c
            /\ regular' = reg
            /\ UNCHANGED <<server, live, used, answer>>
  <2>1. call'.kind = "hung" /\ call'.w = w
    BY <1>11
  <2>2. Types' /\ Nameless' /\ Asked' /\ OneProcess' /\ Tables'
    BY <1>9, <1>11, <2>1 DEF Searches
  <2>3. SearchCompletes'
    BY <1>2, <1>8, <1>11, <2>1 DEF SearchCompletes
  <2>4. AnswerExact'
    BY <1>3, <1>11 DEF AnswerExact
  <2> QED BY <2>2, <2>3, <2>4 DEF IInv
<1>12. ASSUME answer' = Outcome(w, res, TRUE), call' = call
       PROVE  SearchCompletes' /\ AnswerExact'
  <2>1. answer' = [res |-> res, expected |-> live[w], trusted |-> TRUE /\ fresh /\ w \in reg]
    BY <1>1, <1>12 DEF Outcome
  <2>2. answer'.trusted => fresh /\ w \in reg
    BY <1>3, <2>1
  <2>3. AnswerExact'
    BY <1>8, <2>1, <2>2 DEF AnswerExact, Exactly
  <2>4. call'.kind = "idle" /\ ~Hung'
    BY <1>2, <1>12 DEF Hung, Idle
  <2> QED BY <2>3, <2>4 DEF SearchCompletes
<1>13. CASE /\ ~setting.clean
            /\ answer' = Outcome(w, res, TRUE)
            /\ regular' = reg
            /\ client' = c /\ UNCHANGED <<server, used>>
            /\ UNCHANGED <<call, live>>
  BY <1>2, <1>9, <1>12, <1>13 DEF IInv
<1>14. CASE /\ setting.clean
            /\ answer' = Outcome(w, res, TRUE)
            /\ regular' = reg
            /\ client' = AfterReinsertions(c, w, res)
            /\ server' = InsertAll(server, Reinsertions(c, w, res), setting.usehdd)
            /\ used' = [used EXCEPT ![w] = ToSet(res)]
            /\ UNCHANGED <<call, live>>
  <2>1. PICK reqs, new : reqs = Reinsertions(c, w, res) /\ new = client'.token[w]
    OBVIOUS
  <2>2. /\ ClientOK(client', updates) /\ Grown(c, client')
        /\ client'.delKey = c.delKey /\ client'.del = c.del
        /\ DOMAIN client'.token = DOMAIN c.token
        /\ \A v \in DOMAIN c.token : v # w => client'.token[v] = c.token[v]
        /\ new \in Keys /\ new # NoKey /\ new.word = w
        /\ new \notin DOMAIN c.ins /\ new \notin DOMAIN c.del
        /\ DOMAIN client'.ins \subseteq DOMAIN c.ins \cup {new}
        /\ Count(client'.ins, new) = Len(res)
        /\ reqs \in Seq(Request) /\ DOMAIN reqs = DOMAIN res /\ Len(reqs) = Len(res)
        /\ \A i \in DOMAIN reqs :
              reqs[i].key = new /\ reqs[i].cnt = i - 1 /\ reqs[i].doc = res[i]
    BY <1>3, <1>4, <1>7, <1>14, <2>1, ReinsertionsOK
  <2>3. /\ ServerOK(server')
        /\ Counted(client', server) => Counted(client', server')
        /\ Within(client', server) => Within(client', server')
        /\ Unused(new) /\ Own(server) => Own(server')
        /\ \A L, U : \A v \in Keywords :
              /\ v # w
              /\ Agree(KeyFor(client', v), client'.delKey, server, L, U)
              => Agree(KeyFor(client', v), client'.delKey, server', L, U)
        /\ \A L :
              /\ Unused(new) /\ Within(client', server)
              /\ Exactly([i \in DOMAIN reqs |-> reqs[i].doc], L)
              => Agree(new, client'.delKey, server', L, L)
    <3>1. server' = InsertAll(server, reqs, setting.usehdd)
      BY <1>14, <2>1
    <3>2. w \in DOMAIN client'.token /\ new \notin DOMAIN client'.del
      BY <1>4, <2>2
    <3>3. PICK c2 : c2 = client'
      OBVIOUS
    <3>4. /\ ClientOK(c2, updates) /\ w \in DOMAIN c2.token /\ new = c2.token[w]
          /\ new \notin DOMAIN c2.del /\ Count(c2.ins, new) = Len(reqs)
      BY <2>1, <2>2, <3>2, <3>3
    <3>5. /\ new \in Keys /\ new # NoKey /\ reqs \in Seq(Request)
          /\ \A i \in DOMAIN reqs : reqs[i].key = new /\ reqs[i].cnt = i - 1
      BY <2>2
    <3>6. /\ ServerOK(server')
          /\ Counted(c2, server) => Counted(c2, server')
          /\ Within(c2, server) => Within(c2, server')
          /\ Unused(new) /\ Own(server) => Own(server')
          /\ \A L, U : \A v \in Keywords :
                /\ v # w
                /\ Agree(KeyFor(c2, v), c2.delKey, server, L, U)
                => Agree(KeyFor(c2, v), c2.delKey, server', L, U)
          /\ \A L :
                /\ Unused(new) /\ Within(c2, server)
                /\ Exactly([i \in DOMAIN reqs |-> reqs[i].doc], L)
                => Agree(new, c2.delKey, server', L, L)
      BY <1>3, <3>1, <3>4, <3>5, StoreBatch
    <3> QED BY <3>3, <3>6
  <2>4. /\ Within(c, server) => Within(client', server)
        /\ Counted(client', server)
    BY <1>3, <1>4, <1>5, <2>2, GrownWithin
  <2>5. call' = Idle /\ CallShape(call') /\ call'.kind = "idle"
    BY <1>2, <1>14 DEF CallShape, Idle, Searches
  <2>6. used' \in [Keywords -> SUBSET Docs] /\ used'[w] = ToSet(res)
    <3>1. ToSet(res) \in SUBSET Docs
      BY <1>7, ElementOfSeq, LenProperties DEF ToSet
    <3> QED BY <1>3, <1>14, <3>1
  <2>7. Types'
    BY <1>2, <1>3, <1>4, <1>14, <2>2, <2>3, <2>5, <2>6 DEF Types
  <2>8. Nameless'
    <3>1. /\ NoKey \notin DOMAIN c.ins \cup DOMAIN c.del
          /\ \A v \in DOMAIN c.token : c.token[v] = NoKey => v = w
      BY <1>4, <1>14
    <3>2. \A v \in DOMAIN client'.token : client'.token[v] # NoKey
      BY <2>1, <2>2, <3>1
    <3>3. setting'.clean
      BY <1>2, <1>14
    <3> QED BY <2>2, <3>1, <3>2, <3>3 DEF Nameless
  <2>9. Asked'
    BY <2>5 DEF Asked
  <2>10. OneProcess'
    BY <2>3, <2>4 DEF OneProcess
  <2>11. Tables'
    <3> SUFFICES ASSUME fresh PROVE Within(client, server)' /\ Own(server)' /\ Agreement' /\ InFlight'
      BY <1>2 DEF Tables
    <3>1. Within(c, server) /\ Within(client', server) /\ Own(server)
      BY <1>4, <2>4
    <3>2. Unused(new)
      BY <1>3, <2>2, <3>1, NeverUsed DEF Unused
    <3>3. Agreement'
      <4> SUFFICES ASSUME NEW v \in reg
                   PROVE  Agree(KeyFor(client', v), client'.delKey, server', live[v], used'[v])
        BY <1>14 DEF Agreement
      <4>1. v \in Keywords
        BY <1>3, <1>4
      <4>2. CASE v = w
        <5>1. Exactly(res, live[w])
          BY <1>8, <4>2
        <5>2. [i \in DOMAIN reqs |-> reqs[i].doc] = res
          BY <1>7, <2>2
        <5>3. Agree(new, client'.delKey, server', live[w], live[w])
          BY <2>3, <3>1, <3>2, <5>1, <5>2
        <5>4. KeyFor(client', w) = new
          BY <1>4, <2>1, <2>2 DEF KeyFor
        <5>5. used'[w] = live[w]
          BY <2>6, <5>1 DEF Exactly
        <5> QED BY <4>2, <5>3, <5>4, <5>5
      <4>3. CASE v # w
        <5>1. KeyFor(client', v) = KeyFor(c, v) /\ used'[v] = used[v]
          BY <1>3, <1>14, <2>2, <4>1, <4>3 DEF KeyFor
        <5>2. Agree(KeyFor(client', v), client'.delKey, server, live[v], used[v])
          BY <1>4, <2>2, <5>1
        <5> QED BY <2>3, <4>1, <4>3, <5>1, <5>2
      <4> QED BY <4>2, <4>3
    <3>4. InFlight'
      BY <2>5 DEF InFlight
    <3> QED BY <2>3, <3>1, <3>2, <3>3, <3>4
  <2>12. SearchCompletes' /\ AnswerExact'
    BY <1>12, <1>14
  <2> QED BY <2>7, <2>8, <2>9, <2>10, <2>11, <2>12 DEF IInv
<1> QED BY <1>2, <1>3, <1>10, <1>11, <1>13, <1>14

-----------------------------------------------------------------------------
\* The theorems.

\* Every step keeps the invariant.
LEMMA NextIInv == IInv /\ [Next]_vars => IInv'
<1> SUFFICES ASSUME IInv, [Next]_vars PROVE IInv'
  OBVIOUS
<1>1. ASSUME NEW w \in Keywords, NEW d \in Docs, insertKeyword(w, d) \/ deleteKeyword(w, d)
      PROVE  IInv'
  BY <1>1, InsertKeyword, DeleteKeyword
<1>2. ASSUME NEW w \in Keywords, searchKeyword(w) \/ searchDeletedKeyword(w) PROVE IInv'
  BY <1>2, SearchKeyword, SearchDeletedKeyword
<1>3. CASE searchInsertedKeyword \/ processSearch \/ return
  BY <1>3, SearchInsertedKeyword, ProcessSearch, Return
<1>4. CASE handleSetup \/ handleInsert \/ handleDelete \/ handleBatchInsert
  BY <1>4, HandleSetup, HandleInsert, HandleDelete, HandleBatchInsert
<1>5. CASE handleSearchDelete \/ handleSearchInsert \/ crash
  BY <1>5, HandleSearchDelete, HandleSearchInsert, Crash
<1>6. CASE loseCall \/ restartServer \/ restartClient
  BY <1>6, LoseCall, RestartServer, RestartClient
<1>7. CASE UNCHANGED vars
  <2>1. UNCHANGED <<setting, client, server, call, live, used, regular, fresh, answer, updates>>
    BY <1>7 DEF vars
  <2>2. Types' /\ Nameless'
    BY <2>1 DEF IInv, Types, Nameless
  <2>3. Asked' /\ OneProcess'
    BY <2>1 DEF IInv, Asked, OneProcess
  <2>4. Tables'
    BY <2>1 DEF IInv, Tables, Agreement, InFlight, Unused
  <2>5. SearchCompletes' /\ AnswerExact'
    BY <2>1 DEF IInv, SearchCompletes, AnswerExact, Hung
  <2> QED BY <2>2, <2>3, <2>4, <2>5 DEF IInv
<1> QED BY <1>1, <1>2, <1>3, <1>4, <1>5, <1>6, <1>7 DEF Next

\* The invariant contains the types ...
LEMMA IInvTypes == IInv => TypeOK
<1> SUFFICES ASSUME IInv PROVE TypeOK
  OBVIOUS
<1>1. /\ ClientOK(client, updates) /\ ServerOK(server) /\ CallShape(call)
      /\ live \in [Keywords -> SUBSET Docs] /\ used \in [Keywords -> SUBSET Docs]
      /\ regular \in SUBSET Keywords /\ updates \in Nat
  BY UpdatesBound DEF IInv, Types
<1>2. \A w \in DOMAIN client.token : w \in Keywords /\ client.token[w] \in Keys
  <2> SUFFICES ASSUME NEW w \in DOMAIN client.token
               PROVE  w \in Keywords /\ client.token[w] \in Keys
    OBVIOUS
  <2>1. w \in Keywords
    BY <1>1 DEF ClientOK
  <2> QED BY <1>1, <2>1, KeyForFacts
<1>3. /\ DOMAIN client.token \subseteq Keywords /\ DOMAIN client.counter \subseteq Keywords
      /\ \A k \in DOMAIN client.ins : k \in Keys /\ client.ins[k] \in Nat
      /\ \A k \in DOMAIN client.del : k \in Keys /\ client.del[k] \in Nat
  BY <1>1 DEF ClientOK
<1>4. /\ server.up \in {"none", "ready", "nodb"}
      /\ \A t \in DOMAIN server.ins : t \in Keys \X Nat /\ server.ins[t] \in Docs
      /\ \A t \in DOMAIN server.del : server.del[t] \in Keys \X Docs
      /\ \A k \in DOMAIN server.cnt : k \in Keys \X Docs /\ server.cnt[k] \in Nat
  BY <1>1 DEF ServerOK
<1>5. "st" \in DOMAIN call => call.st \in {"sent", "done", "failed", "hung"}
  BY <1>1, HungShape
<1>6. \A w \in Keywords : live[w] \subseteq Docs /\ used[w] \subseteq Docs
  BY <1>1
<1> QED BY <1>1, <1>2, <1>3, <1>4, <1>5, <1>6 DEF TypeOK

\* ... and what the runs check.
LEMMA IInvSafe == IInv => TablesWithinCounters /\ RevokesOwnDocument
<1> SUFFICES ASSUME IInv PROVE TablesWithinCounters /\ RevokesOwnDocument
  OBVIOUS
<1>1. TypeOK
  BY IInvTypes
<1>2. fresh => Within(client, server) /\ Own(server)
  BY DEF IInv, Tables
<1>3. TablesWithinCounters
  BY <1>1, <1>2 DEF TablesWithinCounters, Within
<1>4. RevokesOwnDocument
  BY <1>2 DEF RevokesOwnDocument, Own
<1> QED BY <1>3, <1>4

\* IInv holds in every state of every behaviour of DianaInterface and its servers.
THEOREM Inductive == Spec => []IInv
BY InitIInv, NextIInv, PTL DEF Spec

\* The tables of a server that started empty hold nothing at or beyond the client's
\* counters, through failed calls, restarts and cleaning: no update of
\* DianaInterface::insertKeyword or deleteKeyword meets its own token.
THEOREM TablesBounded == Spec => []TablesWithinCounters
BY Inductive, IInvSafe, PTL

\* delCntMap leads to an entry of the key and document it is asked for: a deletion
\* hides only its own document.
THEOREM RevokesOwn == Spec => []RevokesOwnDocument
BY Inductive, IInvSafe, PTL

\* searchKeyword returns every live document exactly once when its calls succeed and
\* the keyword was used regularly, whatever was lost or cleaned before.
THEOREM Exact == Spec => []AnswerExact
<1>1. IInv => AnswerExact
  BY DEF IInv
<1> QED BY <1>1, Inductive, PTL

\* In regular use a search never aborts, and fails to return only when every document
\* of its keyword was deleted.
THEOREM Completes == Spec => []SearchCompletes
<1>1. IInv => SearchCompletes
  BY DEF IInv
<1> QED BY <1>1, Inductive, PTL
====
