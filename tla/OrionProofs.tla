---------------------------- MODULE OrionProofs -----------------------------
(***************************************************************************)
(* Proofs about Orion for any set of keywords and documents, when the      *)
(* caller sets up no document twice: the two maps stay consistent, and     *)
(* Orion implements TombstoneIndex.                                        *)
(***************************************************************************)
EXTENDS Orion, TLAPS

-----------------------------------------------------------------------------
\* Lemmas about OMAP and block identifiers.

\* Block identifiers are equal only when keyword and number are (createBid).
LEMMA BidInjective ==
    \A w, n, v, m : Bid(w, n) = Bid(v, m) <=> w = v /\ n = m
BY DEF Bid

\* find after insert sees the new value under its key and nothing else changed.
LEMMA FindInsert ==
    \A m, k, x, j : find(insert(m, k, x), j) = IF j = k THEN x ELSE find(m, j)
BY DEF find, insert

-----------------------------------------------------------------------------
\* Types of the maps.
UType(u) == DOMAIN u \subseteq Keywords \X Docs /\ \A k \in DOMAIN u : u[k] \in Positions
SType(s) == DOMAIN s \subseteq Keywords \X (Nat \ {0}) /\ \A k \in DOMAIN s : s[k] \in Docs
CType(c) == DOMAIN c \subseteq Keywords /\ \A w \in DOMAIN c : c[w] \in Nat
LType(l) == DOMAIN l \subseteq Keywords /\ \A w \in DOMAIN l : l[w] \in Docs

\* What find returns on typed maps.
LEMMA FindType ==
    ASSUME NEW u, NEW cnt, UType(u), CType(cnt)
    PROVE  /\ \A k : find(u, k) \in Positions
           /\ \A w : find(cnt, w) \in Nat
BY DEF find, UType, CType, Positions, Absent

\* Putting a document that is not in a list at its end (insert, setupInsert) keeps
\* every list consistent.
LEMMA AppendKeeps ==
    ASSUME NEW u, NEW s, NEW cnt, NEW last,
           UType(u), SType(s), CType(cnt), LType(last),
           \A v \in Keywords : Consistent(u, s, cnt, last, v),
           NEW w \in Keywords, NEW d \in Docs, find(u, Bid(w, d)) <= 0,
           NEW n, n = find(cnt, w) + 1,
           NEW v \in Keywords
    PROVE  Consistent(insert(u, Bid(w, d), n), insert(s, Bid(w, n), d),
                      insert(cnt, w, n), insert(last, w, d), v)
<1> DEFINE u2 == insert(u, Bid(w, d), n)
           s2 == insert(s, Bid(w, n), d)
           c2 == insert(cnt, w, n)
           l2 == insert(last, w, d)
<1>1. find(cnt, w) \in Nat /\ find(cnt, v) \in Nat /\ n \in Nat \ {0}
      /\ \A k : find(u, k) \in Int
  <2>1. (\A k : find(u, k) \in Positions) /\ (\A x : find(cnt, x) \in Nat)
    BY FindType
  <2>2. find(cnt, w) \in Nat /\ find(cnt, v) \in Nat
    BY <2>1
  <2> QED
    BY <2>1, <2>2 DEF Positions
<1>2. \A e \in Docs : find(u2, Bid(v, e)) = IF v = w /\ e = d THEN n ELSE find(u, Bid(v, e))
  BY FindInsert, BidInjective
<1>3. /\ \A i : Bid(v, i) \in DOMAIN s2 <=> Bid(v, i) \in DOMAIN s \/ (v = w /\ i = n)
      /\ \A i : Bid(v, i) \in DOMAIN s2 =>
             s2[Bid(v, i)] = IF v = w /\ i = n THEN d ELSE s[Bid(v, i)]
  <2>1. /\ DOMAIN s2 = DOMAIN s \cup {Bid(w, n)}
        /\ \A j \in DOMAIN s \cup {Bid(w, n)} :
              s2[j] = IF j = Bid(w, n) THEN d ELSE s[j]
    BY DEF insert
  <2> HIDE DEF s2
  <2> QED
    BY <2>1, BidInjective
<1>4. find(c2, v) = IF v = w THEN n ELSE find(cnt, v)
  BY FindInsert
<1>5. /\ v \in DOMAIN l2 <=> v \in DOMAIN last \/ v = w
      /\ v \in DOMAIN l2 => l2[v] = IF v = w THEN d ELSE last[v]
  BY DEF insert
<1>6. Consistent(u, s, cnt, last, v)
  OBVIOUS
<1>7. \A i : Bid(v, i) \in DOMAIN s => s[Bid(v, i)] \in Docs
  BY DEF SType
<1> HIDE DEF u2, s2, c2, l2
<1>8. ASSUME NEW i \in 1..find(c2, v)
      PROVE  Bid(v, i) \in DOMAIN s2 /\ find(u2, Bid(v, s2[Bid(v, i)])) = i
  <2>1. CASE v = w /\ i = n
    BY <2>1, <1>1, <1>2, <1>3
  <2>2. CASE ~(v = w /\ i = n)
    <3>1. i \in 1..find(cnt, v)
      BY <2>2, <1>1, <1>4
    <3>2. Bid(v, i) \in DOMAIN s /\ find(u, Bid(v, s[Bid(v, i)])) = i
      BY <3>1, <1>6 DEF Consistent
    <3>3. ~(v = w /\ s[Bid(v, i)] = d)
      BY <3>1, <3>2, <1>1
    <3> QED
      BY <2>2, <3>2, <3>3, <1>2, <1>3, <1>7
  <2> QED
    BY <2>1, <2>2
<1>9. ASSUME NEW e \in Docs, find(u2, Bid(v, e)) > 0
      PROVE  /\ find(u2, Bid(v, e)) <= find(c2, v)
             /\ s2[Bid(v, find(u2, Bid(v, e)))] = e
  <2>1. CASE v = w /\ e = d
    BY <2>1, <1>1, <1>2, <1>3, <1>4
  <2>2. CASE ~(v = w /\ e = d)
    <3> DEFINE p == find(u, Bid(v, e))
    <3>1. find(u2, Bid(v, e)) = p /\ p \in Int /\ p > 0
      BY <2>2, <1>1, <1>2, <1>9
    <3>2. p <= find(cnt, v) /\ s[Bid(v, p)] = e
      BY <3>1, <1>6 DEF Consistent
    <3>3. p \in 1..find(cnt, v)
      BY <3>1, <3>2, <1>1
    <3>4. Bid(v, p) \in DOMAIN s
      BY <3>3, <1>6 DEF Consistent
    <3> HIDE DEF p
    <3>5. ~(v = w /\ p = n) /\ p <= find(c2, v)
      BY <3>3, <1>1, <1>4
    <3> QED
      BY <3>1, <3>2, <3>4, <3>5, <1>3
  <2> QED
    BY <2>1, <2>2
<1>10. find(c2, v) > 0 => v \in DOMAIN l2 /\ l2[v] = s2[Bid(v, find(c2, v))]
  <2>1. CASE v = w
    BY <2>1, <1>1, <1>3, <1>4, <1>5
  <2>2. CASE v # w
    <3>1. SUFFICES ASSUME find(cnt, v) > 0
                   PROVE  v \in DOMAIN l2 /\ l2[v] = s2[Bid(v, find(cnt, v))]
      BY <2>2, <1>4
    <3>2. v \in DOMAIN last /\ last[v] = s[Bid(v, find(cnt, v))]
      BY <3>1, <1>6 DEF Consistent
    <3>3. find(cnt, v) \in 1..find(cnt, v)
      BY <3>1, <1>1
    <3>4. Bid(v, find(cnt, v)) \in DOMAIN s
      BY <3>3, <1>6 DEF Consistent
    <3> QED
      BY <2>2, <3>2, <3>4, <1>3, <1>5
  <2> QED
    BY <2>1, <2>2
<1>11. Consistent(u2, s2, c2, l2, v)
  BY <1>8, <1>9, <1>10 DEF Consistent
<1> QED
  BY <1>11 DEF u2, s2, c2, l2

\* Taking the document at position p out of a list, with the last one moved into
\* the hole (remove, setupRemove), keeps every list consistent.
LEMMA RemoveKeeps ==
    ASSUME NEW u, NEW s, NEW cnt, NEW last,
           UType(u), SType(s), CType(cnt), LType(last),
           \A v \in Keywords : Consistent(u, s, cnt, last, v),
           NEW w \in Keywords, NEW d \in Docs,
           NEW p, p = find(u, Bid(w, d)), p > 0,
           NEW n, n = find(cnt, w),
           NEW u2, u2 = IF n > 1 /\ p # n
                        THEN insert(insert(u, Bid(w, d), -1), Bid(w, last[w]), p)
                        ELSE insert(u, Bid(w, d), -1),
           NEW s2, s2 = IF n > 1 /\ p # n THEN insert(s, Bid(w, p), last[w]) ELSE s,
           NEW l2, l2 = IF n > 1 THEN insert(last, w, s2[Bid(w, n - 1)])
                                 ELSE [x \in DOMAIN last \ {w} |-> last[x]],
           NEW v \in Keywords
    PROVE  Consistent(u2, s2, insert(cnt, w, n - 1), l2, v)
<1> DEFINE c2 == insert(cnt, w, n - 1)
           z  == last[w]
           moves == n > 1 /\ p # n
<1>1. /\ \A k : find(u, k) \in Int
      /\ n \in Nat /\ find(cnt, v) \in Nat /\ p \in Nat \ {0}
  <2>1. (\A k : find(u, k) \in Positions) /\ (\A x : find(cnt, x) \in Nat)
    BY FindType
  <2>2. n \in Nat /\ find(cnt, v) \in Nat /\ p \in Positions
    BY <2>1
  <2> QED
    BY <2>1, <2>2 DEF Positions
<1>2. Consistent(u, s, cnt, last, v) /\ Consistent(u, s, cnt, last, w)
  OBVIOUS
<1>3. p <= n /\ s[Bid(w, p)] = d /\ p \in 1..n
  BY <1>1, <1>2 DEF Consistent
<1>4. /\ w \in DOMAIN last /\ z = s[Bid(w, n)]
      /\ Bid(w, n) \in DOMAIN s /\ z \in Docs /\ find(u, Bid(w, z)) = n
  <2>1. n > 0 /\ n \in 1..n
    BY <1>1, <1>3
  <2> QED
    BY <2>1, <1>2 DEF Consistent, LType
<1>5. \A i, j \in 1..find(cnt, v) : s[Bid(v, i)] = s[Bid(v, j)] => i = j
  BY <1>2 DEF Consistent
<1>6. \A e \in Docs :
         find(u2, Bid(v, e)) =
            IF v = w /\ moves /\ e = z THEN p
            ELSE IF v = w /\ e = d THEN -1 ELSE find(u, Bid(v, e))
  BY FindInsert, BidInjective
<1>7. /\ \A i : Bid(v, i) \in DOMAIN s => Bid(v, i) \in DOMAIN s2
      /\ \A i : Bid(v, i) \in DOMAIN s =>
            s2[Bid(v, i)] = IF v = w /\ moves /\ i = p THEN z ELSE s[Bid(v, i)]
  <2>1. CASE moves
    <3>1. /\ DOMAIN s2 = DOMAIN s \cup {Bid(w, p)}
          /\ \A j \in DOMAIN s : s2[j] = IF j = Bid(w, p) THEN z ELSE s[j]
      BY <2>1 DEF insert
    <3> QED
      BY <2>1, <3>1, BidInjective
  <2>2. CASE ~moves
    BY <2>2
  <2> QED
    BY <2>1, <2>2
<1>8. find(c2, v) = IF v = w THEN n - 1 ELSE find(cnt, v)
  BY FindInsert
<1>9. \A i : Bid(v, i) \in DOMAIN s => s[Bid(v, i)] \in Docs
  BY DEF SType
<1>10. moves => z # d
  BY <1>1, <1>3, <1>4
<1>11. ~moves => p = n
  BY <1>1, <1>3
<1> HIDE DEF c2, z
<1>12. ASSUME NEW i \in 1..find(c2, v)
       PROVE  Bid(v, i) \in DOMAIN s2 /\ find(u2, Bid(v, s2[Bid(v, i)])) = i
  <2>1. i \in 1..find(cnt, v) /\ (v = w => i # n)
    BY <1>1, <1>8
  <2>2. Bid(v, i) \in DOMAIN s /\ s[Bid(v, i)] \in Docs /\ find(u, Bid(v, s[Bid(v, i)])) = i
    BY <2>1, <1>2, <1>9 DEF Consistent
  <2>3. CASE v = w /\ moves /\ i = p
    BY <2>2, <2>3, <1>4, <1>6, <1>7
  <2>4. CASE v = w /\ ~(moves /\ i = p)
    <3>1. i # p
      BY <2>1, <2>4, <1>11
    <3>2. s2[Bid(v, i)] = s[Bid(v, i)] /\ s[Bid(v, i)] # d /\ s[Bid(v, i)] # z
      BY <2>1, <2>2, <2>4, <3>1, <1>4, <1>7
    <3> QED
      BY <2>2, <2>4, <3>2, <1>6, <1>7
  <2>5. CASE v # w
    BY <2>2, <2>5, <1>6, <1>7
  <2> QED
    BY <2>3, <2>4, <2>5
<1>13. ASSUME NEW e \in Docs, find(u2, Bid(v, e)) > 0
       PROVE  /\ find(u2, Bid(v, e)) <= find(c2, v)
              /\ s2[Bid(v, find(u2, Bid(v, e)))] = e
  <2>1. CASE v = w /\ moves /\ e = z
    <3>1. Bid(w, p) \in DOMAIN s /\ find(u2, Bid(v, e)) = p
      BY <2>1, <1>2, <1>3, <1>6 DEF Consistent
    <3>2. p <= n - 1
      BY <2>1, <1>1, <1>3
    <3> QED
      BY <2>1, <3>1, <3>2, <1>7, <1>8
  <2>2. CASE ~(v = w /\ moves /\ e = z)
    <3> DEFINE q == find(u, Bid(v, e))
    <3>1. find(u2, Bid(v, e)) = q /\ q \in Int /\ q > 0 /\ ~(v = w /\ e = d)
      BY <2>2, <1>1, <1>6, <1>13
    <3>2. q <= find(cnt, v) /\ s[Bid(v, q)] = e
      BY <3>1, <1>2 DEF Consistent
    <3>3. q \in 1..find(cnt, v)
      BY <3>1, <3>2, <1>1
    <3>4. Bid(v, q) \in DOMAIN s
      BY <3>3, <1>2 DEF Consistent
    <3>5. v = w => q # p
      BY <3>1, <3>2, <1>3
    <3>6. v = w => q # n
      BY <3>1, <3>2, <3>5, <2>2, <1>3, <1>4, <1>11
    <3> HIDE DEF q
    <3>7. q <= find(c2, v)
      BY <3>3, <3>6, <1>1, <1>8
    <3>8. s2[Bid(v, q)] = e
      BY <3>2, <3>4, <3>5, <1>7
    <3> QED
      BY <3>1, <3>7, <3>8
  <2> QED
    BY <2>1, <2>2
<1>14. find(c2, v) > 0 => v \in DOMAIN l2 /\ l2[v] = s2[Bid(v, find(c2, v))]
  <2>1. CASE v = w
    <3>1. SUFFICES ASSUME n - 1 > 0 PROVE v \in DOMAIN l2 /\ l2[v] = s2[Bid(v, n - 1)]
      BY <2>1, <1>8
    <3>2. n > 1
      BY <3>1, <1>1
    <3>3. l2 = insert(last, w, s2[Bid(w, n - 1)])
      BY <3>2
    <3> QED
      BY <2>1, <3>3 DEF insert
  <2>2. CASE v # w
    <3>1. SUFFICES ASSUME find(cnt, v) > 0
                   PROVE  v \in DOMAIN l2 /\ l2[v] = s2[Bid(v, find(cnt, v))]
      BY <2>2, <1>8
    <3>2. v \in DOMAIN last /\ last[v] = s[Bid(v, find(cnt, v))]
      BY <3>1, <1>2 DEF Consistent
    <3>3. find(cnt, v) \in 1..find(cnt, v)
      BY <3>1, <1>1
    <3>4. Bid(v, find(cnt, v)) \in DOMAIN s
      BY <3>3, <1>2 DEF Consistent
    <3>5. v \in DOMAIN l2 /\ l2[v] = last[v]
      BY <2>2, <3>2 DEF insert
    <3> QED
      BY <2>2, <3>2, <3>4, <3>5, <1>7
  <2> QED
    BY <2>1, <2>2
<1>15. Consistent(u2, s2, c2, l2, v)
  BY <1>12, <1>13, <1>14 DEF Consistent
<1> QED
  BY <1>15 DEF c2

\* insert keeps the types of the maps.
LEMMA UTypeInsert ==
    ASSUME NEW u, UType(u), NEW w \in Keywords, NEW d \in Docs, NEW p \in Positions
    PROVE  UType(insert(u, Bid(w, d), p))
BY DEF UType, insert, Bid

\* The same for a map from positions to documents.
LEMMA STypeInsert ==
    ASSUME NEW s, SType(s), NEW w \in Keywords, NEW i \in Nat \ {0}, NEW d \in Docs
    PROVE  SType(insert(s, Bid(w, i), d))
BY DEF SType, insert, Bid

\* The same for the counters.
LEMMA CTypeInsert ==
    ASSUME NEW c, CType(c), NEW w \in Keywords, NEW n \in Nat
    PROVE  CType(insert(c, w, n))
BY DEF CType, insert

\* The same for the last documents.
LEMMA LTypeInsert ==
    ASSUME NEW l, LType(l), NEW w \in Keywords, NEW d \in Docs
    PROVE  LType(insert(l, w, d))
BY DEF LType, insert

-----------------------------------------------------------------------------
\* Before setup ends the two oblivious maps are empty.
Phases ==
    /\ phase = "new" => UpdtCnt = EmptyMap
    /\ phase # "run" => updt = EmptyMap /\ srch = EmptyMap

Types ==
    /\ UType(updt) /\ SType(srch) /\ UType(setupPairs1) /\ SType(setupPairs2)
    /\ CType(UpdtCnt) /\ LType(LastIND)
    /\ phase \in {"new", "setup", "run"}

IInv == Types /\ Phases /\ ListsConsistent

\* TypeOK is the conjunction of the types of the single maps.
LEMMA TypesSplit == TypeOK <=> Types
BY DEF TypeOK, Types, UType, SType, CType, LType

\* In a consistent list that is not empty the last document is known, and so is
\* the one before the last, also after the last one was moved to position p.
LEMMA LastKnown ==
    ASSUME NEW u, NEW s, NEW cnt, NEW last,
           UType(u), SType(s), CType(cnt), LType(last),
           NEW w \in Keywords, Consistent(u, s, cnt, last, w),
           NEW d \in Docs, find(u, Bid(w, d)) > 0
    PROVE  /\ find(cnt, w) \in Nat /\ find(cnt, w) > 0
           /\ find(u, Bid(w, d)) \in Nat \ {0}
           /\ last[w] \in Docs
           /\ \A i \in 1..find(cnt, w) : Bid(w, i) \in DOMAIN s /\ s[Bid(w, i)] \in Docs
<1>1. find(cnt, w) \in Nat /\ find(u, Bid(w, d)) \in Positions
  BY FindType
<1>2. find(cnt, w) > 0 /\ find(u, Bid(w, d)) \in Nat \ {0}
  BY <1>1 DEF Consistent, Positions
<1>3. last[w] \in Docs
  BY <1>2 DEF Consistent, LType
<1>4. \A i \in 1..find(cnt, w) : Bid(w, i) \in DOMAIN s /\ s[Bid(w, i)] \in Docs
  BY DEF Consistent, SType
<1> QED
  BY <1>1, <1>2, <1>3, <1>4

\* The whole of an insertion: the maps after it are typed and consistent.
LEMMA AppendStep ==
    ASSUME NEW u, NEW s, UType(u), SType(s), CType(UpdtCnt), LType(LastIND),
           \A v \in Keywords : Consistent(u, s, UpdtCnt, LastIND, v),
           NEW w \in Keywords, NEW d \in Docs, find(u, Bid(w, d)) <= 0
    PROVE  /\ UType(Appended(u, w, d)) /\ SType(Listed(s, w, d))
           /\ CType(insert(UpdtCnt, w, Cnt(w) + 1)) /\ LType(insert(LastIND, w, d))
           /\ \A v \in Keywords :
                 Consistent(Appended(u, w, d), Listed(s, w, d),
                            insert(UpdtCnt, w, Cnt(w) + 1), insert(LastIND, w, d), v)
<1> DEFINE n == Cnt(w) + 1
<1>1. n \in Nat \ {0} /\ n \in Positions
  BY FindType DEF Cnt, Positions
<1>2. n = find(UpdtCnt, w) + 1
  BY DEF Cnt
<1> HIDE DEF n
<1>3. /\ UType(insert(u, Bid(w, d), n)) /\ SType(insert(s, Bid(w, n), d))
      /\ CType(insert(UpdtCnt, w, n)) /\ LType(insert(LastIND, w, d))
  BY <1>1, UTypeInsert, STypeInsert, CTypeInsert, LTypeInsert
<1>4. \A v \in Keywords :
         Consistent(insert(u, Bid(w, d), n), insert(s, Bid(w, n), d),
                    insert(UpdtCnt, w, n), insert(LastIND, w, d), v)
  BY <1>2, AppendKeeps
<1> QED
  BY <1>3, <1>4 DEF Appended, Listed, n

\* The whole of a removal: the maps after it are typed and consistent.
LEMMA RemoveStep ==
    ASSUME NEW u, NEW s, UType(u), SType(s), CType(UpdtCnt), LType(LastIND),
           \A v \in Keywords : Consistent(u, s, UpdtCnt, LastIND, v),
           NEW w \in Keywords, NEW d \in Docs,
           NEW p, p = find(u, Bid(w, d)), p > 0,
           NEW s2, s2 = Unlisted(s, w, p)
    PROVE  /\ UType(Unlinked(u, w, d, p)) /\ SType(s2)
           /\ CType(insert(UpdtCnt, w, Cnt(w) - 1)) /\ LType(NewLast(s2, w))
           /\ \A v \in Keywords :
                 Consistent(Unlinked(u, w, d, p), s2,
                            insert(UpdtCnt, w, Cnt(w) - 1), NewLast(s2, w), v)
<1>1. Consistent(u, s, UpdtCnt, LastIND, w)
  OBVIOUS
<1>2. /\ Cnt(w) \in Nat /\ Cnt(w) > 0 /\ p \in Nat \ {0}
      /\ LastIND[w] \in Docs
      /\ \A i \in 1..Cnt(w) : Bid(w, i) \in DOMAIN s /\ s[Bid(w, i)] \in Docs
  BY <1>1, LastKnown DEF Cnt
<1>3. p \in Positions /\ -1 \in Positions /\ Cnt(w) - 1 \in Nat
  BY <1>2 DEF Positions
<1>4. UType(Unlinked(u, w, d, p))
  <2>1. UType(insert(u, Bid(w, d), -1))
    BY <1>3, UTypeInsert
  <2>2. UType(insert(insert(u, Bid(w, d), -1), Bid(w, LastIND[w]), p))
    BY <2>1, <1>2, <1>3, UTypeInsert
  <2> QED
    BY <2>1, <2>2 DEF Unlinked
<1>5. SType(s2)
  BY <1>2, STypeInsert DEF Unlisted
<1>6. CType(insert(UpdtCnt, w, Cnt(w) - 1))
  BY <1>3, CTypeInsert
<1>7. LType(NewLast(s2, w))
  <2>1. CASE Cnt(w) > 1
    <3>1. Cnt(w) - 1 \in 1..Cnt(w)
      BY <2>1, <1>2
    <3>2. Bid(w, Cnt(w) - 1) \in DOMAIN s2
      BY <3>1, <1>2 DEF Unlisted, insert
    <3>3. s2[Bid(w, Cnt(w) - 1)] \in Docs
      BY <3>2, <1>5 DEF SType
    <3> QED
      BY <2>1, <3>3, LTypeInsert DEF NewLast
  <2>2. CASE ~(Cnt(w) > 1)
    BY <2>2 DEF NewLast, LType
  <2> QED
    BY <2>1, <2>2
<1>8. ASSUME NEW v \in Keywords
      PROVE  Consistent(Unlinked(u, w, d, p), s2,
                        insert(UpdtCnt, w, Cnt(w) - 1), NewLast(s2, w), v)
  <2> DEFINE n == Cnt(w)  u2 == Unlinked(u, w, d, p)  l2 == NewLast(s2, w)
  <2>1. u2 = IF n > 1 /\ p # n
             THEN insert(insert(u, Bid(w, d), -1), Bid(w, LastIND[w]), p)
             ELSE insert(u, Bid(w, d), -1)
    BY DEF Unlinked, Moves
  <2>2. s2 = IF n > 1 /\ p # n THEN insert(s, Bid(w, p), LastIND[w]) ELSE s
    BY DEF Unlisted, Moves
  <2>3. l2 = IF n > 1 THEN insert(LastIND, w, s2[Bid(w, n - 1)])
                      ELSE [x \in DOMAIN LastIND \ {w} |-> LastIND[x]]
    BY DEF NewLast
  <2>4. n = find(UpdtCnt, w)
    BY DEF Cnt
  <2> HIDE DEF n, u2, l2
  <2>5. Consistent(u2, s2, insert(UpdtCnt, w, n - 1), l2, v)
    BY <2>1, <2>2, <2>3, <2>4, RemoveKeeps
  <2> QED
    BY <2>5 DEF n, u2, l2
<1> QED
  BY <1>4, <1>5, <1>6, <1>7, <1>8

-----------------------------------------------------------------------------
\* The initial state satisfies the inductive invariant.
LEMMA InitIInv == Init => IInv
<1> SUFFICES ASSUME Init PROVE IInv
  OBVIOUS
<1>1. Types
  BY DEF Init, Types, UType, SType, CType, LType, EmptyMap
<1>2. Phases
  BY DEF Init, Phases
<1>3. ListsConsistent
  BY DEF Init, ListsConsistent, Consistent, find, EmptyMap, Absent
<1> QED
  BY <1>1, <1>2, <1>3 DEF IInv

\* insert keeps the inductive invariant.
LEMMA AddIInv ==
    ASSUME IInv, NEW w \in Keywords, NEW d \in Docs, add(w, d)
    PROVE  IInv'
<1>1. /\ UType(updt) /\ SType(srch) /\ CType(UpdtCnt) /\ LType(LastIND)
      /\ UType(setupPairs1) /\ SType(setupPairs2)
      /\ \A v \in Keywords : Consistent(updt, srch, UpdtCnt, LastIND, v)
      /\ phase' = "run" /\ UNCHANGED staged
  BY DEF IInv, Types, ListsConsistent, add, Running
<1>2. CASE find(updt, Bid(w, d)) = Absent
  <2>1. find(updt, Bid(w, d)) <= 0
    BY <1>2 DEF Absent
  <2>2. /\ updt' = Appended(updt, w, d) /\ srch' = Listed(srch, w, d)
        /\ UpdtCnt' = insert(UpdtCnt, w, Cnt(w) + 1)
        /\ LastIND' = insert(LastIND, w, d)
    BY <1>2 DEF add
  <2>3. /\ UType(updt') /\ SType(srch') /\ CType(UpdtCnt') /\ LType(LastIND')
        /\ \A v \in Keywords : Consistent(updt', srch', UpdtCnt', LastIND', v)
    BY <1>1, <2>1, <2>2, AppendStep
  <2> QED
    BY <1>1, <2>3 DEF IInv, Types, Phases, ListsConsistent, staged
<1>3. CASE find(updt, Bid(w, d)) # Absent
  <2>1. UNCHANGED <<UpdtCnt, LastIND, updt, srch>>
    BY <1>3 DEF add, maps
  <2> QED
    BY <1>1, <2>1 DEF IInv, Types, Phases, ListsConsistent, staged
<1> QED
  BY <1>2, <1>3

\* remove keeps the inductive invariant.
LEMMA RemoveIInv ==
    ASSUME IInv, NEW w \in Keywords, NEW d \in Docs, remove(w, d)
    PROVE  IInv'
<1> DEFINE p == find(updt, Bid(w, d))
<1>1. /\ UType(updt) /\ SType(srch) /\ CType(UpdtCnt) /\ LType(LastIND)
      /\ UType(setupPairs1) /\ SType(setupPairs2)
      /\ \A v \in Keywords : Consistent(updt, srch, UpdtCnt, LastIND, v)
      /\ phase' = "run" /\ UNCHANGED staged
  BY DEF IInv, Types, ListsConsistent, remove, Running
<1>2. CASE p > 0
  <2>1. /\ updt' = Unlinked(updt, w, d, p) /\ srch' = Unlisted(srch, w, p)
        /\ UpdtCnt' = insert(UpdtCnt, w, Cnt(w) - 1)
        /\ LastIND' = NewLast(srch', w)
    BY <1>2 DEF remove
  <2>2. /\ UType(updt') /\ SType(srch') /\ CType(UpdtCnt') /\ LType(LastIND')
        /\ \A v \in Keywords : Consistent(updt', srch', UpdtCnt', LastIND', v)
    BY <1>1, <1>2, <2>1, RemoveStep
  <2> QED
    BY <1>1, <2>2 DEF IInv, Types, Phases, ListsConsistent, staged
<1>3. CASE ~(p > 0)
  <2>1. UNCHANGED <<UpdtCnt, LastIND, updt, srch>>
    BY <1>3 DEF remove, maps
  <2> QED
    BY <1>1, <2>1 DEF IInv, Types, Phases, ListsConsistent, staged
<1> QED
  BY <1>2, <1>3

\* setupInsert keeps the inductive invariant when no document is set up twice.
LEMMA SetupInsertIInv ==
    ASSUME IInv, ~Duplicates, NEW w \in Keywords, NEW d \in Docs, setupInsert(w, d)
    PROVE  IInv'
<1>1. /\ UType(updt) /\ SType(srch) /\ CType(UpdtCnt) /\ LType(LastIND)
      /\ UType(setupPairs1) /\ SType(setupPairs2)
      /\ \A v \in Keywords : Consistent(setupPairs1, setupPairs2, UpdtCnt, LastIND, v)
      /\ phase = "setup" /\ phase' = "setup" /\ updt' = updt /\ srch' = srch
      /\ updt = EmptyMap /\ srch = EmptyMap
      /\ find(setupPairs1, Bid(w, d)) <= 0
  BY DEF IInv, Types, Phases, ListsConsistent, setupInsert, maps
<1>2. /\ setupPairs1' = Appended(setupPairs1, w, d)
      /\ setupPairs2' = Listed(setupPairs2, w, d)
      /\ UpdtCnt' = insert(UpdtCnt, w, Cnt(w) + 1)
      /\ LastIND' = insert(LastIND, w, d)
  BY DEF setupInsert
<1>3. /\ UType(setupPairs1') /\ SType(setupPairs2') /\ CType(UpdtCnt') /\ LType(LastIND')
      /\ \A v \in Keywords :
            Consistent(setupPairs1', setupPairs2', UpdtCnt', LastIND', v)
  BY <1>1, <1>2, AppendStep
<1> QED
  BY <1>1, <1>3 DEF IInv, Types, Phases, ListsConsistent

\* setupRemove keeps the inductive invariant.
LEMMA SetupRemoveIInv ==
    ASSUME IInv, NEW w \in Keywords, NEW d \in Docs, setupRemove(w, d)
    PROVE  IInv'
<1> DEFINE p == find(setupPairs1, Bid(w, d))
<1>1. /\ UType(updt) /\ SType(srch) /\ CType(UpdtCnt) /\ LType(LastIND)
      /\ UType(setupPairs1) /\ SType(setupPairs2)
      /\ \A v \in Keywords : Consistent(setupPairs1, setupPairs2, UpdtCnt, LastIND, v)
      /\ phase = "setup" /\ phase' = "setup" /\ updt' = updt /\ srch' = srch
      /\ updt = EmptyMap /\ srch = EmptyMap
  BY DEF IInv, Types, Phases, ListsConsistent, setupRemove, maps
<1>2. CASE p > 0
  <2>1. /\ setupPairs1' = Unlinked(setupPairs1, w, d, p)
        /\ setupPairs2' = Unlisted(setupPairs2, w, p)
        /\ UpdtCnt' = insert(UpdtCnt, w, Cnt(w) - 1)
        /\ LastIND' = NewLast(setupPairs2', w)
    BY <1>2 DEF setupRemove
  <2>2. /\ UType(setupPairs1') /\ SType(setupPairs2') /\ CType(UpdtCnt') /\ LType(LastIND')
        /\ \A v \in Keywords :
              Consistent(setupPairs1', setupPairs2', UpdtCnt', LastIND', v)
    BY <1>1, <1>2, <2>1, RemoveStep
  <2> QED
    BY <1>1, <2>2 DEF IInv, Types, Phases, ListsConsistent
<1>3. CASE ~(p > 0)
  <2>1. /\ setupPairs1' = insert(setupPairs1, Bid(w, d), p)
        /\ UNCHANGED <<UpdtCnt, LastIND, setupPairs2>>
    BY <1>3 DEF setupRemove
  <2>2. p \in Positions
    BY <1>1, FindType
  <2>3. UType(setupPairs1')
    BY <1>1, <2>1, <2>2, UTypeInsert
  <2>4. \A k : find(setupPairs1', k) = find(setupPairs1, k)
    BY <2>1, FindInsert
  <2>5. \A v \in Keywords :
           Consistent(setupPairs1', setupPairs2', UpdtCnt', LastIND', v)
    BY <1>1, <2>1, <2>4 DEF Consistent
  <2> QED
    BY <1>1, <2>1, <2>3, <2>5 DEF IInv, Types, Phases, ListsConsistent
<1> QED
  BY <1>2, <1>3

\* Copying a map into an empty one copies what find and the lookups see.
LEMMA CopyMap ==
    ASSUME NEW pairs
    PROVE  /\ DOMAIN batchInsert(EmptyMap, pairs) = DOMAIN pairs
           /\ \A k \in DOMAIN pairs : batchInsert(EmptyMap, pairs)[k] = pairs[k]
           /\ \A k : find(batchInsert(EmptyMap, pairs), k) = find(pairs, k)
BY DEF batchInsert, EmptyMap, find

\* endSetup keeps the inductive invariant.
LEMMA EndSetupIInv ==
    ASSUME IInv, endSetup
    PROVE  IInv'
<1>1. /\ CType(UpdtCnt) /\ LType(LastIND) /\ UType(setupPairs1) /\ SType(setupPairs2)
      /\ \A v \in Keywords : Consistent(setupPairs1, setupPairs2, UpdtCnt, LastIND, v)
      /\ phase' = "run" /\ UNCHANGED <<UpdtCnt, LastIND, setupPairs1, setupPairs2>>
      /\ updt' = batchInsert(EmptyMap, setupPairs1)
      /\ srch' = batchInsert(EmptyMap, setupPairs2)
  BY DEF IInv, Types, Phases, ListsConsistent, endSetup, staged
<1>2. /\ DOMAIN updt' = DOMAIN setupPairs1
      /\ \A k \in DOMAIN setupPairs1 : updt'[k] = setupPairs1[k]
      /\ \A k : find(updt', k) = find(setupPairs1, k)
  BY <1>1, CopyMap
<1>3. /\ DOMAIN srch' = DOMAIN setupPairs2
      /\ \A k \in DOMAIN setupPairs2 : srch'[k] = setupPairs2[k]
  BY <1>1, CopyMap
<1>4. UType(updt') /\ SType(srch')
  BY <1>1, <1>2, <1>3 DEF UType, SType
<1>5. ASSUME NEW v \in Keywords
      PROVE  Consistent(updt', srch', UpdtCnt', LastIND', v)
  <2> DEFINE n == find(UpdtCnt, v)
  <2>1. Consistent(setupPairs1, setupPairs2, UpdtCnt, LastIND, v) /\ n \in Nat
    BY <1>1, FindType
  <2>2. \A i \in 1..n : Bid(v, i) \in DOMAIN setupPairs2 /\ srch'[Bid(v, i)] = setupPairs2[Bid(v, i)]
    BY <2>1, <1>3 DEF Consistent
  <2>3. \A d \in Docs : find(setupPairs1, Bid(v, d)) > 0 =>
           find(setupPairs1, Bid(v, d)) \in 1..n
    <3>1. \A d \in Docs : find(setupPairs1, Bid(v, d)) \in Positions
      BY <1>1, FindType
    <3> QED
      BY <2>1, <3>1 DEF Consistent, Positions
  <2>4. n > 0 => n \in 1..n
    BY <2>1
  <2>5. find(UpdtCnt', v) = n
    BY <1>1
  <2> HIDE DEF n
  <2>6. \A i \in 1..n : Bid(v, i) \in DOMAIN srch' /\ find(updt', Bid(v, srch'[Bid(v, i)])) = i
    BY <2>1, <2>2, <1>2, <1>3 DEF Consistent, n
  <2>7. \A d \in Docs : find(updt', Bid(v, d)) > 0 =>
           /\ find(updt', Bid(v, d)) <= n
           /\ srch'[Bid(v, find(updt', Bid(v, d)))] = d
    BY <2>1, <2>2, <2>3, <1>2 DEF Consistent, n
  <2>8. n > 0 => v \in DOMAIN LastIND' /\ LastIND'[v] = srch'[Bid(v, n)]
    BY <2>1, <2>2, <2>4, <1>1 DEF Consistent, n
  <2> QED
    BY <2>5, <2>6, <2>7, <2>8 DEF Consistent
<1> QED
  BY <1>1, <1>4, <1>5 DEF IInv, Types, Phases, ListsConsistent

\* Every step keeps the inductive invariant.
LEMMA NextIInv == ~Duplicates /\ IInv /\ [Next]_vars => IInv'
<1> SUFFICES ASSUME ~Duplicates, IInv, [Next]_vars PROVE IInv'
  OBVIOUS
<1>1. ASSUME NEW w \in Keywords, NEW d \in Docs,
             add(w, d) \/ remove(w, d) \/ setupInsert(w, d) \/ setupRemove(w, d)
      PROVE  IInv'
  BY <1>1, AddIInv, RemoveIInv, SetupInsertIInv, SetupRemoveIInv
<1>2. ASSUME NEW w \in Keywords, search(w) PROVE IInv'
  BY <1>2 DEF search, IInv, Types, Phases, ListsConsistent, maps, staged
<1>3. CASE beginSetup
  <2>1. /\ UpdtCnt = EmptyMap /\ updt = EmptyMap /\ srch = EmptyMap
        /\ UNCHANGED <<UpdtCnt, LastIND, updt, srch>>
        /\ setupPairs1' = EmptyMap /\ setupPairs2' = EmptyMap /\ phase' = "setup"
    BY <1>3 DEF beginSetup, IInv, Phases, maps
  <2>2. Types'
    BY <2>1 DEF IInv, Types, UType, SType, CType, LType, EmptyMap
  <2>3. ListsConsistent'
    BY <2>1 DEF ListsConsistent, Consistent, find, EmptyMap, Absent
  <2> QED
    BY <2>1, <2>2, <2>3 DEF IInv, Phases
<1>4. CASE endSetup
  BY <1>4, EndSetupIInv
<1>5. CASE UNCHANGED vars
  BY <1>5 DEF vars, IInv, Types, Phases, ListsConsistent
<1> QED
  BY <1>1, <1>2, <1>3, <1>4, <1>5 DEF Next

\* The maps of Orion have their types and describe the same lists in every
\* reachable state, for all keywords and documents, when the caller sets up no
\* document twice.
THEOREM Consistency ==
    ASSUME ~Duplicates
    PROVE  Spec => [](TypeOK /\ ListsConsistent)
<1>1. IInv => TypeOK /\ ListsConsistent
  BY TypesSplit DEF IInv
<1>2. IInv /\ [Next]_vars => IInv'
  BY NextIInv
<1> QED
  BY <1>1, <1>2, InitIInv, PTL DEF Spec

-----------------------------------------------------------------------------
\* A search of a consistent list answers with the documents that updt holds.
LEMMA ResultIsLive ==
    ASSUME IInv, NEW w \in Keywords
    PROVE  Result(w) = Live[w]
<1>1. CASE phase = "setup"
  BY <1>1 DEF IInv, Phases, Result, Live, batchSearch, find, EmptyMap, Absent
<1>2. CASE phase # "setup"
  <2> DEFINE n == find(UpdtCnt, w)
  <2>1. /\ Consistent(updt, srch, UpdtCnt, LastIND, w)
        /\ UType(updt) /\ SType(srch) /\ CType(UpdtCnt)
    BY <1>2 DEF IInv, Types, ListsConsistent
  <2>2. n \in Nat /\ \A d \in Docs : find(updt, Bid(w, d)) \in Positions
    BY <2>1, FindType
  <2>3. Result(w) = {srch[Bid(w, i)] : i \in 1..n}
    <3>1. \A i \in 1..n : Bid(w, i) \in DOMAIN srch
      BY <2>1 DEF Consistent
    <3> QED
      BY <3>1 DEF Result, batchSearch, Cnt
  <2>4. ASSUME NEW i \in 1..n PROVE srch[Bid(w, i)] \in Live[w]
    BY <2>1, <2>2 DEF Consistent, SType, Live
  <2>5. ASSUME NEW d \in Live[w] PROVE \E i \in 1..n : d = srch[Bid(w, i)]
    <3>1. d \in Docs /\ find(updt, Bid(w, d)) > 0
      BY DEF Live
    <3>2. find(updt, Bid(w, d)) \in 1..n
      BY <2>1, <2>2, <3>1 DEF Consistent, Positions
    <3> QED
      BY <2>1, <3>1, <3>2 DEF Consistent
  <2> QED
    BY <2>3, <2>4, <2>5
<1> QED
  BY <1>1, <1>2

\* insert adds the document unless it was removed before.
LEMMA AddRefines ==
    ASSUME IInv, NEW w \in Keywords, NEW d \in Docs, add(w, d)
    PROVE  Index!Add(w, d)
<1> DEFINE p == find(updt, Bid(w, d))
<1>1. p \in Positions /\ Cnt(w) \in Nat
  BY FindType DEF IInv, Types, Cnt
<1>2. answer' = answer
  BY DEF add
<1>3. CASE p = Absent
  <2>1. updt' = insert(updt, Bid(w, d), Cnt(w) + 1)
    BY <1>3 DEF add, Appended
  <2>2. \A v, e : find(updt', Bid(v, e)) =
                    IF v = w /\ e = d THEN Cnt(w) + 1 ELSE find(updt, Bid(v, e))
    BY <2>1, FindInsert, BidInjective
  <2>3. Live' = [Live EXCEPT ![w] = @ \cup {d}] /\ Dead' = Dead
    <3>1. p = 0 /\ Cnt(w) + 1 > 0 /\ ~(Cnt(w) + 1 < 0) /\ Cnt(w) + 1 \in Nat
      BY <1>1, <1>3 DEF Absent
    <3>2. \A v \in Keywords :
             /\ Live'[v] = IF v = w THEN Live[w] \cup {d} ELSE Live[v]
             /\ Dead'[v] = Dead[v]
      BY <2>2, <3>1 DEF Live, Dead
    <3> QED
      BY <3>2 DEF Live, Dead
  <2>4. d \notin Dead[w]
    BY <1>3 DEF Dead, Absent
  <2> QED
    BY <1>2, <2>3, <2>4 DEF Index!Add
<1>4. CASE p # Absent
  <2>1. updt' = updt
    BY <1>4 DEF add, maps
  <2>2. Live' = Live /\ Dead' = Dead
    BY <2>1 DEF Live, Dead
  <2>3. d \in Dead[w] \/ d \in Live[w]
    BY <1>1, <1>4 DEF Live, Dead, Positions, Absent
  <2>4. d \in Live[w] => Live = [Live EXCEPT ![w] = @ \cup {d}]
    BY DEF Live
  <2> QED
    BY <1>2, <2>2, <2>3, <2>4 DEF Index!Add
<1> QED
  BY <1>3, <1>4

\* remove takes the document out once and for all, or throws.
LEMMA RemoveRefines ==
    ASSUME IInv, NEW w \in Keywords, NEW d \in Docs, remove(w, d)
    PROVE  Index!Remove(w, d) \/ Index!Fail
<1> DEFINE p == find(updt, Bid(w, d))
<1>1. p \in Positions
  BY FindType DEF IInv, Types
<1>2. CASE p > 0
  <2>1. updt' = Unlinked(updt, w, d, p) /\ answer' = answer
    BY <1>2 DEF remove, Absent
  <2>2. ~(phase = "setup") /\ Consistent(updt, srch, UpdtCnt, LastIND, w)
    BY DEF remove, Running, IInv, ListsConsistent
  <2> DEFINE z == LastIND[w]
  <2>3. /\ Cnt(w) \in Nat /\ Cnt(w) > 0 /\ z \in Docs
        /\ find(updt, Bid(w, z)) = Cnt(w)
    <3>1. find(UpdtCnt, w) \in Nat /\ find(UpdtCnt, w) > 0 /\ z \in Docs
      BY <1>2, <2>2, LastKnown DEF IInv, Types
    <3>2. find(UpdtCnt, w) \in 1..find(UpdtCnt, w)
      BY <3>1
    <3> QED
      BY <3>1, <3>2, <2>2 DEF Consistent, Cnt
  <2>4. \A v, e : find(updt', Bid(v, e)) =
            IF v = w /\ Moves(w, p) /\ e = z THEN p
            ELSE IF v = w /\ e = d THEN -1 ELSE find(updt, Bid(v, e))
    BY <2>1, FindInsert, BidInjective DEF Unlinked
  <2>5. Moves(w, p) => z # d
    BY <2>3 DEF Moves
  <2> HIDE DEF z
  <2>6. ASSUME NEW v \in Keywords
        PROVE  /\ Live'[v] = IF v = w THEN Live[w] \ {d} ELSE Live[v]
               /\ Dead'[v] = IF v = w THEN Dead[w] \cup {d} ELSE Dead[v]
    <3>1. CASE v = w
      <4>1. \A e \in Docs :
               /\ find(updt', Bid(w, e)) > 0 <=> find(updt, Bid(w, e)) > 0 /\ e # d
               /\ find(updt', Bid(w, e)) < 0 <=> find(updt, Bid(w, e)) < 0 \/ e = d
        <5> TAKE e \in Docs
        <5>1. CASE Moves(w, p) /\ e = z
          <6>1. find(updt', Bid(w, e)) = p /\ find(updt, Bid(w, e)) = Cnt(w) /\ e # d
            BY <2>3, <2>4, <2>5, <5>1
          <6> HIDE DEF p
          <6> QED
            BY <1>1, <1>2, <2>3, <6>1 DEF Positions
        <5>2. CASE ~(Moves(w, p) /\ e = z) /\ e = d
          <6>1. find(updt', Bid(w, e)) = -1 /\ find(updt, Bid(w, e)) = p
            BY <2>4, <5>2
          <6> HIDE DEF p
          <6> QED
            BY <1>1, <1>2, <5>2, <6>1 DEF Positions
        <5>3. CASE ~(Moves(w, p) /\ e = z) /\ e # d
          BY <2>4, <5>3
        <5> QED
          BY <5>1, <5>2, <5>3
      <4> QED
        BY <3>1, <4>1 DEF Live, Dead
    <3>2. CASE v # w
      BY <2>4, <3>2 DEF Live, Dead
    <3> QED
      BY <3>1, <3>2
  <2>7. /\ Live' = [Live EXCEPT ![w] = @ \ {d}]
        /\ Dead' = [Dead EXCEPT ![w] = @ \cup {d}]
    BY <2>6 DEF Live, Dead
  <2>8. d \in Live[w]
    BY <1>2 DEF Live
  <2> QED
    BY <2>1, <2>7, <2>8 DEF Index!Remove
<1>3. CASE p < 0
  <2>1. updt' = updt /\ answer' = answer
    BY <1>1, <1>3 DEF remove, Absent, maps, Positions
  <2>2. Live' = Live /\ Dead' = Dead
    BY <2>1 DEF Live, Dead
  <2>3. d \in Dead[w] /\ d \notin Live[w]
    BY <1>3, <1>1 DEF Live, Dead, Positions
  <2>4. Live = [Live EXCEPT ![w] = @ \ {d}] /\ Dead = [Dead EXCEPT ![w] = @ \cup {d}]
    BY <2>3 DEF Live, Dead
  <2> QED
    BY <2>1, <2>2, <2>3, <2>4 DEF Index!Remove
<1>4. CASE p = 0
  <2>1. updt' = updt /\ answer' = <<"threw">>
    BY <1>4 DEF remove, Absent, maps
  <2> QED
    BY <2>1 DEF Index!Fail, Live, Dead
<1> QED
  BY <1>1, <1>2, <1>3, <1>4 DEF Positions

\* Orion implements TombstoneIndex when the caller sets up no document twice: its
\* initial state is an empty index, and each of its steps is a step of the index or
\* leaves it alone.
THEOREM Refinement ==
    ASSUME ~Duplicates
    PROVE  Spec => ImplementsIndex
<1>1. Init => Index!Init
  BY DEF Init, Index!Init, Live, Dead, find, EmptyMap, Absent
<1>2. IInv /\ [Next]_vars => [Index!Next]_(Index!vars)
  <2> SUFFICES ASSUME IInv, [Next]_vars PROVE [Index!Next]_(Index!vars)
    OBVIOUS
  <2>1. ASSUME updt' = updt PROVE Live' = Live /\ Dead' = Dead
    BY <2>1 DEF Live, Dead
  <2>2. ASSUME NEW w \in Keywords, NEW d \in Docs, add(w, d) PROVE Index!Next
    BY <2>2, AddRefines DEF Index!Next
  <2>3. ASSUME NEW w \in Keywords, NEW d \in Docs, remove(w, d) PROVE Index!Next
    BY <2>3, RemoveRefines DEF Index!Next
  <2>4. ASSUME NEW w \in Keywords, NEW d \in Docs, setupInsert(w, d)
        PROVE  UNCHANGED Index!vars
    BY <2>4, <2>1 DEF setupInsert, maps, Index!vars
  <2>5. ASSUME NEW w \in Keywords, NEW d \in Docs, setupRemove(w, d)
        PROVE  Index!Fail \/ UNCHANGED Index!vars
    BY <2>5, <2>1 DEF setupRemove, maps, Index!vars, Index!Fail
  <2>6. ASSUME NEW w \in Keywords, search(w) PROVE Index!Next
    <3>1. Result(w) = Live[w]
      BY ResultIsLive
    <3> QED
      BY <2>6, <2>1, <3>1 DEF search, maps, Index!Search, Index!Next
  <2>7. CASE beginSetup
    BY <2>7, <2>1 DEF beginSetup, maps, Index!vars
  <2>8. CASE endSetup
    <3>1. \A w \in Keywords : Live[w] = {} /\ Dead[w] = {}
      BY <2>8 DEF endSetup, IInv, Phases, Live, Dead, find, EmptyMap, Absent
    <3>2. /\ Live' \in [Keywords -> SUBSET Docs] /\ Dead' \in [Keywords -> SUBSET Docs]
          /\ answer' = answer
      BY <2>8 DEF endSetup, Live, Dead
    <3>3. ASSUME NEW w \in Keywords PROVE Live'[w] \cap Dead'[w] = {}
      <4>1. IInv'
        BY <2>8, EndSetupIInv
      <4>2. \A d \in Docs : find(updt', Bid(w, d)) \in Positions
        BY <4>1, FindType DEF IInv, Types
      <4> QED
        BY <4>2 DEF Live, Dead, Positions
    <3> QED
      BY <3>1, <3>2, <3>3 DEF Index!Load, Index!Next
  <2>9. CASE UNCHANGED vars
    BY <2>9, <2>1 DEF vars, Index!vars
  <2> QED
    BY <2>2, <2>3, <2>4, <2>5, <2>6, <2>7, <2>8, <2>9 DEF Next, Index!Next
<1>3. IInv /\ [Next]_vars => IInv'
  BY NextIInv
<1> QED
  BY <1>1, <1>2, <1>3, InitIInv, PTL DEF Spec, ImplementsIndex, Index!Spec
=============================================================================
