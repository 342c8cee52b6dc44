---------------------------- MODULE MitraProofs -----------------------------
(***************************************************************************)
(* Mitra on a single machine, for every set of keywords and documents and  *)
(* every bound: the client's counters always reach decodable entries, no   *)
(* step overwrites one of them, and the program implements SSEIndex.       *)
(***************************************************************************)
EXTENDS Mitra, FiniteSetTheorems, TLAPS

\* What a keyword's counters promise: a known keyword has at least one update,
\* and every counted update is a decodable entry for a real document.
KnownCounted ==
    \A w \in Keywords : KW(w) \in DOMAIN FileCnt => FileCnt[KW(w)] >= 1
EntriesReal ==
    \A w \in Keywords : \A i \in 1..Count(w) : DictW[AddrOf(w, i)].ind \in Docs

IInv == TypeOK /\ KnownCounted /\ EntriesDecodable /\ EntriesReal

-----------------------------------------------------------------------------
\* The rank of i in 1..n is i itself.
LEMMA RankInterval ==
    ASSUME NEW n \in Nat, NEW i \in 1..n
    PROVE  Rank(1..n, i) = i
<1>1. {j \in 1..n : j <= i} = 1..i
  OBVIOUS
<1>2. Cardinality(1..i) = i
  BY FS_Interval
<1> QED
  BY <1>1, <1>2 DEF Rank

\* Server::search with nothing missing returns one ciphertext per address.
LEMMA ServerSearchComplete ==
    ASSUME NEW dict, NEW n \in Nat, NEW KList, DOMAIN KList = 1..n,
           \A i \in 1..n : KList[i] \in DOMAIN dict
    PROVE  ServerSearch(dict, KList) = [p \in 1..n |-> dict[KList[p]]]
<1>1. Hits(dict, KList) = 1..n
  BY DEF Hits
<1>2. Cardinality(1..n) = n
  BY FS_Interval
<1>3. ASSUME NEW p \in 1..n
      PROVE  Nth(1..n, p) = p
  BY RankInterval DEF Nth
<1> QED
  BY <1>1, <1>2, <1>3 DEF ServerSearch

\* The results of a search are a finite set of identifiers.
LEMMA ResultsFinite ==
    ASSUME NEW res \in SUBSET Inds
    PROVE  IsFiniteSet(res) /\ Cardinality(res) \in Nat
BY MitraAssumption, FS_AddElement, FS_Subset, FS_CardinalityType DEF Inds

-----------------------------------------------------------------------------
\* A search of a known keyword reads its entries, all of them and in order.
LEMMA SearchReads ==
    ASSUME IInv, NEW w \in Keywords, KW(w) \in DOMAIN FileCnt
    PROVE  LET n   == Count(w)
               k   == AfterKList(KW(w), Epoch(w), n)
               enc == ServerSearch(DictW, KListOf(KW(w), Epoch(w), n))
           IN  /\ n \in Nat /\ n >= 1
               /\ Epoch(w) \in Nat
               /\ enc = [p \in 1..n |-> DictW[AddrOf(w, p)]]
               /\ Decoded(enc, k, Epoch(w)) = 1..n
<1> DEFINE n   == Count(w)
           k   == AfterKList(KW(w), Epoch(w), n)
           KL  == KListOf(KW(w), Epoch(w), n)
           enc == ServerSearch(DictW, KL)
<1>1. n \in Nat /\ n >= 1
  BY DEF IInv, TypeOK, KnownCounted, Count, At
<1>2. Epoch(w) \in Nat
  BY DEF Epoch, At, IInv, TypeOK
<1>3. DOMAIN KL = 1..n /\ \A i \in 1..n : KL[i] = AddrOf(w, i)
  BY DEF KListOf, AddrOf
<1>4. \A i \in 1..n : AddrOf(w, i) \in DOMAIN DictW /\ DictW[AddrOf(w, i)].mask = MaskOf(w, i)
  BY <1>1 DEF IInv, EntriesDecodable
<1>5. enc = [p \in 1..n |-> DictW[KL[p]]]
  <2> HIDE DEF n, KL
  <2> QED BY <1>1, <1>3, <1>4, ServerSearchComplete
<1>6. enc = [p \in 1..n |-> DictW[AddrOf(w, p)]]
  <2> HIDE DEF n, KL, enc
  <2> QED BY <1>3, <1>5
<1>7. \A p \in 1..n : Stamp(k, 1, Epoch(w), p) = MaskOf(w, p)
  BY <1>1 DEF Stamp, MaskOf, KW, AfterKList
<1>8. Decoded(enc, k, Epoch(w)) = 1..n
  <2> HIDE DEF n, k, enc
  <2> QED BY <1>4, <1>6, <1>7 DEF Decoded, Unmasks
<1> QED
  BY <1>1, <1>2, <1>6, <1>8

\* What a step of searchKnown does, spelled out: nothing is misread, and in
\* cleaning mode the counters move and the results are written under buffers
\* and addresses that no keyword's counters reach.
LEMMA SearchStep ==
    ASSUME IInv, NEW w \in Keywords, searchKnown(w)
    PROVE  LET n   == Count(w)
               k1  == Stamp(KW(w), 1, Epoch(w), n)
               enc == [p \in 1..n |-> DictW[AddrOf(w, p)]]
               res == {d \in Inds : Removes(enc, 1..n, d) < 0}
               k2  == AfterCleaning(k1, Epoch(w) + 1, res)
           IN  /\ n \in Nat /\ n >= 1 /\ Epoch(w) \in Nat
               /\ answer' = <<w, res>>
               /\ IF DeleteFiles
                  THEN /\ SrcCnt' = Put(SrcCnt, k1, At(SrcCnt, k1) + 1)
                       /\ DictW' = PutAll(DictW, CleaningPairs(k1, Epoch(w) + 1, res))
                       /\ FileCnt' = Put(FileCnt, k2, Cardinality(res))
                  ELSE UNCHANGED <<FileCnt, SrcCnt, DictW>>
<1> DEFINE n   == Count(w)
           k   == AfterKList(KW(w), Epoch(w), n)
           k1  == Stamp(KW(w), 1, Epoch(w), n)
           enc == [p \in 1..n |-> DictW[AddrOf(w, p)]]
           srv == ServerSearch(DictW, KListOf(KW(w), Epoch(w), n))
           res == {d \in Inds : Removes(enc, 1..n, d) < 0}
<1>1. KW(w) \in DOMAIN FileCnt
  BY DEF searchKnown
<1>2. /\ n \in Nat /\ n >= 1 /\ Epoch(w) \in Nat
      /\ srv = enc
      /\ Decoded(srv, k, Epoch(w)) = 1..n
  BY <1>1, SearchReads
<1>3. PICK junk \in JunkReads(srv, k, Epoch(w)) : finishSearch(w, srv, k, Epoch(w), junk)
  BY DEF searchKnown
<1>4. DOMAIN enc = 1..n
  OBVIOUS
<1>5. junk = {}
  BY <1>2, <1>3, <1>4 DEF JunkReads
<1>6. Positive(srv, k, Epoch(w)) \cup junk = res
  BY <1>2, <1>5 DEF Positive
<1>7. AfterDecode(srv, k, Epoch(w)) = k1
  <2>1. enc # <<>> /\ Len(enc) = n
    BY <1>2
  <2> QED BY <1>2, <2>1 DEF AfterDecode, AfterKList, Stamp, KW
<1> HIDE DEF n, k, k1, enc, srv, res
<1>8. /\ answer' = <<w, res>>
      /\ IF DeleteFiles
         THEN /\ SrcCnt' = Put(SrcCnt, k1, At(SrcCnt, k1) + 1)
              /\ DictW' = PutAll(DictW, CleaningPairs(k1, Epoch(w) + 1, res))
              /\ FileCnt' = Put(FileCnt, AfterCleaning(k1, Epoch(w) + 1, res), Cardinality(res))
         ELSE UNCHANGED <<FileCnt, SrcCnt, DictW>>
  BY <1>3, <1>6, <1>7 DEF finishSearch
<1> QED
  BY <1>2, <1>8 DEF n, k1, enc, res

-----------------------------------------------------------------------------
\* The pairs the cleaning loop sends: insertions of results, under src.
LEMMA CleaningPairsType ==
    ASSUME NEW k \in Buffers, NEW src \in Nat, NEW res \in SUBSET Inds
    PROVE  LET P == CleaningPairs(k, src, res)
           IN  \A a \in DOMAIN P :
                  /\ a \in Buffers /\ P[a] \in Ciphers
                  /\ a.word = k.word
                  /\ DeleteFiles => a.src = src
<1> DEFINE P == CleaningPairs(k, src, res)
<1> SUFFICES ASSUME NEW a \in DOMAIN P
             PROVE  /\ a \in Buffers /\ P[a] \in Ciphers
                    /\ a.word = k.word
                    /\ DeleteFiles => a.src = src
  OBVIOUS
<1>1. PICK d \in res : a = Stamp(k, 0, src, Rank(res, d))
  BY DEF CleaningPairs
<1>2. Rank(res, d) \in Nat
  <2>1. {j \in res : j <= d} \in SUBSET Inds
    OBVIOUS
  <2> QED BY <2>1, ResultsFinite DEF Rank
<1>3. a \in Buffers /\ a.word = k.word /\ a.cnt = Rank(res, d) /\ (DeleteFiles => a.src = src)
  BY <1>1, <1>2 DEF Stamp, Buffers
<1>4. Nth(res, a.cnt) \in res
  BY <1>3 DEF Nth
<1>5. Stamp(k, 1, src, a.cnt) \in Buffers
  BY <1>3 DEF Stamp, Buffers
<1>6. P[a] = Encrypt(Nth(res, a.cnt), INS, Stamp(k, 1, src, a.cnt))
  BY DEF CleaningPairs
<1> QED
  BY <1>3, <1>4, <1>5, <1>6 DEF Encrypt, Ciphers, INS

\* The effect of an update on what the counters reach: one more entry for its
\* keyword, at an address and under a mask of its own, and nothing else.
LEMMA UpdateStep ==
    ASSUME IInv, NEW op \in {INS, DEL}, NEW w \in Keywords, NEW d \in Docs,
           update(op, w, d)
    PROVE  /\ \A v \in Keywords : Epoch(v)' = Epoch(v)
           /\ Count(w)' = Count(w) + 1 /\ Count(w) \in Nat
           /\ \A v \in Keywords \ {w} : Count(v)' = Count(v)
           /\ AddrOf(w, Count(w) + 1) \in DOMAIN DictW'
           /\ DictW'[AddrOf(w, Count(w) + 1)] = Encrypt(d, op, MaskOf(w, Count(w) + 1))
           /\ \A v \in Keywords : \A i \in 1..Count(v) :
                 /\ AddrOf(v, i) \in DOMAIN DictW'
                 /\ DictW'[AddrOf(v, i)] = DictW[AddrOf(v, i)]
<1> DEFINE c == Count(w) + 1
           a == AddrOf(w, c)
<1>1. Count(w) \in Nat
  BY DEF Count, At, IInv, TypeOK
<1>2. \A v \in Keywords : Epoch(v)' = Epoch(v)
  BY DEF update, Epoch, Put, At, KW
<1>3. Count(w)' = c
  BY DEF update, Count, Put, At
<1>4. \A v \in Keywords \ {w} : Count(v)' = Count(v)
  BY DEF update, Count, KW, Put, At
<1>5. DictW' = Put(DictW, a, Encrypt(d, op, MaskOf(w, c)))
  BY DEF update, AddrOf, MaskOf
<1>6. \A v \in Keywords : \A i \in 1..Count(v) : AddrOf(v, i) # a
  BY <1>1 DEF AddrOf, Stamp, KW
<1>7. \A v \in Keywords : \A i \in 1..Count(v) : AddrOf(v, i) \in DOMAIN DictW
  BY DEF IInv, EntriesDecodable
<1> HIDE DEF a, c
<1>8. /\ a \in DOMAIN DictW' /\ DictW'[a] = Encrypt(d, op, MaskOf(w, c))
      /\ \A x \in DOMAIN DictW : x # a => x \in DOMAIN DictW' /\ DictW'[x] = DictW[x]
  BY <1>5 DEF Put
<1> QED
  BY <1>1, <1>2, <1>3, <1>4, <1>6, <1>7, <1>8 DEF a, c

\* The effect of a search on what the counters reach: none.
LEMMA SearchKeeps ==
    ASSUME IInv, NEW w \in Keywords, searchKnown(w)
    PROVE  /\ \A v \in Keywords : Epoch(v)' = Epoch(v) /\ Count(v)' = Count(v)
           /\ \A v \in Keywords : KW(v) \in DOMAIN FileCnt' <=> KW(v) \in DOMAIN FileCnt
           /\ \A v \in Keywords : \A i \in 1..Count(v) :
                 /\ AddrOf(v, i) \in DOMAIN DictW'
                 /\ DictW'[AddrOf(v, i)] = DictW[AddrOf(v, i)]
<1> DEFINE n   == Count(w)
           k1  == Stamp(KW(w), 1, Epoch(w), n)
           enc == [p \in 1..n |-> DictW[AddrOf(w, p)]]
           res == {d \in Inds : Removes(enc, 1..n, d) < 0}
           k2  == AfterCleaning(k1, Epoch(w) + 1, res)
           P   == CleaningPairs(k1, Epoch(w) + 1, res)
<1>1. /\ n \in Nat /\ Epoch(w) \in Nat
      /\ IF DeleteFiles
         THEN /\ SrcCnt' = Put(SrcCnt, k1, At(SrcCnt, k1) + 1)
              /\ DictW' = PutAll(DictW, P)
              /\ FileCnt' = Put(FileCnt, k2, Cardinality(res))
         ELSE UNCHANGED <<FileCnt, SrcCnt, DictW>>
  BY SearchStep
<1>2. \A v \in Keywords : \A i \in 1..Count(v) : AddrOf(v, i) \in DOMAIN DictW
  BY DEF IInv, EntriesDecodable
<1>3. CASE ~ DeleteFiles
  BY <1>1, <1>2, <1>3 DEF Epoch, Count, At
<1>4. CASE DeleteFiles
  <2>1. \A v \in Keywords : k1 # KW(v) /\ k2 # KW(v)
    BY DEF AfterCleaning, Stamp, KW
  <2>2. k1 \in Buffers /\ k1.word = w
    BY <1>1 DEF Stamp, KW, Buffers
  <2> HIDE DEF n, k1, k2, enc
  <2>3. \A v \in Keywords : Epoch(v)' = Epoch(v) /\ Count(v)' = Count(v)
    BY <1>1, <1>4, <2>1 DEF Epoch, Count, Put, At
  <2>4. \A v \in Keywords : KW(v) \in DOMAIN FileCnt' <=> KW(v) \in DOMAIN FileCnt
    BY <1>1, <1>4, <2>1 DEF Put
  <2>5. \A b \in DOMAIN P : b.word = w /\ b.src = Epoch(w) + 1
    <3>1. Epoch(w) + 1 \in Nat /\ res \in SUBSET Inds
      BY <1>1
    <3> HIDE DEF res
    <3> QED BY <1>4, <2>2, <3>1, CleaningPairsType
  <2>6. \A v \in Keywords : \A i \in 1..Count(v) : AddrOf(v, i) \notin DOMAIN P
    <3> HIDE DEF P
    <3> QED BY <1>1, <1>4, <2>5 DEF AddrOf, Stamp, KW
  <2> HIDE DEF P
  <2> QED BY <1>1, <1>2, <1>4, <2>3, <2>4, <2>6 DEF PutAll
<1> QED
  BY <1>3, <1>4

-----------------------------------------------------------------------------
\* The invariant holds of the empty maps the constructors leave.
LEMMA InitIInv == Init => IInv
BY DEF Init, IInv, TypeOK, KnownCounted, EntriesDecodable, EntriesReal, Count, At

\* Client::update preserves the invariant: its entry is the one it counts.
LEMMA UpdateIInv ==
    ASSUME IInv, NEW op \in {INS, DEL}, NEW w \in Keywords, NEW d \in Docs,
           update(op, w, d)
    PROVE  IInv'
<1> DEFINE c == Count(w) + 1
<1>1. c \in Nat /\ c >= 1 /\ Epoch(w) \in Nat
  BY DEF Count, Epoch, At, IInv, TypeOK
<1>2. TypeOK'
  <2>1. KW(w) \in Buffers /\ Stamp(KW(w), 0, Epoch(w), c) \in Buffers
        /\ Stamp(KW(w), 1, Epoch(w), c) \in Buffers
    BY <1>1 DEF KW, Stamp, Buffers
  <2>2. Encrypt(d, op, Stamp(KW(w), 1, Epoch(w), c)) \in Ciphers
    BY <2>1 DEF Encrypt, Ciphers, Inds
  <2> QED BY <1>1, <2>1, <2>2 DEF IInv, TypeOK, update, Put
<1>3. KnownCounted'
  BY <1>1 DEF IInv, KnownCounted, update, Put
<1>4. \A v \in Keywords : \A i \in Nat :
         AddrOf(v, i)' = AddrOf(v, i) /\ MaskOf(v, i)' = MaskOf(v, i)
  BY UpdateStep DEF AddrOf, MaskOf
<1>5. EntriesDecodable' /\ EntriesReal'
  <2> SUFFICES ASSUME NEW v \in Keywords, NEW i \in 1..Count(v)'
               PROVE  /\ AddrOf(v, i)' \in DOMAIN DictW'
                      /\ DictW'[AddrOf(v, i)'].mask = MaskOf(v, i)'
                      /\ DictW'[AddrOf(v, i)'].ind \in Docs
    BY DEF EntriesDecodable, EntriesReal
  <2>0. i \in Nat
    OBVIOUS
  <2>1. CASE v = w /\ i = c
    <3>1. AddrOf(v, i)' = AddrOf(w, c) /\ MaskOf(v, i)' = MaskOf(w, c)
      BY <1>4, <2>0, <2>1
    <3>2. AddrOf(w, c) \in DOMAIN DictW' /\ DictW'[AddrOf(w, c)] = Encrypt(d, op, MaskOf(w, c))
      BY UpdateStep
    <3> QED BY <3>1, <3>2 DEF Encrypt
  <2>2. CASE ~ (v = w /\ i = c)
    <3>1. i \in 1..Count(v)
      BY <1>1, <2>2, UpdateStep
    <3> QED BY <1>4, <2>0, <3>1, UpdateStep DEF IInv, EntriesDecodable, EntriesReal
  <2> QED BY <2>1, <2>2
<1> QED
  BY <1>2, <1>3, <1>5 DEF IInv

\* Client::search preserves the invariant, the cleaning loop included.
LEMMA SearchIInv ==
    ASSUME IInv, NEW w \in Keywords, searchKnown(w)
    PROVE  IInv'
<1> DEFINE n   == Count(w)
           k1  == Stamp(KW(w), 1, Epoch(w), n)
           enc == [p \in 1..n |-> DictW[AddrOf(w, p)]]
           res == {d \in Inds : Removes(enc, 1..n, d) < 0}
           k2  == AfterCleaning(k1, Epoch(w) + 1, res)
           P   == CleaningPairs(k1, Epoch(w) + 1, res)
<1>1. /\ n \in Nat /\ n >= 1 /\ Epoch(w) \in Nat
      /\ answer' = <<w, res>>
      /\ IF DeleteFiles
         THEN /\ SrcCnt' = Put(SrcCnt, k1, At(SrcCnt, k1) + 1)
              /\ DictW' = PutAll(DictW, P)
              /\ FileCnt' = Put(FileCnt, k2, Cardinality(res))
         ELSE UNCHANGED <<FileCnt, SrcCnt, DictW>>
  BY SearchStep
<1>2. res \in SUBSET Inds
  OBVIOUS
<1>3. k1 \in Buffers
  BY <1>1 DEF Stamp, KW, Buffers
<1> HIDE DEF n, k1, enc, res
<1>4. TypeOK'
  <2>1. CASE ~ DeleteFiles
    BY <1>1, <1>2, <2>1 DEF IInv, TypeOK
  <2>2. CASE DeleteFiles
    <3>1. Cardinality(res) \in Nat
      BY <1>2, ResultsFinite
    <3>2. k2 \in Buffers
      BY <1>1, <1>3, <3>1 DEF AfterCleaning, Stamp, Buffers
    <3>3. \A a \in DOMAIN P : a \in Buffers /\ P[a] \in Ciphers
      <4>1. Epoch(w) + 1 \in Nat
        BY <1>1
      <4> QED BY <1>2, <1>3, <4>1, CleaningPairsType
    <3>4. At(SrcCnt, k1) + 1 \in Nat
      BY DEF At, IInv, TypeOK
    <3> HIDE DEF P, k2
    <3> QED BY <1>1, <1>2, <1>3, <2>2, <3>1, <3>2, <3>3, <3>4
            DEF IInv, TypeOK, Put, PutAll
  <2> QED BY <2>1, <2>2
<1>5. \A v \in Keywords : \A i \in Nat :
         AddrOf(v, i)' = AddrOf(v, i) /\ MaskOf(v, i)' = MaskOf(v, i)
  BY SearchKeeps DEF AddrOf, MaskOf
<1>6. KnownCounted'
  BY SearchKeeps DEF IInv, KnownCounted, Count, At
<1>7. EntriesDecodable' /\ EntriesReal'
  BY <1>5, SearchKeeps DEF IInv, EntriesDecodable, EntriesReal
<1> QED
  BY <1>4, <1>6, <1>7 DEF IInv

\* Every step preserves the invariant.
LEMMA NextIInv == IInv /\ [Next]_vars => IInv'
<1> SUFFICES ASSUME IInv, [Next]_vars PROVE IInv'
  OBVIOUS
<1>1. CASE \E op \in {INS, DEL}, w \in Keywords, d \in Docs : update(op, w, d)
  BY <1>1, UpdateIInv
<1>2. CASE \E w \in Keywords : searchUnknown(w)
  BY <1>2 DEF searchUnknown, IInv, TypeOK, KnownCounted, EntriesDecodable,
              EntriesReal, Count, Epoch, AddrOf, MaskOf
<1>3. CASE \E w \in Keywords : searchKnown(w)
  BY <1>3, SearchIInv
<1>4. CASE UNCHANGED vars
  BY <1>4 DEF vars, IInv, TypeOK, KnownCounted, EntriesDecodable,
              EntriesReal, Count, Epoch, AddrOf, MaskOf
<1> QED
  BY <1>1, <1>2, <1>3, <1>4 DEF Next

\* The inductive invariant holds in every reachable state.
THEOREM Invariance == Spec => []IInv
BY InitIInv, NextIInv, PTL DEF Spec

\* Type correctness of Mitra's client and server state.
THEOREM TypeCorrect == Spec => []TypeOK
<1>1. IInv => TypeOK
  BY DEF IInv
<1> QED BY <1>1, Invariance, PTL

\* For any keywords, documents and number of operations, every update that
\* Client::update counted is stored where, and masked as, Client::search expects.
THEOREM Decodability == Spec => []EntriesDecodable
<1>1. IInv => EntriesDecodable
  BY DEF IInv
<1> QED BY <1>1, Invariance, PTL

\* For any keywords and documents, no update and no cleaning search overwrites
\* an entry that the client's counters reach.
THEOREM EntriesKept == Spec => CurrentEntriesKept
<1> DEFINE A == \A w \in Keywords : \A i \in 1..Count(w) :
                   /\ AddrOf(w, i) \in DOMAIN DictW'
                   /\ DictW'[AddrOf(w, i)] = DictW[AddrOf(w, i)]
<1>1. IInv /\ [Next]_vars => [A]_vars
  <2> SUFFICES ASSUME IInv, Next PROVE A
    OBVIOUS
  <2>1. CASE \E op \in {INS, DEL}, w \in Keywords, d \in Docs : update(op, w, d)
    BY <2>1, UpdateStep
  <2>2. CASE \E w \in Keywords : searchUnknown(w)
    BY <2>2 DEF searchUnknown, IInv, EntriesDecodable
  <2>3. CASE \E w \in Keywords : searchKnown(w)
    BY <2>3, SearchKeeps
  <2> QED
    BY <2>1, <2>2, <2>3 DEF Next
<1> QED
  BY <1>1, Invariance, PTL DEF Spec, CurrentEntriesKept

-----------------------------------------------------------------------------
\* The cardinality that SSEIndex counts with is the cardinality of this module.
LEMMA SameCardinality == \A S : Index!Cardinality(S) = Cardinality(S)
BY DEF Index!Cardinality, Cardinality

\* The decoded tallies of a search are the counts of the abstract log.
LEMMA TalliesMatch ==
    ASSUME IInv, NEW w \in Keywords, NEW d \in Inds
    PROVE  LET n   == Count(w)
               enc == [p \in 1..n |-> DictW[AddrOf(w, p)]]
           IN  /\ Tally(enc, 1..n, INS, d) = Index!Times(StoredLog[w], "INS", d)
               /\ Tally(enc, 1..n, DEL, d) = Index!Times(StoredLog[w], "DEL", d)
               /\ Tally(enc, 1..n, INS, d) \in Nat
               /\ Tally(enc, 1..n, DEL, d) \in Nat
               /\ d \notin Docs => Tally(enc, 1..n, INS, d) = 0
<1> DEFINE n   == Count(w)
           enc == [p \in 1..n |-> DictW[AddrOf(w, p)]]
           s   == StoredLog[w]
<1>1. n \in Nat
  BY DEF Count, At, IInv, TypeOK
<1>2. s = [i \in 1..n |-> StoredEntry(w, i)]
  BY DEF StoredLog
<1>3. ASSUME NEW p \in 1..n
      PROVE  /\ enc[p] \in Ciphers /\ enc[p].ind \in Docs /\ enc[p].op \in {INS, DEL}
             /\ s[p] = [op |-> IF enc[p].op = INS THEN "INS" ELSE "DEL", ind |-> enc[p].ind]
  <2>1. AddrOf(w, p) \in DOMAIN DictW /\ DictW[AddrOf(w, p)].ind \in Docs
    BY DEF IInv, EntriesDecodable, EntriesReal
  <2>2. enc[p] = DictW[AddrOf(w, p)]
    OBVIOUS
  <2>3. enc[p] \in Ciphers
    BY <2>1, <2>2 DEF IInv, TypeOK
  <2>4. s[p] = StoredEntry(w, p)
    BY <1>2
  <2> QED BY <2>1, <2>2, <2>3, <2>4 DEF StoredEntry, Ciphers
<1> HIDE DEF n, enc, s
<1>4. DOMAIN s = 1..n
  BY <1>2
<1>5. {p \in 1..n : enc[p].ind = d /\ enc[p].op = INS}
        = {i \in DOMAIN s : s[i] = [op |-> "INS", ind |-> d]}
  BY <1>3, <1>4 DEF INS, DEL
<1>6. {p \in 1..n : enc[p].ind = d /\ enc[p].op = DEL}
        = {i \in DOMAIN s : s[i] = [op |-> "DEL", ind |-> d]}
  BY <1>3, <1>4 DEF INS, DEL
<1>7. /\ Tally(enc, 1..n, INS, d) = Index!Times(s, "INS", d)
      /\ Tally(enc, 1..n, DEL, d) = Index!Times(s, "DEL", d)
  BY <1>5, <1>6, SameCardinality DEF Tally, Index!Times
<1>8. \A S \in SUBSET (1..n) : Cardinality(S) \in Nat
  <2>1. IsFiniteSet(1..n)
    BY <1>1, FS_Interval
  <2> QED BY <2>1, FS_Subset, FS_CardinalityType
<1>9. Tally(enc, 1..n, INS, d) \in Nat /\ Tally(enc, 1..n, DEL, d) \in Nat
  BY <1>8 DEF Tally
<1>10. d \notin Docs => Tally(enc, 1..n, INS, d) = 0
  <2> SUFFICES ASSUME d \notin Docs PROVE Tally(enc, 1..n, INS, d) = 0
    OBVIOUS
  <2>1. {p \in 1..n : enc[p].ind = d /\ enc[p].op = INS} = {}
    BY <1>3
  <2> QED BY <2>1, FS_EmptySet DEF Tally
<1> QED
  BY <1>7, <1>9, <1>10 DEF n, enc, s

\* So a search returns what the abstract index returns for the stored log.
LEMMA SearchAnswers ==
    ASSUME IInv, NEW w \in Keywords
    PROVE  LET n   == Count(w)
               enc == [p \in 1..n |-> DictW[AddrOf(w, p)]]
           IN  {d \in Inds : Removes(enc, 1..n, d) < 0} = Index!Live(StoredLog[w])
<1> DEFINE n   == Count(w)
           enc == [p \in 1..n |-> DictW[AddrOf(w, p)]]
<1>1. ASSUME NEW d \in Inds
      PROVE  Removes(enc, 1..n, d) < 0 <=> d \in Index!Live(StoredLog[w])
  <2>1. /\ Tally(enc, 1..n, INS, d) = Index!Times(StoredLog[w], "INS", d)
        /\ Tally(enc, 1..n, DEL, d) = Index!Times(StoredLog[w], "DEL", d)
        /\ Tally(enc, 1..n, INS, d) \in Nat
        /\ Tally(enc, 1..n, DEL, d) \in Nat
        /\ d \notin Docs => Tally(enc, 1..n, INS, d) = 0
    BY TalliesMatch
  <2> HIDE DEF n, enc
  <2>2. Removes(enc, 1..n, d) < 0
          <=> d \in Docs /\ Tally(enc, 1..n, INS, d) > Tally(enc, 1..n, DEL, d)
    BY <2>1 DEF Removes
  <2> QED BY <2>1, <2>2 DEF Index!Live
<1> HIDE DEF n, enc
<1>2. Index!Live(StoredLog[w]) \subseteq Inds
  BY DEF Index!Live, Inds
<1>3. {d \in Inds : Removes(enc, 1..n, d) < 0} = Index!Live(StoredLog[w])
  BY <1>1, <1>2
<1> QED
  BY <1>3 DEF n, enc

\* Client::update appends its operation to the abstract log of the keyword.
LEMMA UpdateRefines ==
    ASSUME IInv, NEW op \in {INS, DEL}, NEW w \in Keywords, NEW d \in Docs,
           update(op, w, d)
    PROVE  Index!Update(IF op = INS THEN "INS" ELSE "DEL", w, d)
<1> DEFINE c == Count(w) + 1
           e == [op |-> IF op = INS THEN "INS" ELSE "DEL", ind |-> d]
<1>1. /\ Count(w)' = c /\ Count(w) \in Nat
      /\ \A v \in Keywords \ {w} : Count(v)' = Count(v)
  BY UpdateStep
<1>2. \A v \in Keywords : \A i \in Nat : AddrOf(v, i)' = AddrOf(v, i)
  BY UpdateStep DEF AddrOf
<1>3. \A v \in Keywords : \A i \in 1..Count(v) : StoredEntry(v, i)' = StoredEntry(v, i)
  BY <1>2, UpdateStep DEF StoredEntry, IInv, EntriesDecodable
<1>4. ASSUME NEW i \in Nat, i = c PROVE StoredEntry(w, i)' = e
  <2>1. AddrOf(w, i) \in DOMAIN DictW' /\ DictW'[AddrOf(w, i)] = Encrypt(d, op, MaskOf(w, i))
    BY <1>4, UpdateStep
  <2>2. AddrOf(w, i)' = AddrOf(w, i)
    BY <1>2
  <2> QED BY <2>1, <2>2 DEF StoredEntry, Encrypt
<1>5. \A v \in Keywords \ {w} : StoredLog'[v] = StoredLog[v]
  BY <1>1, <1>3 DEF StoredLog
<1>6. StoredLog'[w] = Append(StoredLog[w], e)
  <2>1. StoredLog[w] = [i \in 1..Count(w) |-> StoredEntry(w, i)]
    BY DEF StoredLog
  <2>2. StoredLog'[w] = [i \in 1..c |-> StoredEntry(w, i)']
    BY <1>1 DEF StoredLog
  <2>3. Append(StoredLog[w], e)
          = [i \in 1..c |-> IF i = c THEN e ELSE StoredEntry(w, i)]
    BY <1>1, <2>1
  <2>4. \A i \in 1..c : i # c => i \in 1..Count(w)
    BY <1>1
  <2>5. \A i \in 1..c : StoredEntry(w, i)' = IF i = c THEN e ELSE StoredEntry(w, i)
    BY <1>3, <1>4, <2>4
  <2> HIDE DEF c, e
  <2> QED BY <2>2, <2>3, <2>5
<1>7. StoredLog' = [StoredLog EXCEPT ![w] = Append(@, e)]
  BY <1>5, <1>6 DEF StoredLog
<1> QED
  BY <1>7 DEF Index!Update, update

\* Mitra on a single machine implements the abstract index, with and without
\* cleaning, for any keywords, documents and number of operations.
THEOREM Refinement == Spec => ImplementsIndex
<1>1. Init => Index!Init
  <2> SUFFICES ASSUME Init PROVE Index!Init
    OBVIOUS
  <2>1. \A w \in Keywords : Count(w) = 0
    BY DEF Init, Count, At
  <2>2. StoredLog = [w \in Keywords |-> <<>>]
    BY <2>1 DEF StoredLog
  <2> QED BY <2>2 DEF Init, Index!Init
<1>2. IInv /\ [Next]_vars => [Index!Next]_(Index!vars)
  <2> SUFFICES ASSUME IInv, [Next]_vars PROVE [Index!Next]_(Index!vars)
    OBVIOUS
  <2>1. CASE \E op \in {INS, DEL}, w \in Keywords, d \in Docs : update(op, w, d)
    BY <2>1, UpdateRefines DEF Index!Next, Index!Ops
  <2>2. ASSUME NEW w \in Keywords, searchUnknown(w) PROVE Index!Search(w)
    <3>1. Count(w) = 0
      BY <2>2 DEF searchUnknown, Count, At
    <3>2. StoredLog[w] = <<>>
      BY <3>1 DEF StoredLog
    <3>3. \A d, op : Index!Times(<<>>, op, d) = 0
      BY FS_EmptySet, SameCardinality DEF Index!Times
    <3>4. Index!Live(<<>>) = {}
      BY <3>3 DEF Index!Live
    <3>5. StoredLog' = StoredLog
      BY <2>2 DEF searchUnknown, StoredLog, StoredEntry, AddrOf, Epoch, Count
    <3> QED BY <2>2, <3>2, <3>4, <3>5 DEF Index!Search, searchUnknown
  <2>3. ASSUME NEW w \in Keywords, searchKnown(w) PROVE Index!Search(w)
    <3>1. answer' = <<w, Index!Live(StoredLog[w])>>
      BY <2>3, SearchStep, SearchAnswers
    <3>2. \A v \in Keywords : \A i \in 1..Count(v) : StoredEntry(v, i)' = StoredEntry(v, i)
      BY <2>3, SearchKeeps DEF StoredEntry, AddrOf, IInv, EntriesDecodable
    <3>3. StoredLog' = StoredLog
      BY <2>3, <3>2, SearchKeeps DEF StoredLog
    <3> QED BY <3>1, <3>3 DEF Index!Search
  <2>4. CASE UNCHANGED vars
    BY <2>4 DEF vars, Index!vars, StoredLog, StoredEntry, AddrOf, Epoch, Count
  <2> QED
    BY <2>1, <2>2, <2>3, <2>4 DEF Next, Index!Next
<1> QED
  BY <1>1, <1>2, Invariance, PTL DEF Spec, ImplementsIndex, Index!Spec
=============================================================================
