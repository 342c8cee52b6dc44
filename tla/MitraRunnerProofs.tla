------------------------- MODULE MitraRunnerProofs --------------------------
(***************************************************************************)
(* Mitra over gRPC, for every set of keywords and documents and any number *)
(* of updates, searches, lost calls and restarts, in either mode: a search *)
(* that can be believed is exact, and none reports a document that was not *)
(* inserted for its keyword.                                               *)
(***************************************************************************)
EXTENDS MitraRunner, FiniteSetTheorems, SequenceTheorems, TLAPS

\* srcCnt and fileCnt of w as an operation finds them.
Count(w) == At(FileCnt, KW(w))
Epoch(w) == IF DeleteFiles THEN At(SrcCnt, KW(w)) ELSE 0

Recs == [op : {INS, DEL}, ind : Docs, stored : BOOLEAN]
Stages == {"sent", "done", "failed"}
Results == [w : Keywords, ids : SUBSET Inds, seen : Seq(Recs), trusted : BOOLEAN]

\* The client's call; what it knows of the rest of the state is said by InFlight.
CallOK ==
    /\ call.kind \in {"idle", "setup", "update", "search", "batch"}
    /\ call.kind = "idle" => call = Idle
    /\ call.kind = "setup" => call \in [kind : {"setup"}, st : Stages]
    /\ call.kind = "update" =>
          call \in [kind : {"update"}, st : Stages, w : Keywords, addr : Buffers, val : Ciphers]
    /\ call.kind = "search" =>
          call \in [kind : {"search"}, st : Stages, w : Keywords, k : Buffers,
                    KList : {call.KList}, reply : Seq(Ciphers), seen : Seq(Recs)]
    /\ call.kind = "batch" =>
          call \in [kind : {"batch"}, st : Stages, pairs : {call.pairs}, result : Results]

ClientOK ==
    /\ DOMAIN FileCnt \subseteq Buffers /\ \A k \in DOMAIN FileCnt : FileCnt[k] \in Nat
    /\ DOMAIN SrcCnt \subseteq Buffers /\ \A k \in DOMAIN SrcCnt : SrcCnt[k] \in Nat
    /\ blank \in [Keywords -> SUBSET Nat]
ServerOK ==
    /\ server \in {"none", "ready"}
    /\ DOMAIN DictW \subseteq Buffers /\ \A a \in DOMAIN DictW : DictW[a] \in Ciphers
Types ==
    /\ DeleteFiles \in BOOLEAN /\ fresh \in BOOLEAN
    /\ ClientOK /\ ServerOK /\ CallOK
    /\ sent \in [Keywords -> Seq(Recs)]
    /\ answer \in Results \cup {NoAnswer}

\* The client counts every update it sent, and a search counter is moved under the
\* buffer that a search looks it up by only when a search came back empty.
Counted == \A w \in Keywords : Count(w) = Len(sent[w])
Epochs == \A k \in DOMAIN SrcCnt : k.op = 0 /\ SrcCnt[k] # 0 => k.cnt \in blank[k.word]

\* Where update i of w is, and as what, while the search counter of w is 0.
Addr(w, i) == [word |-> w, src |-> 0, op |-> 0, cnt |-> i]
Mask(w, i) == [word |-> w, src |-> 0, op |-> 1, cnt |-> i]
Cipher(w, rec, i) == Encrypt(rec.ind, rec.op, Mask(w, i))
HeldAs(w, i) ==
    /\ sent[w][i].stored <=> Addr(w, i) \in DOMAIN DictW
    /\ Addr(w, i) \in DOMAIN DictW => DictW[Addr(w, i)] = Cipher(w, sent[w][i], i)

\* A dictionary that this client set up holds nothing beyond the counters, the
\* stored updates of a keyword whose counter is 0, and as insertions only documents
\* that were inserted for the keyword, or garbage.
Inserted(log) == {log[i].ind : i \in {j \in DOMAIN log : log[j].op = INS}}
Known(c, log) == c.op = INS => c.ind \in Inserted(log) \cup {Junk}
Within == \A a \in DOMAIN DictW : a.src = 0 => a.cnt <= Len(sent[a.word])
Held == \A w \in Keywords : 0 \notin blank[w] => \A i \in DOMAIN sent[w] : HeldAs(w, i)
Sources == \A a \in DOMAIN DictW : Known(DictW[a], sent[a.word])
Ledger == fresh => Within /\ Held /\ Sources

\* What the outstanding call knows of the client's state and the dictionary.
InSetup == call.kind = "setup" => sent = [w \in Keywords |-> <<>>] /\ answer = NoAnswer
InUpdate ==
    call.kind = "update" /\ call.st = "sent" =>
        LET n   == Len(sent[call.w])
            rec == sent[call.w][n]
        IN  /\ n > 0
            /\ call.addr = Stamp(KW(call.w), 0, Epoch(call.w), n)
            /\ call.val = Encrypt(rec.ind, rec.op, Stamp(KW(call.w), 1, Epoch(call.w), n))
Stored(log, m) == m <= Len(log) /\ \A i \in DOMAIN log : log[i].stored <=> i <= m
Reads(reply, w, log) ==
    /\ Stored(log, Len(reply))
    /\ \A p \in DOMAIN reply : reply[p] = Cipher(w, log[p], p)
Replied ==
    /\ Inserted(call.seen) = Inserted(sent[call.w])
    /\ fresh => \A p \in DOMAIN call.reply : Known(call.reply[p], call.seen)
    /\ fresh /\ 0 \notin blank[call.w] /\ IsPrefix(call.seen) =>
          Reads(call.reply, call.w, call.seen)
InSearch ==
    call.kind = "search" =>
        /\ call.k.word = call.w /\ call.k.op = 0 /\ call.k.cnt = Count(call.w)
        /\ ~DeleteFiles \/ Count(call.w) = 0 => call.k.src = 0
        /\ call.KList = KListOf(KW(call.w), Epoch(call.w), Count(call.w))
        /\ call.st = "done" => Replied
InBatch ==
    call.kind = "batch" =>
        \A a \in DOMAIN call.pairs :
            /\ a \in Buffers /\ call.pairs[a] \in Ciphers /\ a.src > 0
            /\ fresh => Known(call.pairs[a], sent[a.word])
InFlight == InSetup /\ InUpdate /\ InSearch /\ InBatch

\* Answers, given or about to be given.
AnswerOK(r) ==
    /\ r.trusted => r.ids = LiveDocs(r.seen)
    /\ fresh => r.ids \ {Junk} \subseteq Inserted(r.seen)
Answers == AnswerOK(answer) /\ (call.kind = "batch" => AnswerOK(call.result))

IInv == Types /\ Counted /\ Epochs /\ Ledger /\ InFlight /\ Answers

-----------------------------------------------------------------------------
\* The rank of a member of a finite set of integers runs through 1..|S|, each rank
\* once, and Nth is its inverse.
LEMMA RankBijection ==
    ASSUME NEW S, IsFiniteSet(S), S \subseteq Int
    PROVE  /\ Cardinality(S) \in Nat
           /\ \A r \in 1..Cardinality(S) : Nth(S, r) \in S /\ Rank(S, Nth(S, r)) = r
           /\ \A d \in S : Rank(S, d) \in 1..Cardinality(S) /\ Nth(S, Rank(S, d)) = d
<1> DEFINE k == Cardinality(S)
           Upto(d) == {e \in S : e <= d}
<1>1. k \in Nat
  BY FS_CardinalityType
<1>2. ASSUME NEW d \in S PROVE Rank(S, d) \in 1..k
  <2>1. Upto(d) \in SUBSET S /\ d \in Upto(d)
    OBVIOUS
  <2>2. IsFiniteSet(Upto(d)) /\ Cardinality(Upto(d)) <= k
    BY <2>1, FS_Subset
  <2>3. Cardinality(Upto(d)) \in Nat /\ Cardinality(Upto(d)) # 0
    BY <2>1, <2>2, FS_CardinalityType, FS_EmptySet
  <2>4. Rank(S, d) = Cardinality(Upto(d))
    BY DEF Rank
  <2> HIDE DEF k, Upto
  <2> QED BY <1>1, <2>2, <2>3, <2>4
<1>3. ASSUME NEW d \in S, NEW e \in S, d < e PROVE Rank(S, d) # Rank(S, e)
  <2>1. Upto(d) \in SUBSET Upto(e) /\ Upto(d) # Upto(e) /\ Upto(e) \in SUBSET S
    <3>1. \A x \in S : x <= d => x <= e
      BY <1>3
    <3>2. e \in Upto(e) /\ e \notin Upto(d)
      BY <1>3
    <3> QED BY <3>1, <3>2
  <2>2. IsFiniteSet(Upto(e))
    BY <2>1, FS_Subset
  <2>3. Cardinality(Upto(e)) # Cardinality(Upto(d))
    <3> HIDE DEF Upto
    <3> QED BY <2>1, <2>2, FS_Subset
  <2> QED BY <2>3 DEF Rank
<1>4. \A d, e \in S : Rank(S, d) = Rank(S, e) => d = e
  BY <1>3
<1> DEFINE f == [d \in S |-> Rank(S, d)]
<1>5. f \in Injection(S, 1..k)
  BY <1>2, <1>4 DEF Injection, IsInjective
<1>6. IsFiniteSet(1..k) /\ Cardinality(1..k) = k
  BY <1>1, FS_Interval
<1>7. f \in Surjection(S, 1..k)
  <2> HIDE DEF f
  <2> QED BY <1>5, <1>6, FS_Injection
<1>8. ASSUME NEW r \in 1..k PROVE \E d \in S : Rank(S, d) = r
  BY <1>7 DEF Surjection
<1>9. \A r \in 1..k : Nth(S, r) \in S /\ Rank(S, Nth(S, r)) = r
  BY <1>8 DEF Nth
<1>10. \A d \in S : Nth(S, Rank(S, d)) = d
  BY <1>2, <1>4, <1>9
<1> QED BY <1>1, <1>2, <1>9, <1>10

\* A set of positions that has no gap is 1..m.
LEMMA NoGap ==
    ASSUME NEW n \in Nat, NEW S \in SUBSET (1..n),
           \A i, j \in 1..n : i < j /\ j \in S => i \in S
    PROVE  /\ Cardinality(S) \in Nat /\ S = 1..Cardinality(S)
           /\ \A p \in S : Nth(S, p) = p
<1>1. IsFiniteSet(S) /\ S \subseteq Int
  <2>1. IsFiniteSet(1..n)
    BY FS_Interval
  <2>2. IsFiniteSet(S)
    BY <2>1, FS_Subset
  <2>3. S \subseteq Int
    OBVIOUS
  <2> QED BY <2>2, <2>3
<1>2. /\ Cardinality(S) \in Nat
      /\ \A r \in 1..Cardinality(S) : Nth(S, r) \in S /\ Rank(S, Nth(S, r)) = r
      /\ \A d \in S : Rank(S, d) \in 1..Cardinality(S) /\ Nth(S, Rank(S, d)) = d
  BY <1>1, RankBijection
<1>3. ASSUME NEW i \in S PROVE Rank(S, i) = i
  <2>1. {j \in S : j <= i} = 1..i
    <3>1. i \in 1..n /\ \A j \in S : j \in 1..n
      OBVIOUS
    <3>2. \A j \in 1..i : j \in S
      BY <3>1
    <3>3. \A j \in 1..i : j <= i
      BY <3>1
    <3>4. \A j \in S : j <= i => j \in 1..i
      BY <3>1
    <3> QED BY <3>2, <3>3, <3>4, Zenon
  <2>2. Cardinality(1..i) = i
    BY FS_Interval
  <2> QED BY <2>1, <2>2 DEF Rank
<1>4. S \subseteq 1..Cardinality(S)
  BY <1>2, <1>3
<1>5. 1..Cardinality(S) \subseteq S
  BY <1>2, <1>3
<1> QED BY <1>2, <1>3, <1>4, <1>5

\* Server::search returns entries of the dictionary, each under a listed address.
LEMMA SearchFinds ==
    ASSUME NEW dict, \A a \in DOMAIN dict : dict[a] \in Ciphers,
           NEW n \in Nat, NEW KList, DOMAIN KList = 1..n
    PROVE  /\ ServerSearch(dict, KList) \in Seq(Ciphers)
           /\ \A p \in DOMAIN ServerSearch(dict, KList) :
                 \E i \in 1..n : /\ KList[i] \in DOMAIN dict
                                 /\ ServerSearch(dict, KList)[p] = dict[KList[i]]
<1> DEFINE S == Hits(dict, KList)
           reply == ServerSearch(dict, KList)
<1>1. S \in SUBSET (1..n) /\ \A i \in S : KList[i] \in DOMAIN dict
  BY DEF Hits
<1>2. IsFiniteSet(S) /\ S \subseteq Int
  BY <1>1, FS_Interval, FS_Subset
<1>3. /\ Cardinality(S) \in Nat
      /\ \A r \in 1..Cardinality(S) : Nth(S, r) \in S
  <2> HIDE DEF S
  <2> QED BY <1>2, RankBijection
<1>4. reply = [p \in 1..Cardinality(S) |-> dict[KList[Nth(S, p)]]]
  BY DEF ServerSearch
<1> HIDE DEF S, reply
<1>5. \A p \in 1..Cardinality(S) :
         /\ Nth(S, p) \in 1..n /\ KList[Nth(S, p)] \in DOMAIN dict
         /\ reply[p] = dict[KList[Nth(S, p)]] /\ reply[p] \in Ciphers
  BY <1>1, <1>3, <1>4
<1>6. DOMAIN reply = 1..Cardinality(S) /\ reply \in [1..Cardinality(S) -> Ciphers]
  BY <1>4, <1>5
<1>7. reply \in Seq(Ciphers)
  BY <1>3, <1>6
<1>8. \A p \in DOMAIN reply :
         \E i \in 1..n : KList[i] \in DOMAIN dict /\ reply[p] = dict[KList[i]]
  BY <1>5, <1>6
<1> QED BY <1>7, <1>8 DEF reply

\* The missing addresses are the last ones.
LastMissing(dict, KList, n) ==
    /\ DOMAIN KList = 1..n
    /\ \A i, j \in 1..n : i < j /\ KList[j] \in DOMAIN dict => KList[i] \in DOMAIN dict

\* What a search returns then: the entries of the first m addresses, in order.
FindsFirst(dict, KList, n) ==
    \E m \in 0..n : /\ \A i \in 1..n : KList[i] \in DOMAIN dict <=> i <= m
                    /\ ServerSearch(dict, KList) = [p \in 1..m |-> dict[KList[p]]]

\* When the missing addresses are the last ones, it returns the first ones' entries.
LEMMA SearchFindsFirst ==
    ASSUME NEW dict, NEW n \in Nat, NEW KList, LastMissing(dict, KList, n)
    PROVE  FindsFirst(dict, KList, n)
<1> DEFINE S == Hits(dict, KList)
<1> USE DEF LastMissing
<1>1. S \in SUBSET (1..n) /\ \A i \in 1..n : i \in S <=> KList[i] \in DOMAIN dict
  BY DEF Hits
<1>2. \A i, j \in 1..n : i < j /\ j \in S => i \in S
  BY <1>1
<1>3. ServerSearch(dict, KList) = [p \in 1..Cardinality(S) |-> dict[KList[Nth(S, p)]]]
  BY DEF ServerSearch
<1> HIDE DEF S
<1>4. Cardinality(S) \in Nat /\ S = 1..Cardinality(S) /\ \A p \in S : Nth(S, p) = p
  BY <1>1, <1>2, NoGap
<1>5. ServerSearch(dict, KList) = [p \in 1..Cardinality(S) |-> dict[KList[p]]]
  BY <1>3, <1>4
<1>6. Cardinality(S) \in 0..n
  BY <1>1, <1>4
<1>7. \A i \in 1..n : KList[i] \in DOMAIN dict <=> i <= Cardinality(S)
  BY <1>1, <1>4
<1> QED BY <1>5, <1>6, <1>7 DEF FindsFirst

-----------------------------------------------------------------------------
\* The records of what was sent, and the counters, have their types.
LEMMA SentFacts ==
    ASSUME Types, NEW w \in Keywords
    PROVE  /\ sent[w] \in Seq(Recs) /\ Len(sent[w]) \in Nat
           /\ DOMAIN sent[w] = 1..Len(sent[w])
           /\ \A i \in 1..Len(sent[w]) : sent[w][i] \in Recs
           /\ Count(w) \in Nat /\ Epoch(w) \in Nat
<1>1. sent[w] \in Seq(Recs)
  BY DEF Types
<1>2. Count(w) \in Nat /\ Epoch(w) \in Nat
  BY DEF Types, ClientOK, Count, Epoch, At
<1> QED BY <1>1, <1>2

\* The buffer after getAESRandomValue.
LEMMA StampType ==
    ASSUME Types, NEW k \in Buffers, NEW op \in {0, 1}, NEW src \in Nat, NEW cnt \in Nat
    PROVE  /\ Stamp(k, op, src, cnt) \in Buffers
           /\ Stamp(k, op, src, cnt).word = k.word
           /\ Stamp(k, op, src, cnt).op = op /\ Stamp(k, op, src, cnt).cnt = cnt
           /\ Stamp(k, op, src, cnt).src = IF DeleteFiles THEN src ELSE k.src
BY DEF Stamp, Buffers

\* The buffer a keyword is copied into.
LEMMA KWType ==
    ASSUME NEW w \in Keywords
    PROVE  /\ KW(w) \in Buffers /\ KW(w).word = w
           /\ KW(w).src = 0 /\ KW(w).op = 0 /\ KW(w).cnt = 0
BY DEF KW, Buffers

\* While the search counter of w is 0 updates of w have the addresses and masks of
\* the ledger, in either mode.
LEMMA StampAddr ==
    ASSUME Types, NEW w, NEW i
    PROVE  Stamp(KW(w), 0, 0, i) = Addr(w, i) /\ Stamp(KW(w), 1, 0, i) = Mask(w, i)
BY DEF Stamp, KW, Addr, Mask

\* A keyword that no search found empty before its first update has counter 0.
LEMMA EpochZero ==
    ASSUME Types, Epochs, NEW w \in Keywords, 0 \notin blank[w]
    PROVE  Epoch(w) = 0
BY KWType DEF Epochs, Epoch, At

\* Assigning an entry of a std::map.
LEMMA PutFacts ==
    ASSUME NEW f, NEW k, NEW v
    PROVE  /\ DOMAIN Put(f, k, v) = DOMAIN f \cup {k}
           /\ Put(f, k, v)[k] = v
           /\ \A x \in DOMAIN f : x # k => Put(f, k, v)[x] = f[x]
           /\ At(Put(f, k, v), k) = v
           /\ \A x : x # k => At(Put(f, k, v), x) = At(f, x)
BY DEF Put, At

\* Whether an update was stored does not matter for what was inserted.
LEMMA InsertedSame ==
    ASSUME NEW l1, NEW l2, DOMAIN l1 = DOMAIN l2,
           \A i \in DOMAIN l1 : l1[i].ind = l2[i].ind /\ l1[i].op = l2[i].op
    PROVE  Inserted(l1) = Inserted(l2)
BY DEF Inserted

\* One more update adds its document, if it is an insertion.
LEMMA InsertedAppend ==
    ASSUME NEW log \in Seq(Recs), NEW rec \in Recs
    PROVE  /\ Inserted(log) \subseteq Inserted(Append(log, rec))
           /\ rec.op = INS => rec.ind \in Inserted(Append(log, rec))
<1>1. /\ DOMAIN Append(log, rec) = DOMAIN log \cup {Len(log) + 1}
      /\ \A i \in DOMAIN log : Append(log, rec)[i] = log[i]
      /\ Append(log, rec)[Len(log) + 1] = rec
  OBVIOUS
<1> DEFINE new == Append(log, rec)
<1> HIDE DEF new
<1>2. /\ \A i \in DOMAIN log : i \in DOMAIN new /\ new[i] = log[i]
      /\ Len(log) + 1 \in DOMAIN new /\ new[Len(log) + 1] = rec
  BY <1>1 DEF new
<1>3. Inserted(log) \subseteq Inserted(new) /\ (rec.op = INS => rec.ind \in Inserted(new))
  BY <1>2 DEF Inserted
<1> QED BY <1>3 DEF new

\* A call that changes its stage keeps everything else.
LEMMA StageStep ==
    ASSUME CallOK, call.kind # "idle", NEW s \in Stages, call' = [call EXCEPT !.st = s]
    PROVE  /\ CallOK' /\ call'.kind = call.kind /\ call'.st = s
           /\ call.kind = "update" => call'.w = call.w /\ call'.addr = call.addr /\ call'.val = call.val
           /\ call.kind = "search" => /\ call'.w = call.w /\ call'.k = call.k
                                      /\ call'.KList = call.KList
                                      /\ call'.reply = call.reply /\ call'.seen = call.seen
           /\ call.kind = "batch" => call'.pairs = call.pairs /\ call'.result = call.result
<1>1. CASE call.kind = "setup"
  BY <1>1 DEF CallOK
<1>2. CASE call.kind = "update"
  BY <1>2 DEF CallOK
<1>3. CASE call.kind = "search"
  BY <1>3 DEF CallOK
<1>4. CASE call.kind = "batch"
  BY <1>4 DEF CallOK
<1> QED BY <1>1, <1>2, <1>3, <1>4 DEF CallOK

-----------------------------------------------------------------------------
\* The decoding loop counts a finite number of entries.
LEMMA TallyType ==
    ASSUME NEW enc \in Seq(Ciphers), NEW good \in SUBSET (DOMAIN enc), NEW op, NEW d
    PROVE  /\ Tally(enc, good, op, d) \in Nat
           /\ Tally(enc, good, op, d) # 0 => \E p \in good : enc[p].ind = d /\ enc[p].op = op
<1> DEFINE T == {p \in good : enc[p].ind = d /\ enc[p].op = op}
<1>1. IsFiniteSet(DOMAIN enc)
  <2>1. Len(enc) \in Nat /\ DOMAIN enc = 1..Len(enc)
    OBVIOUS
  <2> QED BY <2>1, FS_Interval
<1>2. T \in SUBSET (DOMAIN enc)
  OBVIOUS
<1>3. IsFiniteSet(T) /\ Cardinality(T) \in Nat
  <2> HIDE DEF T
  <2> QED BY <1>1, <1>2, FS_Subset, FS_CardinalityType
<1>4. Cardinality(T) # 0 => T # {}
  BY FS_EmptySet
<1>5. Tally(enc, good, op, d) = Cardinality(T)
  BY DEF Tally
<1>6. T # {} => \E p \in good : enc[p].ind = d /\ enc[p].op = op
  OBVIOUS
<1> QED BY <1>3, <1>4, <1>5, <1>6

\* What a search reports besides garbage are insertions among the entries it read.
LEMMA ResultKnown ==
    ASSUME NEW enc \in Seq(Ciphers), NEW k, NEW src, NEW log,
           \A p \in DOMAIN enc : Known(enc[p], log)
    PROVE  Positive(enc, k, src) \ {Junk} \subseteq Inserted(log)
<1> SUFFICES ASSUME NEW d \in Positive(enc, k, src), d # Junk
             PROVE  d \in Inserted(log)
  OBVIOUS
<1> DEFINE good == Decoded(enc, k, src)
<1>1. good \in SUBSET (DOMAIN enc)
  BY DEF Decoded
<1>2. Tally(enc, good, DEL, d) - Tally(enc, good, INS, d) < 0
  BY DEF Positive, Removes
<1> HIDE DEF good
<1>3. /\ Tally(enc, good, DEL, d) \in Nat /\ Tally(enc, good, INS, d) \in Nat
      /\ Tally(enc, good, INS, d) # 0 => \E p \in good : enc[p].ind = d /\ enc[p].op = INS
  BY <1>1, TallyType
<1>4. PICK p \in good : enc[p].ind = d /\ enc[p].op = INS
  BY <1>2, <1>3
<1> QED BY <1>1, <1>4 DEF Known

\* The decoding loop, started with buffer k and counter src, derives the masks of w.
Aligned(k, src, w) == \A p \in Nat : Stamp(k, 1, src, p) = Mask(w, p)

\* A reply that is the stored updates, in order and decoded with their masks, is
\* read as exactly the documents they leave live.
LEMMA ResultExact ==
    ASSUME NEW enc \in Seq(Ciphers), NEW log \in Seq(Recs), NEW w, NEW k, NEW src,
           Reads(enc, w, log), Aligned(k, src, w)
    PROVE  Decoded(enc, k, src) = DOMAIN enc /\ Positive(enc, k, src) = LiveDocs(log)
<1> DEFINE m == Len(enc)
           good == Decoded(enc, k, src)
<1>1. /\ m \in Nat /\ DOMAIN enc = 1..m /\ Len(log) \in Nat /\ DOMAIN log = 1..Len(log)
      /\ m <= Len(log) /\ \A i \in 1..Len(log) : log[i] \in Recs
      /\ \A i \in 1..Len(log) : log[i].stored <=> i <= m
      /\ \A p \in 1..m : enc[p] = Cipher(w, log[p], p)
  BY DEF Reads, Stored
<1>2. \A p \in 1..m : enc[p].ind = log[p].ind /\ enc[p].op = log[p].op /\ enc[p].mask = Mask(w, p)
  BY <1>1 DEF Cipher, Encrypt
<1>3. good = 1..m
  BY <1>1, <1>2 DEF Decoded, Unmasks, Aligned
<1> HIDE DEF m, good
<1>4. ASSUME NEW op, NEW d PROVE Tally(enc, good, op, d) = StoredTimes(log, op, d)
  <2>1. {p \in 1..m : enc[p].ind = d /\ enc[p].op = op}
          = {i \in 1..Len(log) : log[i].stored /\ log[i].op = op /\ log[i].ind = d}
    BY <1>1, <1>2
  <2> QED BY <1>1, <1>3, <2>1 DEF Tally, StoredTimes
<1>5. good \in SUBSET (DOMAIN enc)
  BY <1>1, <1>3
<1>6. \A op, d : /\ Tally(enc, good, op, d) \in Nat
                 /\ Tally(enc, good, op, d) # 0 => \E p \in good : enc[p].ind = d /\ enc[p].op = op
  BY <1>5, TallyType
<1>7. \A p \in good : enc[p].ind \in Docs
  BY <1>1, <1>2, <1>3 DEF Recs
<1>8. ASSUME NEW d PROVE d \in Positive(enc, k, src) <=> d \in LiveDocs(log)
  <2>1. d \in Positive(enc, k, src) <=>
           d \in Inds /\ Tally(enc, good, DEL, d) - Tally(enc, good, INS, d) < 0
    BY DEF Positive, Removes, good
  <2>2. d \in LiveDocs(log) <=>
           d \in Docs /\ Tally(enc, good, INS, d) > Tally(enc, good, DEL, d)
    BY <1>4 DEF LiveDocs
  <2>3. Tally(enc, good, INS, d) \in Nat /\ Tally(enc, good, DEL, d) \in Nat
    BY <1>6
  <2>4. Tally(enc, good, INS, d) # 0 => d \in Docs
    BY <1>6, <1>7
  <2> QED BY <2>1, <2>2, <2>3, <2>4 DEF Inds
<1>9. Positive(enc, k, src) = LiveDocs(log)
  BY <1>8, Zenon DEF Positive, LiveDocs
<1> QED BY <1>1, <1>3, <1>9 DEF good

\* The results of a search are a finite set of integers.
LEMMA ResultsFinite ==
    ASSUME NEW res \in SUBSET Inds
    PROVE  IsFiniteSet(res) /\ Cardinality(res) \in Nat /\ res \subseteq Int
BY RunnerAssumption, FS_AddElement, FS_Subset, FS_CardinalityType DEF Inds

\* The cleaning loop writes its results as insertions, under the next counter.
LEMMA CleaningPairsFacts ==
    ASSUME Types, DeleteFiles, NEW k \in Buffers, NEW src \in Nat, NEW res \in SUBSET Inds
    PROVE  \A a \in DOMAIN CleaningPairs(k, src + 1, res) :
              /\ a \in Buffers /\ a.word = k.word /\ a.src > 0
              /\ CleaningPairs(k, src + 1, res)[a] \in Ciphers
              /\ CleaningPairs(k, src + 1, res)[a].ind \in res
<1> DEFINE P == CleaningPairs(k, src + 1, res)
<1> SUFFICES ASSUME NEW a \in DOMAIN P
             PROVE  /\ a \in Buffers /\ a.word = k.word /\ a.src > 0
                    /\ P[a] \in Ciphers /\ P[a].ind \in res
  OBVIOUS
<1>1. PICK d \in res : a = Stamp(k, 0, src + 1, Rank(res, d))
  BY DEF CleaningPairs
<1>2. Rank(res, d) \in Nat
  <2>1. {j \in res : j <= d} \in SUBSET Inds
    OBVIOUS
  <2> QED BY <2>1, ResultsFinite DEF Rank
<1>3. a \in Buffers /\ a.word = k.word /\ a.cnt = Rank(res, d) /\ a.src = src + 1
  BY <1>1, <1>2 DEF Stamp, Buffers
<1>4. Nth(res, a.cnt) \in res
  BY <1>3 DEF Nth
<1>5. Stamp(k, 1, src + 1, a.cnt) \in Buffers
  BY <1>2, <1>3 DEF Stamp, Buffers
<1>6. P[a] = Encrypt(Nth(res, a.cnt), INS, Stamp(k, 1, src + 1, a.cnt))
  BY DEF CleaningPairs
<1> QED
  BY <1>3, <1>4, <1>5, <1>6 DEF Encrypt, Ciphers, INS

-----------------------------------------------------------------------------
\* A step that leaves the counters, the records and the dictionary alone.
LEMMA LedgerKept ==
    ASSUME Counted, Epochs, Ledger,
           UNCHANGED <<DeleteFiles, FileCnt, SrcCnt, DictW, sent, blank, fresh>>
    PROVE  /\ Counted' /\ Epochs' /\ Ledger'
           /\ \A w : Count(w)' = Count(w) /\ Epoch(w)' = Epoch(w)
<1>1. \A w : Count(w)' = Count(w) /\ Epoch(w)' = Epoch(w)
  BY DEF Count, Epoch
<1>2. Counted' /\ Epochs'
  BY <1>1 DEF Counted, Epochs
<1>3. Ledger'
  BY DEF Ledger, Within, Held, HeldAs, Sources
<1> QED BY <1>1, <1>2, <1>3

\* What was answered stays right as long as fresh stays.
LEMMA AnswersKept ==
    ASSUME Answers, UNCHANGED <<answer, fresh>>, call'.kind # "batch"
    PROVE  Answers'
BY DEF Answers, AnswerOK

\* The constructors leave a state of the invariant.
LEMMA InitIInv == Init => IInv
<1> SUFFICES ASSUME Init PROVE IInv
  OBVIOUS
<1> USE DEF Init
<1>1. call.kind = "setup" /\ call \in [kind : {"setup"}, st : Stages]
  BY DEF SetupCall, Stages
<1>2. CallOK
  BY <1>1 DEF CallOK
<1>3. DOMAIN FileCnt = {} /\ DOMAIN SrcCnt = {} /\ DOMAIN DictW = {}
  BY DEF Empty
<1>4. Types
  <2>1. <<>> \in Seq(Recs)
    OBVIOUS
  <2>2. sent \in [Keywords -> Seq(Recs)] /\ blank \in [Keywords -> SUBSET Nat]
    BY <2>1
  <2>3. DeleteFiles \in BOOLEAN
    BY RunnerAssumption
  <2> QED BY <1>2, <1>3, <2>2, <2>3 DEF Types, ClientOK, ServerOK
<1>5. Counted
  BY <1>3 DEF Counted, Count, At
<1>6. Epochs /\ Ledger
  BY <1>3 DEF Epochs, Ledger
<1>7. InFlight
  BY <1>1 DEF InFlight, InSetup, InUpdate, InSearch, InBatch
<1>8. AnswerOK(answer)
  BY DEF NoAnswer, AnswerOK
<1> QED BY <1>1, <1>4, <1>5, <1>6, <1>7, <1>8 DEF IInv, Answers

\* Client::updateRequest: the next counter is the client's, and nothing is stored
\* under it yet, because the dictionary holds nothing beyond the counters.
LEMMA UpdateIInv ==
    ASSUME IInv, NEW op \in {INS, DEL}, NEW w \in Keywords, NEW d \in Docs,
           update(op, w, d), UNCHANGED DeleteFiles
    PROVE  IInv'
<1> DEFINE n   == Len(sent[w])
           rec == [op |-> op, ind |-> d, stored |-> FALSE]
<1>1. /\ sent[w] \in Seq(Recs) /\ n \in Nat /\ DOMAIN sent[w] = 1..n
      /\ Count(w) = n /\ Epoch(w) \in Nat
  BY SentFacts DEF IInv, Counted
<1>2. /\ FileCnt' = Put(FileCnt, KW(w), n + 1)
      /\ SrcCnt' = IF DeleteFiles THEN Put(SrcCnt, KW(w), Epoch(w)) ELSE SrcCnt
      /\ call' = [kind |-> "update", st |-> "sent", w |-> w,
                  addr |-> Stamp(KW(w), 0, Epoch(w), n + 1),
                  val  |-> Encrypt(d, op, Stamp(KW(w), 1, Epoch(w), n + 1))]
      /\ sent' = [sent EXCEPT ![w] = Append(@, rec)]
      /\ UNCHANGED <<server, DictW, blank, fresh, answer>>
  BY <1>1 DEF update, Count, Epoch, serverVars
<1>3. rec \in Recs
  BY DEF Recs
<1>4. /\ sent'[w] = Append(sent[w], rec) /\ \A v \in Keywords : v # w => sent'[v] = sent[v]
      /\ sent' \in [Keywords -> Seq(Recs)]
      /\ Len(sent'[w]) = n + 1 /\ sent'[w][n + 1] = rec
      /\ DOMAIN sent'[w] = 1..(n + 1)
      /\ \A i \in 1..n : sent'[w][i] = sent[w][i]
  <2>1. sent \in [Keywords -> Seq(Recs)]
    BY DEF IInv, Types
  <2>2. sent'[w] = Append(sent[w], rec) /\ \A v \in Keywords : v # w => sent'[v] = sent[v]
    BY <1>2, <2>1
  <2>3. Append(sent[w], rec) \in Seq(Recs)
    BY <1>1, <1>3
  <2>4. sent' \in [Keywords -> Seq(Recs)]
    BY <1>2, <2>1, <2>3
  <2> HIDE DEF rec
  <2> QED BY <1>1, <2>2, <2>4
<1> HIDE DEF n
<1>5. \A x : At(SrcCnt', x) = At(SrcCnt, x)
  BY <1>2 DEF Put, At, Epoch
<1>6. /\ \A v \in Keywords : Epoch(v)' = Epoch(v)
      /\ Count(w)' = n + 1
      /\ \A v \in Keywords : v # w => Count(v)' = Count(v)
  <2>1. \A v \in Keywords : v # w => KW(v) # KW(w)
    BY DEF KW
  <2>2. \A v \in Keywords : Epoch(v)' = Epoch(v)
    BY <1>5 DEF Epoch
  <2>3. Count(w)' = n + 1
    BY <1>2 DEF Count, Put, At
  <2>4. \A v \in Keywords : v # w => Count(v)' = Count(v)
    BY <1>2, <2>1 DEF Count, Put, At
  <2> QED BY <2>2, <2>3, <2>4
<1>7. KW(w) \in Buffers
  BY KWType
<1>8. CallOK'
  <2>1. Stamp(KW(w), 0, Epoch(w), n + 1) \in Buffers /\ Stamp(KW(w), 1, Epoch(w), n + 1) \in Buffers
    BY <1>1, <1>7 DEF Stamp, Buffers
  <2>2. Encrypt(d, op, Stamp(KW(w), 1, Epoch(w), n + 1)) \in Ciphers
    BY <2>1 DEF Encrypt, Ciphers, Inds
  <2> QED BY <1>2, <2>1, <2>2 DEF CallOK, Stages
<1>9. ClientOK'
  <2>1. ClientOK
    BY DEF IInv, Types
  <2> QED BY <1>1, <1>2, <1>7, <2>1 DEF ClientOK, Put
<1>10. Types'
  BY <1>2, <1>4, <1>8, <1>9 DEF IInv, Types, ServerOK
<1>11. Counted'
  BY <1>4, <1>6 DEF IInv, Counted
<1>12. Epochs'
  <2> SUFFICES ASSUME NEW k \in DOMAIN SrcCnt', k.op = 0, SrcCnt'[k] # 0
               PROVE  k.cnt \in blank[k.word]
    BY <1>2 DEF Epochs
  <2>1. k \in DOMAIN SrcCnt /\ SrcCnt[k] # 0
    BY <1>5 DEF At
  <2> QED BY <2>1 DEF IInv, Epochs
<1>13. Ledger'
  <2> SUFFICES ASSUME fresh PROVE Within' /\ Held' /\ Sources'
    BY <1>2 DEF Ledger
  <2>0. Within /\ Held /\ Sources /\ ServerOK
    BY DEF IInv, Ledger, Types
  <2>1. \A a \in DOMAIN DictW : a \in Buffers /\ a.word \in Keywords /\ a.cnt \in Nat
    BY <2>0 DEF ServerOK, Buffers
  <2>2. Within'
    <3> SUFFICES ASSUME NEW a \in DOMAIN DictW, a.src = 0 PROVE a.cnt <= Len(sent'[a.word])
      BY <1>2 DEF Within
    <3>1. a.cnt <= Len(sent[a.word])
      BY <2>0 DEF Within
    <3>2. CASE a.word = w
      BY <1>1, <1>4, <2>1, <3>1, <3>2 DEF n
    <3>3. CASE a.word # w
      BY <1>4, <2>1, <3>1, <3>3
    <3> QED BY <3>2, <3>3
  <2>3. Held'
    <3> SUFFICES ASSUME NEW v \in Keywords, 0 \notin blank[v], NEW i \in DOMAIN sent'[v]
                 PROVE  HeldAs(v, i)'
      BY <1>2 DEF Held
    <3>1. CASE v = w /\ i = n + 1
      <4>1. Addr(w, n + 1) \notin DOMAIN DictW
        BY <1>1, <2>0 DEF Within, Addr, n
      <4>2. sent'[v][i].stored = FALSE
        BY <1>4, <3>1
      <4> QED BY <1>2, <3>1, <4>1, <4>2 DEF HeldAs
    <3>2. CASE ~(v = w /\ i = n + 1)
      <4>1. i \in DOMAIN sent[v] /\ sent'[v][i] = sent[v][i]
        BY <1>1, <1>4, <3>2
      <4>2. HeldAs(v, i)
        BY <2>0, <4>1 DEF Held
      <4> QED BY <1>2, <4>1, <4>2 DEF HeldAs
    <3> QED BY <3>1, <3>2
  <2>4. Sources'
    <3> SUFFICES ASSUME NEW a \in DOMAIN DictW PROVE Known(DictW[a], sent'[a.word])
      BY <1>2 DEF Sources
    <3>1. Known(DictW[a], sent[a.word])
      BY <2>0 DEF Sources
    <3>2. Inserted(sent[a.word]) \subseteq Inserted(sent'[a.word])
      <4>1. Inserted(sent[w]) \subseteq Inserted(Append(sent[w], rec))
        BY <1>1, <1>3, InsertedAppend
      <4> QED BY <1>4, <2>1, <4>1
    <3> QED BY <3>1, <3>2 DEF Known
  <2> QED BY <2>2, <2>3, <2>4
<1>14. InFlight'
  <2>1. call'.kind = "update"
    BY <1>2
  <2>2. /\ call'.w = w
        /\ call'.addr = Stamp(KW(w), 0, Epoch(w), n + 1)
        /\ call'.val = Encrypt(d, op, Stamp(KW(w), 1, Epoch(w), n + 1))
    BY <1>2
  <2>3. \A o, c : Stamp(KW(w), o, Epoch(w), c)' = Stamp(KW(w), o, Epoch(w), c)
    BY <1>6 DEF Stamp
  <2>4. Len(sent'[w]) = n + 1 /\ n + 1 > 0 /\ sent'[w][n + 1].ind = d /\ sent'[w][n + 1].op = op
    BY <1>1, <1>4
  <2>5. InUpdate'
    BY <2>2, <2>3, <2>4 DEF InUpdate
  <2> QED BY <2>1, <2>5 DEF InFlight, InSetup, InSearch, InBatch
<1>15. Answers'
  BY <1>2, AnswersKept DEF IInv
<1> QED BY <1>10, <1>11, <1>12, <1>13, <1>14, <1>15 DEF IInv

\* Client::searchRequest lists the addresses under the counters of the keyword.
LEMMA SearchRequestIInv ==
    ASSUME IInv, NEW w \in Keywords, searchRequest(w), UNCHANGED DeleteFiles
    PROVE  IInv'
<1>1. /\ sent[w] \in Seq(Recs) /\ Count(w) \in Nat /\ Epoch(w) \in Nat
  BY SentFacts DEF IInv
<1>2. /\ call' = [kind |-> "search", st |-> "sent", w |-> w,
                  k |-> AfterKList(KW(w), Epoch(w), Count(w)),
                  KList |-> KListOf(KW(w), Epoch(w), Count(w)),
                  reply |-> <<>>, seen |-> <<>>]
      /\ UNCHANGED <<DeleteFiles, FileCnt, SrcCnt, server, DictW, sent, blank, fresh, answer>>
  BY DEF searchRequest, Count, Epoch, clientVars, serverVars, ghosts
<1> DEFINE k == AfterKList(KW(w), Epoch(w), Count(w))
<1>3. /\ k \in Buffers /\ k.word = w /\ k.op = 0 /\ k.cnt = Count(w)
      /\ ~DeleteFiles \/ Count(w) = 0 => k.src = 0
  BY <1>1, KWType DEF AfterKList, Stamp, Buffers
<1>4. /\ Counted' /\ Epochs' /\ Ledger'
      /\ Count(w)' = Count(w) /\ Epoch(w)' = Epoch(w)
  BY <1>2, LedgerKept DEF IInv
<1> HIDE DEF k
<1>5. CallOK'
  <2>1. <<>> \in Seq(Ciphers) /\ <<>> \in Seq(Recs)
    OBVIOUS
  <2> QED BY <1>2, <1>3, <2>1 DEF CallOK, Stages, k
<1>6. Types'
  BY <1>2, <1>5 DEF IInv, Types, ClientOK, ServerOK
<1>7. InFlight'
  <2>1. /\ call'.kind = "search" /\ call'.st = "sent" /\ call'.w = w /\ call'.k = k
        /\ call'.KList = KListOf(KW(w), Epoch(w), Count(w))
    BY <1>2 DEF k
  <2>2. KListOf(KW(w), Epoch(w), Count(w))' = KListOf(KW(w), Epoch(w), Count(w))
    BY <1>2, <1>4 DEF KListOf, Stamp
  <2>3. InSearch'
    BY <1>2, <1>3, <1>4, <2>1, <2>2 DEF InSearch
  <2> QED BY <2>1, <2>3 DEF InFlight, InSetup, InUpdate, InBatch
<1>8. Answers'
  BY <1>2, AnswersKept DEF IInv
<1> QED BY <1>4, <1>6, <1>7, <1>8 DEF IInv

-----------------------------------------------------------------------------
\* The local values of Client::searchProcess: the reply it decodes, the counter it
\* looks up, what it misreads, the documents it finds and the answer it gives.
Processing(enc, srcCnt, junk, res, r) ==
    /\ enc = IF call.st = "done" THEN call.reply ELSE <<>>
    /\ srcCnt = IF DeleteFiles THEN At(SrcCnt, call.k) ELSE 0
    /\ junk \in JunkReads(enc, call.k, srcCnt)
    /\ res = Positive(enc, call.k, srcCnt) \cup junk
    /\ r = Result(call.w, res)

\* What Client::searchProcess makes of a reply, or of none: documents inserted for
\* the keyword and garbage; if the search can be believed, exactly the live ones.
LEMMA ProcessResult ==
    ASSUME IInv, call.kind = "search", NEW enc, NEW srcCnt, NEW junk, NEW res, NEW r,
           Processing(enc, srcCnt, junk, res, r)
    PROVE  /\ enc \in Seq(Ciphers) /\ srcCnt \in Nat /\ res \in SUBSET Inds
           /\ enc = <<>> => res = {}
           /\ fresh => res \ {Junk} \subseteq Inserted(sent[call.w])
           /\ r \in Results /\ AnswerOK(r)
<1> DEFINE w == call.w
           k == call.k
<1> USE DEF Processing
<1>1. /\ w \in Keywords /\ k \in Buffers /\ call.reply \in Seq(Ciphers) /\ call.seen \in Seq(Recs)
  BY DEF IInv, Types, CallOK
<1>2. enc \in Seq(Ciphers)
  <2>1. <<>> \in Seq(Ciphers)
    OBVIOUS
  <2> QED BY <1>1, <2>1
<1>3. srcCnt \in Nat
  BY DEF IInv, Types, ClientOK, At
<1>4. junk \subseteq {Junk}
  BY DEF JunkReads
<1>5. res \in SUBSET Inds
  <2>1. Junk \in Inds
    BY DEF Inds
  <2> QED BY <1>4, <2>1 DEF Positive
<1>6. enc = <<>> => res = {}
  <2> SUFFICES ASSUME enc = <<>> PROVE res = {}
    OBVIOUS
  <2>1. DOMAIN enc = {}
    OBVIOUS
  <2>2. Decoded(enc, k, srcCnt) = {}
    BY <2>1 DEF Decoded
  <2>3. junk = {}
    BY <2>1, <2>2 DEF JunkReads
  <2>4. \A op, d : Tally(enc, {}, op, d) = 0
    BY FS_EmptySet DEF Tally
  <2>5. \A d : ~(Removes(enc, {}, d) < 0)
    BY <2>4 DEF Removes
  <2>6. Positive(enc, k, srcCnt) = {}
    BY <2>2, <2>5 DEF Positive
  <2> QED BY <2>3, <2>6
<1>7. fresh => res \ {Junk} \subseteq Inserted(call.seen)
  <2> SUFFICES ASSUME fresh PROVE res \ {Junk} \subseteq Inserted(call.seen)
    OBVIOUS
  <2>1. CASE call.st = "done"
    <3>1. \A p \in DOMAIN enc : Known(enc[p], call.seen)
      BY <2>1 DEF IInv, InFlight, InSearch, Replied
    <3>2. Positive(enc, k, srcCnt) \ {Junk} \subseteq Inserted(call.seen)
      <4> HIDE DEF k
      <4> QED BY <1>2, <3>1, ResultKnown
    <3> QED BY <1>4, <3>2
  <2>2. CASE call.st # "done"
    BY <1>6, <2>2
  <2> QED BY <2>1, <2>2
<1>8. fresh => res \ {Junk} \subseteq Inserted(sent[w])
  <2>1. CASE call.st = "done"
    <3>1. Inserted(call.seen) = Inserted(sent[w])
      BY <2>1 DEF IInv, InFlight, InSearch, Replied
    <3> QED BY <1>7, <3>1
  <2>2. CASE call.st # "done"
    BY <1>6, <2>2
  <2> QED BY <2>1, <2>2
<1>9. Trusted(w) \in BOOLEAN
  BY Zenon DEF Trusted
<1>10. r \in Results
  BY <1>1, <1>5, <1>9 DEF Result, Results
<1>11. Trusted(w) => res = LiveDocs(call.seen)
  <2> SUFFICES ASSUME Trusted(w) PROVE res = LiveDocs(call.seen)
    OBVIOUS
  <2>1. /\ call.st = "done" /\ fresh /\ IsPrefix(call.seen)
        /\ 0 \notin blank[w] /\ Count(w) \notin blank[w]
    BY DEF Trusted, Count
  <2>2. /\ k.word = w /\ k.op = 0 /\ k.cnt = Count(w) /\ (~DeleteFiles => k.src = 0)
        /\ Reads(call.reply, w, call.seen)
    BY <2>1 DEF IInv, InFlight, InSearch, Replied
  <2>3. srcCnt = 0
    BY <2>1, <2>2 DEF IInv, Epochs, At
  <2>4. \A p \in Nat : Stamp(k, 1, srcCnt, p) = Mask(w, p)
    BY <2>2, <2>3 DEF Stamp, Mask
  <2>5. enc = call.reply
    BY <2>1
  <2>6. Decoded(enc, k, srcCnt) = DOMAIN enc /\ Positive(enc, k, srcCnt) = LiveDocs(call.seen)
    <3>1. PICK log, v, b : log = call.seen /\ v = w /\ b = k
      OBVIOUS
    <3>2. log \in Seq(Recs) /\ Reads(enc, v, log) /\ Aligned(b, srcCnt, v)
      BY <1>1, <2>2, <2>4, <2>5, <3>1 DEF Aligned
    <3>3. Decoded(enc, b, srcCnt) = DOMAIN enc /\ Positive(enc, b, srcCnt) = LiveDocs(log)
      <4> HIDE DEF k, w, Processing
      <4> QED BY <1>2, <3>2, ResultExact
    <3> QED BY <3>1, <3>3
  <2>7. junk = {}
    BY <2>6 DEF JunkReads
  <2> QED BY <2>6, <2>7
<1>12. r.ids = res /\ r.seen = call.seen /\ r.trusted = Trusted(w)
  BY DEF Result
<1>13. AnswerOK(r)
  BY <1>7, <1>11, <1>12 DEF AnswerOK
<1> QED BY <1>2, <1>3, <1>5, <1>6, <1>8, <1>10, <1>13

\* The counters move under buffers that no update and no request looks up, or under
\* the keyword's own when the search found nothing.
LEMMA ProcessBuffers ==
    ASSUME IInv, call.kind = "search", DeleteFiles,
           NEW enc \in Seq(Ciphers), NEW srcCnt \in Nat, NEW res \in SUBSET Inds,
           enc = <<>> => res = {}, NEW k1, NEW k2,
           k1 = AfterDecode(enc, call.k, srcCnt),
           k2 = AfterCleaning(k1, srcCnt + 1, res)
    PROVE  /\ k1 \in Buffers /\ k1.word = call.w /\ k2 \in Buffers
           /\ k1.op = 0 => enc = <<>> /\ k1.cnt = Count(call.w)
           /\ Cardinality(res) \in Nat
           /\ \A v \in Keywords : k2 = KW(v) => Cardinality(res) = Count(v)
<1>1. /\ call.w \in Keywords /\ call.k \in Buffers /\ Len(enc) \in Nat
  BY DEF IInv, Types, CallOK
<1>2. /\ call.k.word = call.w /\ call.k.op = 0 /\ call.k.cnt = Count(call.w)
  BY DEF IInv, InFlight, InSearch
<1>3. /\ k1 \in Buffers /\ k1.word = call.w
      /\ k1.op = 0 => enc = <<>> /\ k1.cnt = Count(call.w)
  <2>1. CASE enc = <<>>
    BY <1>1, <1>2, <2>1 DEF AfterDecode
  <2>2. CASE enc # <<>>
    <3>1. k1 = Stamp(call.k, 1, srcCnt, Len(enc))
      BY <2>2 DEF AfterDecode
    <3> QED BY <1>1, <1>2, <3>1 DEF Stamp, Buffers
  <2> QED BY <2>1, <2>2
<1>4. Cardinality(res) \in Nat
  BY ResultsFinite
<1>5. k2 \in Buffers
  BY <1>3, <1>4 DEF AfterCleaning, Stamp, Buffers
<1>6. ASSUME NEW v \in Keywords, k2 = KW(v) PROVE Cardinality(res) = Count(v)
  <2>1. k2.op = 0 /\ k2.word = v /\ k2.cnt = 0
    BY <1>6 DEF KW
  <2>2. res = {}
    BY <2>1 DEF AfterCleaning, Stamp
  <2>3. k2 = k1
    BY <2>2 DEF AfterCleaning
  <2>4. Count(v) = 0
    BY <1>3, <2>1, <2>3
  <2>5. Cardinality(res) = 0
    BY <2>2, FS_EmptySet
  <2> QED BY <2>4, <2>5
<1> QED BY <1>3, <1>4, <1>5, <1>6

\* Client::searchProcess and the call of batchUpdate.
LEMMA SearchProcessIInv ==
    ASSUME IInv, searchProcess, UNCHANGED DeleteFiles
    PROVE  IInv'
<1>1. call.kind = "search" /\ call.st # "sent"
  BY DEF searchProcess
<1>2. PICK w : w = call.w
  OBVIOUS
<1>3. PICK enc : enc = IF call.st = "done" THEN call.reply ELSE <<>>
  OBVIOUS
<1>4. PICK srcCnt : srcCnt = IF DeleteFiles THEN At(SrcCnt, call.k) ELSE 0
  OBVIOUS
<1>5. PICK k1 : k1 = AfterDecode(enc, call.k, srcCnt)
  OBVIOUS
<1>6. PICK junk \in JunkReads(enc, call.k, srcCnt) :
         IF DeleteFiles
         THEN LET res == Positive(enc, call.k, srcCnt) \cup junk
              IN  /\ SrcCnt' = Put(SrcCnt, k1, At(SrcCnt, k1) + 1)
                  /\ FileCnt' = Put(FileCnt, AfterCleaning(k1, srcCnt + 1, res),
                                    Cardinality(res))
                  /\ call' = [kind |-> "batch", st |-> "sent",
                              pairs |-> CleaningPairs(k1, srcCnt + 1, res),
                              result |-> Result(w, res)]
                  /\ blank' = [blank EXCEPT ![w] =
                                  IF enc = <<>> THEN @ \cup {At(FileCnt, KW(w))} ELSE @]
                  /\ UNCHANGED answer
         ELSE /\ answer' = Result(w, Positive(enc, call.k, srcCnt) \cup junk)
              /\ call' = Idle
              /\ UNCHANGED <<FileCnt, SrcCnt, blank>>
  BY <1>2, <1>3, <1>4, <1>5 DEF searchProcess, clientVars
<1>7. PICK res : res = Positive(enc, call.k, srcCnt) \cup junk
  OBVIOUS
<1>8. PICK r : r = Result(w, res)
  OBVIOUS
<1>9. UNCHANGED <<DeleteFiles, server, DictW, sent, fresh>>
  BY DEF searchProcess, serverVars
<1>10. /\ enc \in Seq(Ciphers) /\ srcCnt \in Nat /\ res \in SUBSET Inds
       /\ enc = <<>> => res = {}
       /\ fresh => res \ {Junk} \subseteq Inserted(sent[w])
       /\ r \in Results /\ AnswerOK(r)
  <2>1. Processing(enc, srcCnt, junk, res, r)
    BY <1>2, <1>3, <1>4, <1>6, <1>7, <1>8 DEF Processing
  <2>2. /\ enc \in Seq(Ciphers) /\ srcCnt \in Nat /\ res \in SUBSET Inds
        /\ enc = <<>> => res = {}
        /\ fresh => res \ {Junk} \subseteq Inserted(sent[call.w])
        /\ r \in Results /\ AnswerOK(r)
    BY <1>1, <2>1, ProcessResult
  <2> QED BY <1>2, <2>2
<1>11. AnswerOK(r)'
  BY <1>9, <1>10 DEF AnswerOK
<1>12. w \in Keywords
  BY <1>1, <1>2 DEF IInv, Types, CallOK
<1>13. CASE ~DeleteFiles
  <2>1. answer' = r /\ call' = Idle /\ UNCHANGED <<FileCnt, SrcCnt, blank>>
    BY <1>6, <1>7, <1>8, <1>13
  <2>2. Counted' /\ Epochs' /\ Ledger'
    BY <1>9, <2>1, LedgerKept DEF IInv
  <2>3. call'.kind = "idle" /\ CallOK'
    BY <2>1 DEF CallOK, Idle
  <2>4. Types'
    BY <1>9, <1>10, <2>1, <2>3 DEF IInv, Types, ClientOK, ServerOK
  <2>5. InFlight'
    BY <2>3 DEF InFlight, InSetup, InUpdate, InSearch, InBatch
  <2>6. Answers'
    BY <1>11, <2>1, <2>3 DEF Answers
  <2> QED BY <2>2, <2>4, <2>5, <2>6 DEF IInv
<1>14. CASE DeleteFiles
  <2>1. PICK k2 : k2 = AfterCleaning(k1, srcCnt + 1, res)
    OBVIOUS
  <2>2. PICK P : P = CleaningPairs(k1, srcCnt + 1, res)
    OBVIOUS
  <2>3. /\ SrcCnt' = Put(SrcCnt, k1, At(SrcCnt, k1) + 1)
        /\ FileCnt' = Put(FileCnt, k2, Cardinality(res))
        /\ call' = [kind |-> "batch", st |-> "sent", pairs |-> P, result |-> r]
        /\ blank' = [blank EXCEPT ![w] = IF enc = <<>> THEN @ \cup {Count(w)} ELSE @]
        /\ UNCHANGED answer
    BY <1>6, <1>7, <1>8, <1>14, <2>1, <2>2 DEF Count
  <2>4. /\ k1 \in Buffers /\ k1.word = w /\ k2 \in Buffers
        /\ k1.op = 0 => enc = <<>> /\ k1.cnt = Count(w)
        /\ Cardinality(res) \in Nat
        /\ \A v \in Keywords : k2 = KW(v) => Cardinality(res) = Count(v)
    BY <1>1, <1>2, <1>5, <1>10, <1>14, <2>1, ProcessBuffers
  <2>5. \A v \in Keywords : Count(v)' = Count(v)
    BY <2>3, <2>4 DEF Count, Put, At
  <2>6. Count(w) \in Nat /\ blank \in [Keywords -> SUBSET Nat] /\ ClientOK
    BY <1>12, SentFacts DEF IInv, Types, ClientOK
  <2>7. /\ blank' \in [Keywords -> SUBSET Nat]
        /\ \A v \in Keywords : blank[v] \subseteq blank'[v]
        /\ enc = <<>> => Count(w) \in blank'[w]
    BY <1>12, <2>3, <2>6
  <2>8. ClientOK'
    <3>1. At(SrcCnt, k1) + 1 \in Nat
      BY <2>6 DEF ClientOK, At
    <3>2. DOMAIN SrcCnt' \subseteq Buffers /\ \A x \in DOMAIN SrcCnt' : SrcCnt'[x] \in Nat
      BY <2>3, <2>4, <2>6, <3>1 DEF ClientOK, Put
    <3>3. DOMAIN FileCnt' \subseteq Buffers /\ \A x \in DOMAIN FileCnt' : FileCnt'[x] \in Nat
      BY <2>3, <2>4, <2>6 DEF ClientOK, Put
    <3> QED BY <2>7, <3>2, <3>3 DEF ClientOK
  <2>9. /\ call'.kind = "batch" /\ call'.pairs = P /\ call'.result = r /\ CallOK'
    BY <1>10, <2>3 DEF CallOK, Stages
  <2>10. Types'
    BY <1>9, <2>3, <2>8, <2>9 DEF IInv, Types, ServerOK
  <2>11. Counted'
    BY <1>9, <2>5 DEF IInv, Counted
  <2>12. Epochs'
    <3> SUFFICES ASSUME NEW x \in DOMAIN SrcCnt', x.op = 0, SrcCnt'[x] # 0
                 PROVE  x.cnt \in blank'[x.word]
      BY DEF Epochs
    <3>1. CASE x = k1
      BY <2>4, <2>7, <3>1
    <3>2. CASE x # k1
      <4>1. x \in DOMAIN SrcCnt /\ SrcCnt'[x] = SrcCnt[x]
        BY <2>3, <3>2 DEF Put
      <4>2. x.cnt \in blank[x.word]
        BY <4>1 DEF IInv, Epochs
      <4>3. x.word \in Keywords
        BY <2>6, <4>1 DEF ClientOK, Buffers
      <4> QED BY <2>7, <4>2, <4>3
    <3> QED BY <3>1, <3>2
  <2>13. Ledger'
    <3>1. Within => Within'
      BY <1>9 DEF Within
    <3>2. Sources => Sources'
      BY <1>9 DEF Sources
    <3>3. Held => Held'
      BY <1>9, <2>7 DEF Held, HeldAs
    <3> QED BY <1>9, <3>1, <3>2, <3>3 DEF IInv, Ledger
  <2>14. InFlight'
    <3>1. \A a \in DOMAIN P : /\ a \in Buffers /\ a.word = w /\ a.src > 0
                              /\ P[a] \in Ciphers /\ P[a].ind \in res
      <4>1. Types
        BY DEF IInv
      <4> QED BY <1>10, <1>14, <2>2, <2>4, <4>1, CleaningPairsFacts
    <3>2. InBatch'
      BY <1>9, <1>10, <2>9, <3>1 DEF InBatch, Known
    <3> QED BY <2>9, <3>2 DEF InFlight, InSetup, InUpdate, InSearch
  <2>15. Answers'
    <3>1. AnswerOK(answer)'
      BY <1>9, <2>3 DEF IInv, Answers, AnswerOK
    <3> QED BY <1>11, <2>9, <3>1 DEF Answers
  <2> QED BY <2>10, <2>11, <2>12, <2>13, <2>14, <2>15 DEF IInv
<1> QED BY <1>13, <1>14

-----------------------------------------------------------------------------
\* A call other than a search returns, whatever its status.
LEMMA ReturnIInv ==
    ASSUME IInv, return, UNCHANGED DeleteFiles
    PROVE  IInv'
<1>1. /\ call' = Idle /\ answer' = IF call.kind = "batch" THEN call.result ELSE answer
      /\ UNCHANGED <<DeleteFiles, FileCnt, SrcCnt, server, DictW, sent, blank, fresh>>
  BY DEF return, clientVars, serverVars, ghosts
<1>2. Counted' /\ Epochs' /\ Ledger'
  BY <1>1, LedgerKept DEF IInv
<1>3. call'.kind = "idle" /\ CallOK'
  BY <1>1 DEF CallOK, Idle
<1>4. answer' \in Results \cup {NoAnswer}
  BY <1>1 DEF IInv, Types, CallOK
<1>5. Types'
  BY <1>1, <1>3, <1>4 DEF IInv, Types, ClientOK, ServerOK
<1>6. InFlight'
  BY <1>3 DEF InFlight, InSetup, InUpdate, InSearch, InBatch
<1>7. Answers'
  BY <1>1, <1>3 DEF IInv, Answers, AnswerOK
<1> QED BY <1>2, <1>5, <1>6, <1>7 DEF IInv

\* The client of a call that fails has learnt nothing.
LEMMA FailIInv ==
    ASSUME IInv, refuse \/ loseCall, UNCHANGED DeleteFiles
    PROVE  IInv'
<1>1. /\ call.kind # "idle" /\ call' = [call EXCEPT !.st = "failed"]
      /\ UNCHANGED <<DeleteFiles, FileCnt, SrcCnt, server, DictW, sent, blank, fresh, answer>>
  BY DEF IInv, Types, CallOK, refuse, loseCall, clientVars, serverVars, ghosts
<1>2. /\ CallOK' /\ call'.kind = call.kind /\ call'.st = "failed"
      /\ call.kind = "update" => call'.w = call.w /\ call'.addr = call.addr /\ call'.val = call.val
      /\ call.kind = "search" => /\ call'.w = call.w /\ call'.k = call.k
                                 /\ call'.KList = call.KList
                                 /\ call'.reply = call.reply /\ call'.seen = call.seen
      /\ call.kind = "batch" => call'.pairs = call.pairs /\ call'.result = call.result
  BY <1>1, StageStep DEF IInv, Types, Stages
<1>3. /\ Counted' /\ Epochs' /\ Ledger'
      /\ \A w : Count(w)' = Count(w) /\ Epoch(w)' = Epoch(w)
  BY <1>1, LedgerKept DEF IInv
<1>4. Types'
  BY <1>1, <1>2 DEF IInv, Types, ClientOK, ServerOK
<1>5. InSetup' /\ InUpdate'
  BY <1>1, <1>2 DEF IInv, InFlight, InSetup, InUpdate
<1>6. InSearch'
  <2> SUFFICES ASSUME call.kind = "search" PROVE InSearch'
    BY <1>2 DEF InSearch
  <2>1. \A w : KListOf(KW(w), Epoch(w), Count(w))' = KListOf(KW(w), Epoch(w), Count(w))
    BY <1>1, <1>3 DEF KListOf, Stamp
  <2> QED BY <1>1, <1>2, <1>3, <2>1 DEF IInv, InFlight, InSearch
<1>7. InBatch'
  BY <1>1, <1>2 DEF IInv, InFlight, InBatch
<1>8. Answers'
  BY <1>1, <1>2 DEF IInv, Answers, AnswerOK
<1> QED BY <1>3, <1>4, <1>5, <1>6, <1>7, <1>8 DEF IInv, InFlight

\* The setup handler starts with an empty dictionary, and the client has sent
\* nothing yet.
LEMMA HandleSetupIInv ==
    ASSUME IInv, handleSetup, UNCHANGED DeleteFiles
    PROVE  IInv'
<1>1. /\ call.kind = "setup" /\ call' = [call EXCEPT !.st = "done"]
      /\ server' = "ready" /\ DictW' = Empty /\ fresh' = TRUE
      /\ UNCHANGED <<DeleteFiles, FileCnt, SrcCnt, sent, blank, answer>>
  BY DEF handleSetup, clientVars
<1>2. CallOK' /\ call'.kind = "setup" /\ call'.st = "done"
  BY <1>1, StageStep DEF IInv, Types, Stages
<1>3. sent = [w \in Keywords |-> <<>>] /\ answer = NoAnswer
  BY <1>1 DEF IInv, InFlight, InSetup
<1>4. DOMAIN DictW' = {}
  BY <1>1 DEF Empty
<1>5. Types'
  BY <1>1, <1>2, <1>4 DEF IInv, Types, ClientOK, ServerOK
<1>6. Counted' /\ Epochs'
  BY <1>1 DEF IInv, Counted, Epochs, Count
<1>7. Ledger'
  <2>1. Within' /\ Sources'
    BY <1>4 DEF Within, Sources
  <2>2. Held'
    BY <1>1, <1>3 DEF Held
  <2> QED BY <2>1, <2>2 DEF Ledger
<1>8. InFlight'
  BY <1>1, <1>2, <1>3 DEF InFlight, InSetup, InUpdate, InSearch, InBatch
<1>9. Answers'
  <2>1. AnswerOK(NoAnswer)'
    BY DEF AnswerOK, NoAnswer
  <2> QED BY <1>1, <1>2, <1>3, <2>1 DEF Answers
<1> QED BY <1>5, <1>6, <1>7, <1>8, <1>9 DEF IInv

\* The client process starts again: whatever the server holds is not its own.
LEMMA RestartClientIInv ==
    ASSUME IInv, restartClient, UNCHANGED DeleteFiles
    PROVE  IInv'
<1>1. /\ FileCnt' = Empty /\ SrcCnt' = Empty /\ call' = SetupCall
      /\ sent' = [w \in Keywords |-> <<>>] /\ blank' = [w \in Keywords |-> {}]
      /\ fresh' = FALSE /\ answer' = NoAnswer
      /\ UNCHANGED <<DeleteFiles, server, DictW>>
  BY DEF restartClient, serverVars
<1>2. call'.kind = "setup" /\ call' \in [kind : {"setup"}, st : Stages]
  BY <1>1 DEF SetupCall, Stages
<1>3. CallOK'
  BY <1>2 DEF CallOK
<1>4. DOMAIN FileCnt' = {} /\ DOMAIN SrcCnt' = {}
  BY <1>1 DEF Empty
<1>5. Types'
  <2>1. <<>> \in Seq(Recs)
    OBVIOUS
  <2>2. sent' \in [Keywords -> Seq(Recs)] /\ blank' \in [Keywords -> SUBSET Nat]
    BY <1>1, <2>1
  <2> QED BY <1>1, <1>3, <1>4, <2>2 DEF IInv, Types, ClientOK, ServerOK
<1>6. Counted'
  BY <1>1, <1>4 DEF Counted, Count, At
<1>7. Epochs' /\ Ledger'
  BY <1>1, <1>4 DEF Epochs, Ledger
<1>8. InFlight'
  BY <1>1, <1>2 DEF InFlight, InSetup, InUpdate, InSearch, InBatch
<1>9. AnswerOK(answer)'
  BY <1>1 DEF NoAnswer, AnswerOK
<1> QED BY <1>2, <1>5, <1>6, <1>7, <1>8, <1>9 DEF IInv, Answers

\* Server::search of the listed addresses, while the client waits.
LEMMA HandleSearchIInv ==
    ASSUME IInv, handleSearch, UNCHANGED DeleteFiles
    PROVE  IInv'
<1>1. PICK w : w = call.w
  OBVIOUS
<1>2. PICK KList : KList = call.KList
  OBVIOUS
<1>3. PICK reply : reply = ServerSearch(DictW, KList)
  OBVIOUS
<1>4. PICK log : log = sent[w]
  OBVIOUS
<1>5. PICK n : n = Len(log)
  OBVIOUS
<1>6. /\ call.kind = "search"
      /\ call' = [call EXCEPT !.st = "done", !.reply = reply, !.seen = log]
      /\ UNCHANGED <<DeleteFiles, FileCnt, SrcCnt, server, DictW, sent, blank, fresh, answer>>
  BY <1>1, <1>2, <1>3, <1>4 DEF handleSearch, clientVars, serverVars, ghosts
<1>7. /\ w \in Keywords
      /\ call \in [kind : {"search"}, st : Stages, w : Keywords, k : Buffers,
                   KList : {call.KList}, reply : Seq(Ciphers), seen : Seq(Recs)]
  BY <1>1, <1>6 DEF IInv, Types, CallOK
<1>8. /\ log \in Seq(Recs) /\ n \in Nat /\ DOMAIN log = 1..n /\ Count(w) = n /\ Epoch(w) \in Nat
  BY <1>4, <1>5, <1>7, SentFacts DEF IInv, Counted
<1>9. /\ DOMAIN KList = 1..n
      /\ \A i \in 1..n : KList[i] = Stamp(KW(w), 0, Epoch(w), i) /\ KList[i].word = w
  BY <1>1, <1>2, <1>6, <1>8 DEF IInv, InFlight, InSearch, KListOf, Stamp, KW
<1>10. /\ reply \in Seq(Ciphers)
       /\ \A p \in DOMAIN reply :
             \E i \in 1..n : KList[i] \in DOMAIN DictW /\ reply[p] = DictW[KList[i]]
  <2>1. \A a \in DOMAIN DictW : DictW[a] \in Ciphers
    BY DEF IInv, Types, ServerOK
  <2>2. PICK dict : dict = DictW
    OBVIOUS
  <2>3. /\ ServerSearch(dict, KList) \in Seq(Ciphers)
        /\ \A p \in DOMAIN ServerSearch(dict, KList) :
              \E i \in 1..n : /\ KList[i] \in DOMAIN dict
                              /\ ServerSearch(dict, KList)[p] = dict[KList[i]]
    BY <1>8, <1>9, <2>1, <2>2, SearchFinds
  <2> QED BY <1>3, <2>2, <2>3
<1>11. /\ call'.kind = "search" /\ call'.st = "done" /\ call'.w = w /\ call'.k = call.k
       /\ call'.KList = KList /\ call'.reply = reply /\ call'.seen = log
       /\ call' \in [kind : {"search"}, st : Stages, w : Keywords, k : Buffers,
                     KList : {call'.KList}, reply : Seq(Ciphers), seen : Seq(Recs)]
  BY <1>1, <1>2, <1>6, <1>7, <1>8, <1>10 DEF Stages
<1>12. CallOK'
  BY <1>11 DEF CallOK
<1>13. Types'
  BY <1>6, <1>12 DEF IInv, Types, ClientOK, ServerOK
<1>14. /\ Counted' /\ Epochs' /\ Ledger'
       /\ \A v : Count(v)' = Count(v) /\ Epoch(v)' = Epoch(v)
  BY <1>6, LedgerKept DEF IInv
<1>15. fresh => \A p \in DOMAIN reply : Known(reply[p], log)
  <2> SUFFICES ASSUME fresh, NEW p \in DOMAIN reply PROVE Known(reply[p], log)
    OBVIOUS
  <2>1. PICK i \in 1..n : KList[i] \in DOMAIN DictW /\ reply[p] = DictW[KList[i]]
    BY <1>10
  <2>2. Sources
    BY DEF IInv, Ledger
  <2> QED BY <1>4, <1>9, <2>1, <2>2 DEF Sources
<1>16. fresh /\ 0 \notin blank[w] /\ IsPrefix(log) => Reads(reply, w, log)
  <2> SUFFICES ASSUME fresh, 0 \notin blank[w], IsPrefix(log) PROVE Reads(reply, w, log)
    OBVIOUS
  <2>1. Epoch(w) = 0
    BY <1>7, EpochZero DEF IInv
  <2>2. \A i \in 1..n : KList[i] = Addr(w, i)
    BY <1>9, <2>1 DEF Stamp, KW, Addr
  <2>3. \A i \in 1..n : /\ log[i].stored <=> KList[i] \in DOMAIN DictW
                        /\ KList[i] \in DOMAIN DictW => DictW[KList[i]] = Cipher(w, log[i], i)
    <3>1. Held
      BY DEF IInv, Ledger
    <3> QED BY <1>4, <1>7, <1>8, <2>2, <3>1 DEF Held, HeldAs
  <2>4. \A i, j \in 1..n : i < j /\ KList[j] \in DOMAIN DictW => KList[i] \in DOMAIN DictW
    BY <1>8, <2>3 DEF IsPrefix
  <2>5. PICK m \in 0..n : /\ \A i \in 1..n : KList[i] \in DOMAIN DictW <=> i <= m
                          /\ reply = [p \in 1..m |-> DictW[KList[p]]]
    <3>1. PICK dict : dict = DictW
      OBVIOUS
    <3>2. LastMissing(dict, KList, n)
      BY <1>9, <2>4, <3>1 DEF LastMissing
    <3>3. FindsFirst(dict, KList, n)
      <4>1. n \in Nat
        BY <1>8
      <4> QED BY <3>2, <4>1, SearchFindsFirst
    <3> QED BY <1>3, <3>1, <3>3 DEF FindsFirst
  <2>6. Len(reply) = m /\ DOMAIN reply = 1..m
    BY <2>5
  <2>7. Stored(log, m)
    BY <1>5, <1>8, <2>3, <2>5 DEF Stored
  <2>8. \A p \in 1..m : reply[p] = Cipher(w, log[p], p)
    BY <1>8, <2>3, <2>5
  <2> QED BY <2>6, <2>7, <2>8 DEF Reads
<1>17. InFlight'
  <2>1. Replied'
    <3>1. Inserted(call'.seen) = Inserted(sent'[call'.w])
      BY <1>4, <1>6, <1>11
    <3> QED BY <1>6, <1>11, <1>15, <1>16, <3>1 DEF Replied
  <2>2. KListOf(KW(w), Epoch(w), Count(w))' = KListOf(KW(w), Epoch(w), Count(w))
    BY <1>6, <1>14 DEF KListOf, Stamp
  <2>3. InSearch'
    BY <1>1, <1>2, <1>6, <1>11, <1>14, <2>1, <2>2 DEF IInv, InFlight, InSearch
  <2> QED BY <1>11, <2>3 DEF InFlight, InSetup, InUpdate, InBatch
<1>18. Answers'
  BY <1>6, <1>11, AnswersKept DEF IInv
<1> QED BY <1>13, <1>14, <1>17, <1>18 DEF IInv

-----------------------------------------------------------------------------
\* Only what became of the updates changes, not what they were.
Relabelled ==
    /\ sent' \in [Keywords -> Seq(Recs)]
    /\ \A w \in Keywords :
          /\ Len(sent'[w]) = Len(sent[w]) /\ DOMAIN sent'[w] = DOMAIN sent[w]
          /\ \A i \in DOMAIN sent[w] :
                sent'[w][i].ind = sent[w][i].ind /\ sent'[w][i].op = sent[w][i].op

\* Then the same documents were inserted, and the counters still match.
LEMMA RelabelledKept ==
    ASSUME Counted, Epochs, Relabelled, UNCHANGED <<DeleteFiles, FileCnt, SrcCnt, blank>>
    PROVE  /\ Counted' /\ Epochs'
           /\ \A w : Count(w)' = Count(w) /\ Epoch(w)' = Epoch(w)
           /\ \A w \in Keywords : Inserted(sent'[w]) = Inserted(sent[w])
<1>1. \A w : Count(w)' = Count(w) /\ Epoch(w)' = Epoch(w)
  BY DEF Count, Epoch
<1>2. Counted' /\ Epochs'
  BY <1>1 DEF Counted, Epochs, Relabelled
<1>3. ASSUME NEW w \in Keywords PROVE Inserted(sent'[w]) = Inserted(sent[w])
  <2>1. PICK l1, l2 : l1 = sent'[w] /\ l2 = sent[w]
    OBVIOUS
  <2>2. /\ DOMAIN l1 = DOMAIN l2
        /\ \A i \in DOMAIN l1 : l1[i].ind = l2[i].ind /\ l1[i].op = l2[i].op
    BY <2>1 DEF Relabelled
  <2>3. Inserted(l1) = Inserted(l2)
    BY <2>2, InsertedSame
  <2> QED BY <2>1, <2>3
<1> QED BY <1>1, <1>2, <1>3

\* Server::update stores the last update of its keyword where the ledger says.
LEMMA HandleUpdateIInv ==
    ASSUME IInv, handleUpdate, UNCHANGED DeleteFiles
    PROVE  IInv'
<1>1. PICK w : w = call.w
  OBVIOUS
<1>2. PICK n : n = Len(sent[w])
  OBVIOUS
<1>3. PICK rec : rec = sent[w][n]
  OBVIOUS
<1>4. PICK addr, val : addr = call.addr /\ val = call.val
  OBVIOUS
<1>5. /\ call.kind = "update" /\ call.st = "sent" /\ call' = [call EXCEPT !.st = "done"]
      /\ DictW' = Put(DictW, addr, val)
      /\ sent' = [sent EXCEPT ![w][n].stored = TRUE]
      /\ UNCHANGED <<DeleteFiles, FileCnt, SrcCnt, server, blank, fresh, answer>>
  BY <1>1, <1>2, <1>4 DEF handleUpdate, clientVars
<1>6. /\ CallOK' /\ call'.kind = "update" /\ call'.st = "done"
  BY <1>5, StageStep DEF IInv, Types, Stages
<1>7. w \in Keywords /\ addr \in Buffers /\ val \in Ciphers
  BY <1>1, <1>4, <1>5 DEF IInv, Types, CallOK
<1>8. /\ n > 0 /\ addr = Stamp(KW(w), 0, Epoch(w), n)
      /\ val = Encrypt(rec.ind, rec.op, Stamp(KW(w), 1, Epoch(w), n))
  BY <1>1, <1>2, <1>3, <1>4, <1>5 DEF IInv, InFlight, InUpdate
<1>9. /\ sent \in [Keywords -> Seq(Recs)] /\ sent[w] \in Seq(Recs) /\ n \in Nat
      /\ DOMAIN sent[w] = 1..n /\ n \in 1..n /\ rec \in Recs
  BY <1>2, <1>3, <1>7, <1>8, SentFacts DEF IInv, Types
<1>10. PICK rec2 : rec2 = [rec EXCEPT !.stored = TRUE]
  OBVIOUS
<1>11. rec2 \in Recs /\ rec2.ind = rec.ind /\ rec2.op = rec.op /\ rec2.stored = TRUE
  BY <1>9, <1>10 DEF Recs
<1>12. sent' = [sent EXCEPT ![w] = [sent[w] EXCEPT ![n] = rec2]]
  <2>1. sent' = [sent EXCEPT ![w] = [sent[w] EXCEPT ![n] = [sent[w][n] EXCEPT !.stored = TRUE]]]
    BY <1>5
  <2> QED BY <1>3, <1>10, <2>1
<1>13. /\ sent'[w] = [sent[w] EXCEPT ![n] = rec2]
       /\ \A v \in Keywords : v # w => sent'[v] = sent[v]
  BY <1>7, <1>9, <1>12
<1>14. /\ sent'[w] \in Seq(Recs) /\ Len(sent'[w]) = n /\ DOMAIN sent'[w] = 1..n
       /\ sent'[w][n] = rec2 /\ \A i \in 1..n : i # n => sent'[w][i] = sent[w][i]
  BY <1>2, <1>9, <1>11, <1>13
<1>15. Relabelled
  <2>1. sent' \in [Keywords -> Seq(Recs)]
    BY <1>9, <1>12, <1>13, <1>14
  <2>2. ASSUME NEW v \in Keywords
        PROVE  /\ Len(sent'[v]) = Len(sent[v]) /\ DOMAIN sent'[v] = DOMAIN sent[v]
               /\ \A i \in DOMAIN sent[v] :
                     sent'[v][i].ind = sent[v][i].ind /\ sent'[v][i].op = sent[v][i].op
    BY <1>2, <1>3, <1>9, <1>11, <1>13, <1>14
  <2> QED BY <2>1, <2>2 DEF Relabelled
<1>16. /\ Counted' /\ Epochs'
       /\ \A v \in Keywords : Inserted(sent'[v]) = Inserted(sent[v])
  BY <1>5, <1>15, RelabelledKept DEF IInv
<1>17. /\ DOMAIN DictW' = DOMAIN DictW \cup {addr} /\ DictW'[addr] = val
       /\ \A a \in DOMAIN DictW : a # addr => DictW'[a] = DictW[a]
  BY <1>5 DEF Put
<1>18. ServerOK'
  BY <1>5, <1>7, <1>17 DEF IInv, Types, ServerOK
<1>19. Types'
  BY <1>5, <1>6, <1>15, <1>18 DEF IInv, Types, ClientOK, Relabelled
<1>20. addr.word = w /\ addr.cnt = n /\ addr.op = 0
  BY <1>8 DEF Stamp, KW
<1>21. Ledger'
  <2> SUFFICES ASSUME fresh PROVE Within' /\ Held' /\ Sources'
    BY <1>5 DEF Ledger
  <2>1. Within /\ Held /\ Sources /\ ServerOK
    BY DEF IInv, Ledger, Types
  <2>2. \A a \in DOMAIN DictW : a.word \in Keywords
    BY <2>1 DEF ServerOK, Buffers
  <2>3. Within'
    <3> SUFFICES ASSUME NEW a \in DOMAIN DictW', a.src = 0 PROVE a.cnt <= Len(sent'[a.word])
      BY DEF Within
    <3>1. CASE a = addr
      BY <1>9, <1>14, <1>20, <3>1
    <3>2. CASE a # addr
      BY <1>15, <1>17, <2>1, <2>2, <3>2 DEF Within, Relabelled
    <3> QED BY <3>1, <3>2
  <2>4. Held'
    <3> SUFFICES ASSUME NEW v \in Keywords, 0 \notin blank[v], NEW i \in DOMAIN sent'[v]
                 PROVE  HeldAs(v, i)'
      BY <1>5 DEF Held
    <3>1. CASE v = w /\ i = n
      <4>1. Epoch(w) = 0
        BY <1>7, <3>1, EpochZero DEF IInv
      <4>2. addr = Addr(w, n) /\ val = Cipher(w, rec, n)
        BY <1>8, <4>1 DEF Stamp, KW, Addr, Mask, Cipher
      <4>3. Cipher(w, rec2, n) = Cipher(w, rec, n)
        BY <1>11 DEF Cipher
      <4> QED BY <1>11, <1>14, <1>17, <3>1, <4>2, <4>3 DEF HeldAs
    <3>2. CASE ~(v = w /\ i = n)
      <4>1. i \in DOMAIN sent[v] /\ sent'[v][i] = sent[v][i]
        BY <1>9, <1>13, <1>14, <3>2
      <4>2. HeldAs(v, i)
        BY <2>1, <4>1 DEF Held
      <4>3. Addr(v, i) # addr
        BY <1>20, <3>2 DEF Addr
      <4>4. /\ Addr(v, i) \in DOMAIN DictW' <=> Addr(v, i) \in DOMAIN DictW
            /\ Addr(v, i) \in DOMAIN DictW => DictW'[Addr(v, i)] = DictW[Addr(v, i)]
        BY <1>17, <4>3
      <4> QED BY <4>1, <4>2, <4>4 DEF HeldAs
    <3> QED BY <3>1, <3>2
  <2>5. Sources'
    <3> SUFFICES ASSUME NEW a \in DOMAIN DictW' PROVE Known(DictW'[a], sent'[a.word])
      BY DEF Sources
    <3>1. CASE a = addr
      <4>1. rec.op = INS => rec.ind \in Inserted(sent[w])
        BY <1>3, <1>9 DEF Inserted
      <4>2. DictW'[a].op = rec.op /\ DictW'[a].ind = rec.ind
        BY <1>8, <1>17, <3>1 DEF Encrypt
      <4>3. Inserted(sent'[a.word]) = Inserted(sent[w])
        BY <1>7, <1>16, <1>20, <3>1
      <4> QED BY <4>1, <4>2, <4>3 DEF Known
    <3>2. CASE a # addr
      <4>1. a \in DOMAIN DictW /\ DictW'[a] = DictW[a]
        BY <1>17, <3>2
      <4>2. Inserted(sent'[a.word]) = Inserted(sent[a.word])
        BY <1>16, <2>2, <4>1
      <4> QED BY <2>1, <4>1, <4>2 DEF Sources, Known
    <3> QED BY <3>1, <3>2
  <2> QED BY <2>3, <2>4, <2>5
<1>22. InFlight'
  BY <1>6 DEF InFlight, InSetup, InUpdate, InSearch, InBatch
<1>23. Answers'
  BY <1>5, <1>6, AnswersKept DEF IInv
<1> QED BY <1>16, <1>19, <1>21, <1>22, <1>23 DEF IInv

\* Server::update of a batch touches no address of the ledger: the cleaning loop
\* writes under a counter that is not 0.
LEMMA HandleBatchIInv ==
    ASSUME IInv, handleBatchUpdate, UNCHANGED DeleteFiles
    PROVE  IInv'
<1>1. PICK P : P = call.pairs
  OBVIOUS
<1>2. /\ call.kind = "batch" /\ call' = [call EXCEPT !.st = "done"]
      /\ DictW' = PutAll(DictW, P)
      /\ UNCHANGED <<DeleteFiles, FileCnt, SrcCnt, server, sent, blank, fresh, answer>>
  BY <1>1 DEF handleBatchUpdate, clientVars, ghosts
<1>3. /\ CallOK' /\ call'.kind = "batch" /\ call'.pairs = P /\ call'.result = call.result
  BY <1>1, <1>2, StageStep DEF IInv, Types, Stages
<1>4. \A a \in DOMAIN P : /\ a \in Buffers /\ P[a] \in Ciphers /\ a.src > 0
                          /\ fresh => Known(P[a], sent[a.word])
  BY <1>1, <1>2 DEF IInv, InFlight, InBatch
<1>5. /\ DOMAIN DictW' = DOMAIN DictW \cup DOMAIN P
      /\ \A a \in DOMAIN P : DictW'[a] = P[a]
      /\ \A a \in DOMAIN DictW : a \notin DOMAIN P => DictW'[a] = DictW[a]
  BY <1>2 DEF PutAll
<1>6. ServerOK'
  BY <1>2, <1>4, <1>5 DEF IInv, Types, ServerOK
<1>7. Types'
  BY <1>2, <1>3, <1>6 DEF IInv, Types, ClientOK
<1>8. Counted' /\ Epochs'
  BY <1>2 DEF IInv, Counted, Epochs, Count
<1>9. Ledger'
  <2> SUFFICES ASSUME fresh PROVE Within' /\ Held' /\ Sources'
    BY <1>2 DEF Ledger
  <2>1. Within /\ Held /\ Sources
    BY DEF IInv, Ledger
  <2>2. Within'
    <3> SUFFICES ASSUME NEW a \in DOMAIN DictW', a.src = 0 PROVE a.cnt <= Len(sent[a.word])
      BY <1>2 DEF Within
    <3>1. a \in DOMAIN DictW
      BY <1>4, <1>5
    <3> QED BY <2>1, <3>1 DEF Within
  <2>3. Held'
    <3> SUFFICES ASSUME NEW v \in Keywords, 0 \notin blank[v], NEW i \in DOMAIN sent[v]
                 PROVE  HeldAs(v, i)'
      BY <1>2 DEF Held
    <3>1. Addr(v, i) \notin DOMAIN P
      BY <1>4 DEF Addr
    <3>2. HeldAs(v, i)
      BY <2>1 DEF Held
    <3>3. /\ Addr(v, i) \in DOMAIN DictW' <=> Addr(v, i) \in DOMAIN DictW
          /\ Addr(v, i) \in DOMAIN DictW => DictW'[Addr(v, i)] = DictW[Addr(v, i)]
      BY <1>5, <3>1
    <3> QED BY <1>2, <3>2, <3>3 DEF HeldAs
  <2>4. Sources'
    BY <1>2, <1>4, <1>5, <2>1 DEF Sources
  <2> QED BY <2>2, <2>3, <2>4
<1>10. InFlight'
  <2>1. InBatch'
    BY <1>2, <1>3, <1>4 DEF InBatch
  <2> QED BY <1>3, <2>1 DEF InFlight, InSetup, InUpdate, InSearch
<1>11. Answers'
  BY <1>2, <1>3 DEF IInv, Answers, AnswerOK
<1> QED BY <1>7, <1>8, <1>9, <1>10, <1>11 DEF IInv

\* The server process starts again with nothing stored; the client does not notice.
LEMMA RestartServerIInv ==
    ASSUME IInv, restartServer, UNCHANGED DeleteFiles
    PROVE  IInv'
<1>1. /\ server' = "none" /\ DictW' = Empty
      /\ sent' = [w \in Keywords |->
                    [i \in DOMAIN sent[w] |-> [sent[w][i] EXCEPT !.stored = FALSE]]]
      /\ UNCHANGED <<DeleteFiles, FileCnt, SrcCnt, call, blank, fresh, answer>>
  BY DEF restartServer, clientVars
<1>2. ASSUME NEW w \in Keywords
      PROVE  /\ sent'[w] \in Seq(Recs) /\ Len(sent'[w]) = Len(sent[w])
             /\ DOMAIN sent'[w] = DOMAIN sent[w]
             /\ \A i \in DOMAIN sent[w] : /\ sent'[w][i].ind = sent[w][i].ind
                                          /\ sent'[w][i].op = sent[w][i].op
                                          /\ sent'[w][i].stored = FALSE
  <2>1. PICK n : n = Len(sent[w])
    OBVIOUS
  <2>2. n \in Nat /\ DOMAIN sent[w] = 1..n /\ \A i \in 1..n : sent[w][i] \in Recs
    BY <2>1, SentFacts DEF IInv
  <2>3. sent'[w] = [i \in 1..n |-> [sent[w][i] EXCEPT !.stored = FALSE]]
    BY <1>1, <2>2
  <2>4. ASSUME NEW i \in 1..n
        PROVE  /\ sent'[w][i] \in Recs /\ sent'[w][i].ind = sent[w][i].ind
               /\ sent'[w][i].op = sent[w][i].op /\ sent'[w][i].stored = FALSE
    <3>1. sent[w][i] \in Recs /\ sent'[w][i] = [sent[w][i] EXCEPT !.stored = FALSE]
      BY <2>2, <2>3
    <3> QED BY <3>1 DEF Recs
  <2>5. sent'[w] \in [1..n -> Recs]
    BY <2>3, <2>4
  <2>6. sent'[w] \in Seq(Recs) /\ Len(sent'[w]) = n /\ DOMAIN sent'[w] = 1..n
    BY <2>2, <2>5
  <2> QED BY <2>1, <2>2, <2>4, <2>6
<1>3. Relabelled
  <2>1. sent' \in [Keywords -> Seq(Recs)]
    <3>1. DOMAIN sent' = Keywords /\ sent' = [w \in Keywords |-> sent'[w]]
      BY <1>1
    <3> QED BY <1>2, <3>1
  <2> QED BY <1>2, <2>1 DEF Relabelled
<1>4. /\ Counted' /\ Epochs'
      /\ \A w : Count(w)' = Count(w) /\ Epoch(w)' = Epoch(w)
      /\ \A w \in Keywords : Inserted(sent'[w]) = Inserted(sent[w])
  BY <1>1, <1>3, RelabelledKept DEF IInv
<1>5. DOMAIN DictW' = {}
  BY <1>1 DEF Empty
<1>6. CallOK'
  BY <1>1 DEF IInv, Types, CallOK
<1>7. Types'
  BY <1>1, <1>3, <1>5, <1>6 DEF IInv, Types, ClientOK, ServerOK, Relabelled
<1>8. Ledger'
  <2>1. Within' /\ Sources'
    BY <1>5 DEF Within, Sources
  <2>2. Held'
    BY <1>2, <1>5 DEF Held, HeldAs
  <2> QED BY <2>1, <2>2 DEF Ledger
<1>9. InSetup'
  <2> SUFFICES ASSUME call.kind = "setup" PROVE InSetup'
    BY <1>1 DEF InSetup
  <2>1. sent = [w \in Keywords |-> <<>>] /\ answer = NoAnswer
    BY DEF IInv, InFlight, InSetup
  <2>2. \A w \in Keywords : DOMAIN sent[w] = {}
    BY <2>1
  <2>3. sent' = [w \in Keywords |-> [i \in {} |-> [sent[w][i] EXCEPT !.stored = FALSE]]]
    BY <1>1, <2>2
  <2>4. sent' = [w \in Keywords |-> <<>>]
    BY <2>3
  <2> QED BY <1>1, <2>1, <2>4 DEF InSetup
<1>10. InUpdate'
  <2> SUFFICES ASSUME call.kind = "update", call.st = "sent" PROVE InUpdate'
    BY <1>1 DEF InUpdate
  <2>1. PICK w, n : w = call.w /\ n = Len(sent[call.w])
    OBVIOUS
  <2>2. w \in Keywords
    BY <2>1 DEF IInv, Types, CallOK
  <2>3. /\ n > 0 /\ call.addr = Stamp(KW(w), 0, Epoch(w), n)
        /\ call.val = Encrypt(sent[w][n].ind, sent[w][n].op, Stamp(KW(w), 1, Epoch(w), n))
    BY <2>1 DEF IInv, InFlight, InUpdate
  <2>4. n \in DOMAIN sent[w]
    BY <2>1, <2>2, <2>3, SentFacts DEF IInv
  <2>5. /\ Len(sent'[w]) = n
        /\ sent'[w][n].ind = sent[w][n].ind /\ sent'[w][n].op = sent[w][n].op
    BY <1>2, <2>1, <2>2, <2>4
  <2>6. \A o : Stamp(KW(w), o, Epoch(w), n)' = Stamp(KW(w), o, Epoch(w), n)
    BY <1>1, <1>4 DEF Stamp
  <2> QED BY <1>1, <2>1, <2>3, <2>5, <2>6, ZenonT(60) DEF InUpdate
<1>11. InSearch'
  <2> SUFFICES ASSUME call.kind = "search" PROVE InSearch'
    BY <1>1 DEF InSearch
  <2>1. call.w \in Keywords
    BY DEF IInv, Types, CallOK
  <2>2. KListOf(KW(call.w), Epoch(call.w), Count(call.w))'
          = KListOf(KW(call.w), Epoch(call.w), Count(call.w))
    BY <1>1, <1>4 DEF KListOf, Stamp
  <2>3. Replied => Replied'
    BY <1>1, <1>4, <2>1 DEF Replied
  <2> QED BY <1>1, <1>4, <2>2, <2>3 DEF IInv, InFlight, InSearch
<1>12. InBatch'
  BY <1>1, <1>4 DEF IInv, InFlight, InBatch, Known, Buffers
<1>13. Answers'
  BY <1>1 DEF IInv, Answers, AnswerOK
<1> QED BY <1>4, <1>7, <1>8, <1>9, <1>10, <1>11, <1>12, <1>13 DEF IInv, InFlight

-----------------------------------------------------------------------------
\* Every step keeps the inductive invariant.
LEMMA NextIInv == IInv /\ [Next]_vars => IInv'
<1> SUFFICES ASSUME IInv, [Next]_vars PROVE IInv'
  OBVIOUS
<1>1. CASE UNCHANGED vars
  <2>1. UNCHANGED <<DeleteFiles, FileCnt, SrcCnt, server, DictW, call, sent, blank, fresh, answer>>
    BY <1>1 DEF vars
  <2>2. Counted' /\ Epochs' /\ Ledger' /\ \A w : Count(w)' = Count(w) /\ Epoch(w)' = Epoch(w)
    BY <2>1, LedgerKept DEF IInv
  <2>3. Types'
    BY <2>1 DEF IInv, Types, ClientOK, ServerOK, CallOK
  <2>4. InSetup' /\ InBatch' /\ Answers'
    BY <2>1 DEF IInv, InFlight, InSetup, InBatch, Answers, AnswerOK
  <2>5. InUpdate'
    BY <2>1, <2>2 DEF IInv, InFlight, InUpdate, Stamp
  <2>6. InSearch'
    BY <2>1, <2>2 DEF IInv, InFlight, InSearch, Replied, KListOf, Stamp
  <2> QED BY <2>2, <2>3, <2>4, <2>5, <2>6 DEF IInv, InFlight
<1>2. CASE Next
  BY <1>2, UpdateIInv, SearchRequestIInv, SearchProcessIInv, ReturnIInv, HandleSetupIInv,
     HandleUpdateIInv, HandleBatchIInv, HandleSearchIInv, FailIInv, RestartServerIInv,
     RestartClientIInv DEF Next, Step
<1> QED BY <1>1, <1>2

\* The inductive invariant holds in every reachable state.
LEMMA Invariance == Spec => []IInv
BY InitIInv, NextIInv, PTL DEF Spec

\* In a state of the invariant the types are right.
LEMMA IInvTypes == IInv => TypeOK
<1> SUFFICES ASSUME IInv PROVE TypeOK
  OBVIOUS
<1>1. call = Idle \/ call.st \in Stages
  BY DEF IInv, Types, CallOK
<1>2. answer.ids \subseteq Inds
  BY DEF IInv, Types, Results, NoAnswer
<1> QED BY <1>1, <1>2 DEF TypeOK, IInv, Types, ClientOK, ServerOK, Stages

\* For any keywords, documents, updates, searches, lost calls and restarts, in either
\* mode, a search of MitraClientRunner that can be believed returns exactly the
\* documents that the stored updates leave live.
THEOREM Exactness == Spec => []AnswerExact
<1>1. IInv => AnswerExact
  BY IInvTypes DEF IInv, Answers, AnswerOK, AnswerExact
<1> QED BY <1>1, Invariance, PTL

\* And no search of a client that set the server up, believable or not, reports a
\* document that was not inserted for the keyword, other than garbage.
THEOREM NothingForeign == Spec => []NoForeignDocuments
<1>1. IInv => NoForeignDocuments
  BY DEF IInv, Answers, AnswerOK, NoForeignDocuments, Inserted
<1> QED BY <1>1, Invariance, PTL
=============================================================================
