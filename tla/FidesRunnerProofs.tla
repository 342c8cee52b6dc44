------------------------- MODULE FidesRunnerProofs --------------------------
(***************************************************************************)
(* Fides over gRPC, for every set of keywords and documents and any number *)
(* of updates, searches, lost calls and restarts, with either table and in *)
(* either mode: the ledger of what should be stored matches the server's   *)
(* table, searches are exact, and a cleaning search that succeeds leaves   *)
(* the server with exactly its answer.                                     *)
(***************************************************************************)
EXTENDS FidesRunner, FiniteSetTheorems, SequenceTheorems, TLAPS

\* The length of the chain of w by the client's counter.
Chain(w) == AddCount(ramCounter, w)

Recs == [op : {"INS", "DEL"}, ind : Docs, stored : BOOLEAN]
Stages == {"sent", "done", "failed"}
Outs == [w : Keywords, ids : SUBSET Docs, ok : BOOLEAN, seen : Seq(Recs)]

\* The client's call; what a reply or a batch holds is said by InFlight.
CallOK ==
    /\ call.kind \in {"idle", "setup", "update", "search", "batch"}
    /\ call.kind = "idle" => call = Idle
    /\ call.kind = "setup" => call \in [kind : {"setup"}, st : Stages]
    /\ call.kind = "update" =>
          call \in [kind : {"update"}, st : Stages, w : Keywords, token : Tokens, val : Values]
    /\ call.kind = "search" =>
          call \in [kind : {"search"}, st : Stages, w : Keywords, prg : PrgKeys,
                    addCount : Nat, reply : {call.reply}, seen : Seq(Recs)]
    /\ call.kind = "batch" =>
          call \in [kind : {"batch"}, st : Stages, w : Keywords, out : Outs, pairs : {call.pairs}]

Types ==
    /\ UseHDD \in BOOLEAN /\ DeleteItems \in BOOLEAN
    /\ DOMAIN ramCounter \subseteq Keywords
    /\ \A w \in DOMAIN ramCounter : ramCounter[w] \in Nat
    /\ prg \in PrgKeys
    /\ server \in {"none", "ready", "nodb"}
    /\ server = "nodb" => UseHDD
    /\ DOMAIN edb \subseteq Tokens /\ \A t \in DOMAIN edb : edb[t] \in Values
    /\ ledger \in [Keywords -> Seq(Recs)]
    /\ fresh \in BOOLEAN
    /\ CallOK
    /\ answer \in Outs \cup {NoAnswer}

\* The ledger has a record for every counter; a table that was clean at setup
\* holds nothing beyond the counters, and what the records say.
Counted == \A w \in Keywords : Len(ledger[w]) = Chain(w)
Value(rec) == [op |-> rec.op, ind |-> rec.ind]
HeldAs(w, i) ==
    LET t == Token(prg, w, i - 1)
    IN  /\ ledger[w][i].stored <=> t \in DOMAIN edb
        /\ t \in DOMAIN edb => edb[t] = Value(ledger[w][i])
Within == \A t \in DOMAIN edb : t.prg = prg => t.cnt < Chain(t.word)
Ledger ==
    fresh => Within /\ \A w \in Keywords : \A i \in 1..Chain(w) : HeldAs(w, i)

\* What the outstanding call knows of the client's state and the ledger.
InSetup == call.kind = "setup" => ledger = NoLog /\ answer = NoAnswer
InUpdate ==
    call.kind = "update" /\ call.st = "sent" =>
        LET n == Chain(call.w)
        IN  /\ n > 0
            /\ call.token = Token(prg, call.w, n - 1)
            /\ ledger[call.w][n] = Rec(call.val.op, call.val.ind)
Unstored(w, n) == \A i \in 1..n : ~ledger[w][i].stored
Matches(reply, log) ==
    /\ DOMAIN reply = {c \in 0..(Len(log) - 1) : log[c + 1].stored}
    /\ \A c \in DOMAIN reply : reply[c] = Value(log[c + 1])
InSearch ==
    call.kind = "search" =>
        /\ call.prg = prg /\ call.addCount = Chain(call.w)
        /\ call.st = "done" =>
              /\ IF DeleteItems THEN Unstored(call.w, Chain(call.w))
                 ELSE call.seen = ledger[call.w]
              /\ fresh => Matches(call.reply, call.seen)
BatchFrom(n) ==
    /\ Chain(call.w) = n + Cardinality(call.out.ids)
    /\ call.out.w = call.w
    /\ call.st = "sent" => call.pairs = Reinserted(prg, call.w, n, call.out.ids)
    /\ \A r \in 1..Cardinality(call.out.ids) :
          /\ Value(ledger[call.w][n + r]) = [op |-> "INS", ind |-> NthIn(call.out.ids, r)]
          /\ call.st = "sent" => ~ledger[call.w][n + r].stored
          /\ call.st = "done" => ledger[call.w][n + r].stored
    /\ call.out.ok /\ call.st # "failed" => Unstored(call.w, n)
InBatch == call.kind = "batch" => \E n \in 0..Chain(call.w) : BatchFrom(n)
InFlight == InSetup /\ InUpdate /\ InSearch /\ InBatch

\* Answers, given or about to be given, are exact.
ExactOut(o) == o.ok => o.ids = LiveDocs(o.seen)
Answers == fresh => ExactOut(answer) /\ (call.kind = "batch" => ExactOut(call.out))

IInv == Types /\ Counted /\ Ledger /\ InFlight /\ Answers
-----------------------------------------------------------------------------
\* Tokens of different keys, keywords or counters are different.
LEMMA TokensDiffer ==
    \A p, q, v, w, b, c : Token(p, v, b) = Token(q, w, c) => p = q /\ v = w /\ b = c
<1> SUFFICES ASSUME NEW p, NEW q, NEW v, NEW w, NEW b, NEW c, Token(p, v, b) = Token(q, w, c)
             PROVE  p = q /\ v = w /\ b = c
  OBVIOUS
<1>1. Token(p, v, b).prg = p /\ Token(p, v, b).word = v /\ Token(p, v, b).cnt = b
  BY DEF Token
<1>2. Token(q, w, c).prg = q /\ Token(q, w, c).word = w /\ Token(q, w, c).cnt = c
  BY DEF Token
<1> QED BY <1>1, <1>2

\* The fields of a token.
LEMMA TokenFields ==
    \A p \in PrgKeys, w \in Keywords, c \in Nat :
        LET t == Token(p, w, c)
        IN  t \in Tokens /\ t.prg = p /\ t.word = w /\ t.cnt = c
BY DEF Token, Tokens

\* The chain of every keyword has a length.
LEMMA ChainType ==
    ASSUME Types, NEW w \in Keywords
    PROVE  Chain(w) \in Nat
BY DEF Types, Chain, AddCount

\* The records of a ledger.
LEMMA LedgerFacts ==
    ASSUME Types, Counted, NEW w \in Keywords
    PROVE  /\ Chain(w) \in Nat /\ ledger[w] \in Seq(Recs)
           /\ Len(ledger[w]) = Chain(w) /\ DOMAIN ledger[w] = 1..Chain(w)
           /\ \A i \in 1..Chain(w) : ledger[w][i] \in Recs
<1>1. ledger[w] \in Seq(Recs) /\ Len(ledger[w]) = Chain(w)
  BY DEF Types, Counted
<1> QED BY <1>1, ChainType

\* update_request, n times in a row, lengthens the chain of w by n and no other.
LEMMA AdvanceChain ==
    ASSUME Types, NEW w \in Keywords, NEW n \in Nat, ramCounter' = Advance(ramCounter, w, n)
    PROVE  /\ Chain(w)' = Chain(w) + n
           /\ \A v \in Keywords \ {w} : Chain(v)' = Chain(v)
           /\ DOMAIN ramCounter' \subseteq Keywords
           /\ \A v \in DOMAIN ramCounter' : ramCounter'[v] \in Nat
<1>1. Chain(w) \in Nat
  BY ChainType
<1>2. CASE n = 0
  <2>1. ramCounter' = ramCounter
    BY <1>2 DEF Advance
  <2> QED BY <1>1, <1>2, <2>1 DEF Types, Chain
<1>3. CASE n # 0
  <2>1. ramCounter' = [v \in DOMAIN ramCounter \cup {w} |->
                          IF v = w THEN Chain(w) + n - 1 ELSE ramCounter[v]]
    BY <1>3 DEF Advance, Chain
  <2>2. w \in DOMAIN ramCounter' /\ ramCounter'[w] = Chain(w) + n - 1
    BY <2>1
  <2>3. ramCounter'[w] \in Nat /\ Chain(w)' = Chain(w) + n
    BY <1>1, <1>3, <2>2 DEF Chain, AddCount
  <2>4. \A v \in Keywords \ {w} : /\ v \in DOMAIN ramCounter' <=> v \in DOMAIN ramCounter
                                  /\ v \in DOMAIN ramCounter => ramCounter'[v] = ramCounter[v]
    BY <2>1
  <2>5. \A v \in Keywords \ {w} : Chain(v)' = Chain(v)
    BY <2>4 DEF Chain, AddCount
  <2> QED BY <2>1, <2>3, <2>4, <2>5 DEF Types
<1> QED BY <1>2, <1>3

\* What a call that changes its stage keeps.
LEMMA StageStep ==
    ASSUME CallOK, call.kind # "idle", NEW s \in Stages, call' = [call EXCEPT !.st = s]
    PROVE  /\ CallOK' /\ call'.kind = call.kind /\ call'.st = s
           /\ call.kind = "update" => call'.w = call.w /\ call'.token = call.token /\ call'.val = call.val
           /\ call.kind = "search" => /\ call'.w = call.w /\ call'.prg = call.prg
                                      /\ call'.addCount = call.addCount
                                      /\ call'.reply = call.reply /\ call'.seen = call.seen
           /\ call.kind = "batch" => call'.w = call.w /\ call'.out = call.out /\ call'.pairs = call.pairs
<1>1. CASE call.kind = "setup"
  BY <1>1 DEF CallOK
<1>2. CASE call.kind = "update"
  BY <1>2 DEF CallOK
<1>3. CASE call.kind = "search"
  BY <1>3 DEF CallOK
<1>4. CASE call.kind = "batch"
  BY <1>4 DEF CallOK
<1> QED BY <1>1, <1>2, <1>3, <1>4 DEF CallOK

\* The rank of a member of a finite set of integers runs through 1..|S|, each
\* rank once, so NthIn is its inverse: the re-insertion loop meets every result
\* exactly once.
LEMMA RankBijection ==
    ASSUME NEW S, IsFiniteSet(S), S \subseteq Int
    PROVE  /\ Cardinality(S) \in Nat
           /\ \A r \in 1..Cardinality(S) : NthIn(S, r) \in S
           /\ \A d \in S : RankIn(S, d) \in 1..Cardinality(S) /\ NthIn(S, RankIn(S, d)) = d
<1> DEFINE k == Cardinality(S)
           Low(d) == {e \in S : e <= d}
<1>1. k \in Nat
  BY FS_CardinalityType
<1>2. ASSUME NEW d \in S PROVE RankIn(S, d) \in 1..k
  <2>1. Low(d) \in SUBSET S /\ d \in Low(d)
    OBVIOUS
  <2>2. IsFiniteSet(Low(d)) /\ Cardinality(Low(d)) <= k
    BY <2>1, FS_Subset
  <2>3. Cardinality(Low(d)) \in Nat /\ Cardinality(Low(d)) # 0
    BY <2>1, <2>2, FS_CardinalityType, FS_EmptySet
  <2>4. RankIn(S, d) = Cardinality(Low(d))
    BY DEF RankIn
  <2> HIDE DEF k, Low
  <2> QED BY <1>1, <2>2, <2>3, <2>4
<1>3. ASSUME NEW d \in S, NEW e \in S, d < e PROVE RankIn(S, d) # RankIn(S, e)
  <2>1. Low(d) \in SUBSET Low(e) /\ Low(d) # Low(e) /\ Low(e) \in SUBSET S
    <3>1. \A x \in S : x <= d => x <= e
      BY <1>3
    <3>2. e \in Low(e) /\ e \notin Low(d)
      BY <1>3
    <3> QED BY <3>1, <3>2
  <2>2. IsFiniteSet(Low(e))
    BY <2>1, FS_Subset
  <2>3. Cardinality(Low(e)) # Cardinality(Low(d))
    <3> HIDE DEF Low
    <3> QED BY <2>1, <2>2, FS_Subset
  <2> QED BY <2>3 DEF RankIn
<1>4. \A d, e \in S : RankIn(S, d) = RankIn(S, e) => d = e
  BY <1>3
<1> DEFINE f == [d \in S |-> RankIn(S, d)]
<1>5. f \in Injection(S, 1..k)
  BY <1>2, <1>4 DEF Injection, IsInjective
<1>6. IsFiniteSet(1..k) /\ Cardinality(1..k) = k
  BY <1>1, FS_Interval
<1>7. f \in Surjection(S, 1..k)
  <2> HIDE DEF f
  <2> QED BY <1>5, <1>6, FS_Injection
<1>8. ASSUME NEW r \in 1..k PROVE \E d \in S : RankIn(S, d) = r
  BY <1>7 DEF Surjection
<1>9. \A r \in 1..k : NthIn(S, r) \in S
  BY <1>8 DEF NthIn
<1>10. \A d \in S : NthIn(S, RankIn(S, d)) = d
  BY <1>4 DEF NthIn
<1> QED BY <1>1, <1>2, <1>9, <1>10

\* The results of a search are a finite set of documents.
LEMMA ResultsType ==
    ASSUME NEW vals
    PROVE  /\ FinalRes(vals) \in SUBSET Docs /\ IsFiniteSet(FinalRes(vals))
           /\ FinalRes(vals) \subseteq Int /\ Cardinality(FinalRes(vals)) \in Nat
<1>1. FinalRes(vals) \in SUBSET Docs
  BY DEF FinalRes
<1> QED BY <1>1, RunnerAssumption, FS_Subset, FS_CardinalityType

\* Counting an operation on a document along a reply, by counter, or along the
\* log that the reply matches, by position, gives the same number.
LEMMA SameCount ==
    ASSUME NEW log \in Seq(Recs), NEW reply, Matches(reply, log),
           NEW op \in {"INS", "DEL"}, NEW d \in Docs
    PROVE  StoredTimes(log, op, d) \in Nat /\ Occurs(reply, op, d) = StoredTimes(log, op, d)
<1> DEFINE n == Len(log)
           A == {i \in DOMAIN log : log[i].stored /\ log[i].op = op /\ log[i].ind = d}
           B == {c \in DOMAIN reply : reply[c] = [op |-> op, ind |-> d]}
           f == [i \in A |-> i - 1]
<1>1. n \in Nat /\ DOMAIN log = 1..n
  OBVIOUS
<1>2. /\ DOMAIN reply = {c \in 0..(n - 1) : log[c + 1].stored}
      /\ \A c \in DOMAIN reply : reply[c] = Value(log[c + 1])
  BY DEF Matches
<1>3. \A rec : Value(rec) = [op |-> op, ind |-> d] <=> rec.op = op /\ rec.ind = d
  BY DEF Value
<1> HIDE DEF n
<1>4. IsFiniteSet(A) /\ Cardinality(A) \in Nat
  <2>1. A \in SUBSET (1..n) /\ IsFiniteSet(1..n)
    BY <1>1, FS_Interval
  <2> QED BY <2>1, FS_Subset, FS_CardinalityType
<1>5. ASSUME NEW i \in A PROVE i - 1 \in B
  <2>1. i \in 1..n /\ log[i].stored /\ log[i].op = op /\ log[i].ind = d
    BY <1>1
  <2>2. i - 1 \in 0..(n - 1) /\ (i - 1) + 1 = i
    BY <1>1, <2>1
  <2>3. i - 1 \in DOMAIN reply /\ reply[i - 1] = Value(log[i])
    BY <1>2, <2>1, <2>2
  <2> QED BY <1>3, <2>1, <2>3
<1>6. ASSUME NEW c \in B PROVE c + 1 \in A /\ (c + 1) - 1 = c
  <2>1. c \in DOMAIN reply /\ Value(log[c + 1]) = [op |-> op, ind |-> d]
    BY <1>2
  <2>2. c \in 0..(n - 1) /\ log[c + 1].stored
    BY <1>2, <2>1
  <2>3. c + 1 \in 1..n /\ (c + 1) - 1 = c
    BY <1>1, <2>2
  <2> QED BY <1>1, <1>3, <2>1, <2>2, <2>3
<1>7. \A i \in A : i \in Int
  BY <1>1
<1> HIDE DEF A, B
<1>8. f \in [A -> B]
  BY <1>5
<1>9. f \in Injection(A, B)
  <2>1. ASSUME NEW i \in A, NEW j \in A, f[i] = f[j] PROVE i = j
    BY <1>7, <2>1
  <2> HIDE DEF f
  <2> QED BY <1>8, <2>1 DEF Injection, IsInjective
<1>10. f \in Surjection(A, B)
  <2>1. ASSUME NEW c \in B PROVE \E i \in A : f[i] = c
    BY <1>6
  <2> HIDE DEF f
  <2> QED BY <1>8, <2>1 DEF Surjection
<1>11. ExistsBijection(A, B)
  BY <1>9, <1>10 DEF ExistsBijection, Bijection
<1>12. Cardinality(B) = Cardinality(A)
  BY <1>4, <1>11, FS_Bijection
<1> QED BY <1>4, <1>12 DEF A, B, StoredTimes, Occurs

\* So searchProcess computes the documents that the stored records leave live.
LEMMA ReplyExact ==
    ASSUME NEW log \in Seq(Recs), NEW reply, Matches(reply, log)
    PROVE  FinalRes(reply) = LiveDocs(log)
<1>1. ASSUME NEW d \in Docs
      PROVE  Sum(reply, d) > 0 <=> StoredTimes(log, "INS", d) > StoredTimes(log, "DEL", d)
  <2>1. /\ StoredTimes(log, "INS", d) \in Nat
        /\ Occurs(reply, "INS", d) = StoredTimes(log, "INS", d)
    BY SameCount
  <2>2. /\ StoredTimes(log, "DEL", d) \in Nat
        /\ Occurs(reply, "DEL", d) = StoredTimes(log, "DEL", d)
    BY SameCount
  <2> QED BY <2>1, <2>2 DEF Sum
<1> QED BY <1>1 DEF FinalRes, LiveDocs

\* A log of which only the re-insertion of res is stored has res live.
LEMMA ReinsertedLive ==
    ASSUME NEW log \in Seq(Recs), NEW res \in SUBSET Docs, NEW n \in Nat,
           Len(log) = n + Cardinality(res),
           \A i \in 1..n : ~log[i].stored,
           \A r \in 1..Cardinality(res) :
               /\ log[n + r].stored
               /\ Value(log[n + r]) = [op |-> "INS", ind |-> NthIn(res, r)]
    PROVE  LiveDocs(log) = res
<1> DEFINE k == Cardinality(res)
           At(op, d) == {i \in DOMAIN log : log[i].stored /\ log[i].op = op /\ log[i].ind = d}
<1>1. IsFiniteSet(res) /\ res \subseteq Int
  BY RunnerAssumption, FS_Subset
<1>2. /\ k \in Nat /\ \A r \in 1..k : NthIn(res, r) \in res
      /\ \A d \in res : RankIn(res, d) \in 1..k /\ NthIn(res, RankIn(res, d)) = d
  BY <1>1, RankBijection
<1>3. DOMAIN log = 1..(n + k)
  OBVIOUS
<1>4. \A r \in 1..k : log[n + r].op = "INS" /\ log[n + r].ind = NthIn(res, r)
  BY DEF Value
<1>5. ASSUME NEW i \in DOMAIN log, log[i].stored
      PROVE  \E r \in 1..k : i = n + r /\ log[i].op = "INS" /\ log[i].ind \in res
  <2> HIDE DEF k
  <2>1. i \in 1..(n + k) /\ i \notin 1..n
    BY <1>3, <1>5
  <2>2. i - n \in 1..k /\ i = n + (i - n)
    BY <1>2, <2>1
  <2> QED BY <1>2, <1>4, <2>2
<1>6. ASSUME NEW d \in Docs PROVE StoredTimes(log, "DEL", d) = 0
  <2>1. At("DEL", d) = {}
    BY <1>5
  <2> QED BY <2>1, FS_EmptySet DEF StoredTimes
<1>7. ASSUME NEW d \in Docs \ res PROVE StoredTimes(log, "INS", d) = 0
  <2>1. At("INS", d) = {}
    BY <1>5
  <2> QED BY <2>1, FS_EmptySet DEF StoredTimes
<1>8. ASSUME NEW d \in res PROVE StoredTimes(log, "INS", d) > 0
  <2>1. At("INS", d) \in SUBSET (1..(n + k)) /\ IsFiniteSet(1..(n + k))
    BY <1>2, <1>3, FS_Interval
  <2>2. IsFiniteSet(At("INS", d)) /\ Cardinality(At("INS", d)) \in Nat
    BY <2>1, FS_Subset, FS_CardinalityType
  <2>3. PICK r \in 1..k : NthIn(res, r) = d
    BY <1>2
  <2>4. n + r \in At("INS", d)
    <3>1. n + r \in 1..(n + k)
      BY <1>2
    <3> QED BY <1>3, <1>4, <2>3, <3>1
  <2>5. Cardinality(At("INS", d)) # 0
    <3> HIDE DEF At
    <3> QED BY <2>2, <2>4, FS_EmptySet
  <2> QED BY <2>2, <2>5 DEF StoredTimes
<1>9. ASSUME NEW d \in Docs
      PROVE  StoredTimes(log, "INS", d) > StoredTimes(log, "DEL", d) <=> d \in res
  BY <1>6, <1>7, <1>8
<1> QED BY <1>9 DEF LiveDocs

-----------------------------------------------------------------------------
\* Nothing happens to the ledger.
LEMMA LedgerKept ==
    ASSUME Counted, Ledger, UNCHANGED <<ramCounter, prg, edb, ledger, fresh>>
    PROVE  Counted' /\ Ledger' /\ \A w : Chain(w)' = Chain(w)
BY DEF Counted, Ledger, Within, HeldAs, Value, Chain

\* The client takes the next n counters for w, and nothing is stored under them
\* yet: because the table holds nothing beyond the chain, the ledger still matches.
LEMMA LedgerGrows ==
    ASSUME Types, Counted, Ledger, NEW w \in Keywords, NEW n \in Nat,
           ramCounter' = Advance(ramCounter, w, n), UNCHANGED <<prg, edb, fresh>>,
           \A v \in Keywords \ {w} : ledger'[v] = ledger[v],
           Len(ledger'[w]) = Chain(w) + n,
           \A i \in 1..Chain(w) : ledger'[w][i] = ledger[w][i],
           \A r \in 1..n : ~ledger'[w][Chain(w) + r].stored
    PROVE  Counted' /\ Ledger'
<1>1. /\ Chain(w)' = Chain(w) + n
      /\ \A v \in Keywords \ {w} : Chain(v)' = Chain(v)
  BY AdvanceChain
<1>2. \A v \in Keywords : Chain(v) \in Nat
  BY ChainType
<1>3. Counted'
  BY <1>1 DEF Counted
<1>4. ASSUME fresh PROVE Within'
  <2> SUFFICES ASSUME NEW t \in DOMAIN edb, t.prg = prg PROVE t.cnt < Chain(t.word)'
    BY DEF Within
  <2>1. t.word \in Keywords /\ t.cnt \in Nat
    BY DEF Types, Tokens
  <2>2. t.cnt < Chain(t.word)
    BY <1>4 DEF Ledger, Within
  <2>3. \A v \in Keywords : Chain(v) <= Chain(v)' /\ Chain(v)' \in Nat
    BY <1>1, <1>2
  <2> QED BY <1>2, <2>1, <2>2, <2>3
<1>5. ASSUME fresh, NEW v \in Keywords, NEW i \in 1..Chain(v)' PROVE HeldAs(v, i)'
  <2>1. CASE v # w
    <3>1. HeldAs(v, i)
      BY <1>1, <1>5, <2>1 DEF Ledger
    <3> QED BY <2>1, <3>1 DEF HeldAs, Value
  <2>2. CASE v = w /\ i \in 1..Chain(w)
    <3>1. HeldAs(w, i)
      BY <1>5, <2>2 DEF Ledger
    <3> QED BY <2>2, <3>1 DEF HeldAs, Value
  <2>3. CASE v = w /\ i \notin 1..Chain(w)
    <3>1. i - Chain(w) \in 1..n /\ i = Chain(w) + (i - Chain(w)) /\ i - 1 \in Nat /\ ~(i - 1 < Chain(w))
      BY <1>1, <1>2, <2>3
    <3>2. ~ledger'[w][i].stored
      BY <3>1
    <3>3. Token(prg, w, i - 1) \notin DOMAIN edb
      <4>1. LET t == Token(prg, w, i - 1) IN t.prg = prg /\ t.word = w /\ t.cnt = i - 1
        BY DEF Token
      <4> QED BY <1>5, <3>1, <4>1 DEF Ledger, Within
    <3> QED BY <2>3, <3>2, <3>3 DEF HeldAs
  <2> QED BY <2>1, <2>2, <2>3
<1>6. Ledger'
  BY <1>4, <1>5 DEF Ledger
<1> QED BY <1>3, <1>6

\* insertKeyword and deleteKeyword, before the call is handled.
LEMMA UpdateIInv ==
    ASSUME IInv, NEW op \in {"INS", "DEL"}, NEW w \in Keywords, NEW d \in Docs,
           update(op, w, d), UNCHANGED mode
    PROVE  IInv'
<1> USE DEF IInv
<1> DEFINE n == Chain(w)
           rec == Rec(op, d)
<1>1. /\ n \in Nat /\ ledger[w] \in Seq(Recs)
      /\ Len(ledger[w]) = n /\ DOMAIN ledger[w] = 1..n
  BY LedgerFacts
<1>2. rec \in Recs /\ ~rec.stored
  BY DEF Rec, Recs
<1>3. ledger' = [ledger EXCEPT ![w] = Append(@, rec)] /\ ledger \in [Keywords -> Seq(Recs)]
  BY DEF update, Types
<1>4. ramCounter' = Advance(ramCounter, w, 1) /\ UNCHANGED <<prg, server, edb, fresh, answer>>
  BY DEF update, serverVars
<1>5. call' = [kind |-> "update", st |-> "sent", w |-> w, token |-> Token(prg, w, n),
               val |-> [op |-> op, ind |-> d]]
  BY DEF update, Chain
<1> HIDE DEF n, rec
<1>6. /\ ledger'[w] = Append(ledger[w], rec)
      /\ \A v \in Keywords \ {w} : ledger'[v] = ledger[v]
  BY <1>3
<1>7. /\ ledger'[w] \in Seq(Recs) /\ Len(ledger'[w]) = n + 1
      /\ \A i \in 1..n : ledger'[w][i] = ledger[w][i]
      /\ ledger'[w][n + 1] = rec
  BY <1>1, <1>2, <1>6
<1>8. ledger' \in [Keywords -> Seq(Recs)]
  BY <1>2, <1>3
<1>9. \A r \in 1..1 : ~ledger'[w][n + r].stored
  BY <1>2, <1>7
<1>10. Counted' /\ Ledger'
  BY <1>4, <1>6, <1>7, <1>9, LedgerGrows DEF n
<1>11. /\ Chain(w)' = n + 1 /\ DOMAIN ramCounter' \subseteq Keywords
       /\ \A v \in DOMAIN ramCounter' : ramCounter'[v] \in Nat
  BY <1>4, AdvanceChain DEF n
<1>12. CallOK'
  <2>1. Token(prg, w, n) \in Tokens /\ [op |-> op, ind |-> d] \in Values
    BY <1>1, TokenFields DEF Types, Values
  <2> QED BY <1>5, <2>1 DEF CallOK, Stages
<1>13. Types'
  BY <1>4, <1>8, <1>11, <1>12 DEF Types, mode
<1>14. InFlight'
  <2>1. InUpdate'
    <3>1. call'.val.op = op /\ call'.val.ind = d /\ call'.w = w /\ call'.token = Token(prg, w, n)
      BY <1>5
    <3>2. (n + 1) - 1 = n /\ n + 1 > 0
      BY <1>1
    <3> QED BY <1>4, <1>7, <1>11, <3>1, <3>2 DEF InUpdate, rec
  <2> QED BY <1>5, <2>1 DEF InFlight, InSetup, InSearch, InBatch
<1>15. Answers'
  BY <1>4, <1>5 DEF Answers, ExactOut, LiveDocs, StoredTimes
<1> QED BY <1>10, <1>13, <1>14, <1>15

\* searchKeyword, before the call is handled.
LEMMA SearchRequestIInv ==
    ASSUME IInv, NEW w \in Keywords, searchRequest(w), UNCHANGED mode
    PROVE  IInv'
<1> USE DEF IInv
<1>1. UNCHANGED <<ramCounter, prg, server, edb, ledger, fresh, answer>>
  BY DEF searchRequest, clientVars, serverVars, ghosts
<1>2. call' = [kind |-> "search", st |-> "sent", w |-> w, prg |-> prg, addCount |-> Chain(w),
               reply |-> Empty, seen |-> <<>>]
  BY DEF searchRequest, Chain
<1>3. Counted' /\ Ledger' /\ Chain(w)' = Chain(w)
  BY <1>1, LedgerKept
<1>4. CallOK'
  <2>1. Chain(w) \in Nat /\ prg \in PrgKeys /\ <<>> \in Seq(Recs)
    BY ChainType DEF Types
  <2> QED BY <1>2, <2>1 DEF CallOK, Stages
<1>5. Types'
  BY <1>1, <1>4 DEF Types, mode
<1>6. InFlight'
  BY <1>1, <1>2, <1>3 DEF InFlight, InSetup, InUpdate, InSearch, InBatch
<1>7. Answers'
  BY <1>1, <1>2 DEF Answers, ExactOut, LiveDocs, StoredTimes
<1> QED BY <1>3, <1>5, <1>6, <1>7

\* searchProcess in cleaning mode: the results take the next counters, and the
\* batch that re-inserts them is on its way.
LEMMA CleaningIInv ==
    ASSUME IInv, searchProcess, DeleteItems, UNCHANGED mode
    PROVE  IInv'
<1> USE DEF IInv
<1>0. PICK w, res, out, n :
         /\ w = call.w /\ n = Chain(w)
         /\ res = FinalRes(IF call.st = "done" THEN call.reply ELSE Empty)
         /\ out = [w |-> w, ids |-> res, ok |-> call.st = "done", seen |-> call.seen]
  OBVIOUS
<1> DEFINE k    == Cardinality(res)
           recs == [r \in 1..k |-> Rec("INS", NthIn(res, r))]
<1>1. /\ call.kind = "search" /\ call.st # "sent"
      /\ ramCounter' = Advance(ramCounter, w, k)
      /\ call' = [kind |-> "batch", st |-> "sent", w |-> w, out |-> out,
                  pairs |-> Reinserted(prg, w, n, res)]
      /\ ledger' = [ledger EXCEPT ![w] = @ \o recs]
      /\ UNCHANGED <<prg, server, edb, fresh, answer>>
  BY <1>0 DEF searchProcess, Chain, serverVars
<1>2. w \in Keywords /\ call.st \in {"done", "failed"} /\ call.seen \in Seq(Recs)
  BY <1>0, <1>1 DEF Types, CallOK, Stages
<1>3. /\ res \in SUBSET Docs /\ IsFiniteSet(res) /\ res \subseteq Int /\ k \in Nat
      /\ \A r \in 1..k : NthIn(res, r) \in res
  BY <1>0, ResultsType, RankBijection
<1>4. out \in Outs /\ out.ids = res /\ out.w = w /\ (out.ok <=> call.st = "done") /\ out.seen = call.seen
  BY <1>0, <1>2, <1>3 DEF Outs
<1>5. /\ n \in Nat /\ ledger[w] \in Seq(Recs)
      /\ Len(ledger[w]) = n /\ DOMAIN ledger[w] = 1..n
  BY <1>0, <1>2, LedgerFacts
<1>6. /\ recs \in Seq(Recs) /\ Len(recs) = k
      /\ \A r \in 1..k : recs[r] = Rec("INS", NthIn(res, r))
  <2>1. \A r \in 1..k : Rec("INS", NthIn(res, r)) \in Recs
    <3>1. \A d \in Docs : Rec("INS", d) \in Recs
      BY DEF Rec, Recs
    <3> HIDE DEF k
    <3> QED BY <1>3, <3>1
  <2> HIDE DEF k
  <2>2. recs \in [1..k -> Recs]
    BY <2>1
  <2>3. \A r \in 1..k : recs[r] = Rec("INS", NthIn(res, r))
    OBVIOUS
  <2>4. recs \in Seq(Recs)
    BY <1>3, <2>2, SeqDef
  <2>5. Len(recs) = k
    <3> HIDE DEF recs
    <3> QED BY <1>3, <2>2, <2>4, LenProperties
  <2> QED BY <2>3, <2>4, <2>5
<1> HIDE DEF k, recs
<1>7. /\ ledger'[w] = ledger[w] \o recs
      /\ \A v \in Keywords \ {w} : ledger'[v] = ledger[v]
      /\ ledger' \in [Keywords -> Seq(Recs)]
  <2>1. ledger \in [Keywords -> Seq(Recs)]
    BY DEF Types
  <2>2. ledger[w] \o recs \in Seq(Recs)
    BY <1>5, <1>6, ConcatProperties
  <2> QED BY <1>1, <1>2, <2>1, <2>2
<1>8. /\ Len(ledger'[w]) = n + k
      /\ \A i \in 1..n : ledger'[w][i] = ledger[w][i]
      /\ \A r \in 1..k : ledger'[w][n + r] = Rec("INS", NthIn(res, r))
  <2>1. /\ Len(ledger[w] \o recs) = n + k
        /\ \A i \in 1..(n + k) : (ledger[w] \o recs)[i] = IF i <= n THEN ledger[w][i] ELSE recs[i - n]
    BY <1>5, <1>6, ConcatProperties
  <2>2. \A r \in 1..k : n + r \in 1..(n + k) /\ ~(n + r <= n) /\ (n + r) - n = r
    BY <1>3, <1>5
  <2>3. \A i \in 1..n : i \in 1..(n + k) /\ i <= n
    BY <1>3, <1>5
  <2> QED BY <1>6, <1>7, <2>1, <2>2, <2>3
<1>9. \A r \in 1..k : ~ledger'[w][n + r].stored
                      /\ Value(ledger'[w][n + r]) = [op |-> "INS", ind |-> NthIn(res, r)]
  <2>1. \A d : ~Rec("INS", d).stored /\ Value(Rec("INS", d)) = [op |-> "INS", ind |-> d]
    BY DEF Rec, Value
  <2> QED BY <1>8, <2>1
<1>10. Counted' /\ Ledger'
  BY <1>1, <1>2, <1>3, <1>7, <1>8, <1>9, LedgerGrows, <1>0
<1>11. /\ Chain(w)' = n + k /\ DOMAIN ramCounter' \subseteq Keywords
       /\ \A v \in DOMAIN ramCounter' : ramCounter'[v] \in Nat
  BY <1>1, <1>2, <1>3, AdvanceChain, <1>0
<1>12. CallOK'
  BY <1>1, <1>2, <1>4 DEF CallOK, Stages
<1>13. Types'
  BY <1>1, <1>7, <1>11, <1>12 DEF Types, mode
<1>14. call'.kind = "batch" /\ call'.st = "sent" /\ call'.w = w /\ call'.out = out
       /\ call'.pairs = Reinserted(prg, w, n, res)
  BY <1>1
<1>15. InBatch'
  <2>1. out.ok => \A i \in 1..n : ~ledger'[w][i].stored
    BY <1>0, <1>1, <1>4, <1>8 DEF InFlight, InSearch, Unstored
  <2>2. /\ Chain(call.w)' = n + Cardinality(call'.out.ids)
        /\ call'.out.w = call'.w
        /\ call'.pairs = Reinserted(prg', call'.w, n, call'.out.ids)
    BY <1>1, <1>4, <1>11, <1>14 DEF k
  <2>3. \A r \in 1..Cardinality(call'.out.ids) :
          /\ Value(ledger'[call'.w][n + r]) = [op |-> "INS", ind |-> NthIn(call'.out.ids, r)]
          /\ ~ledger'[call'.w][n + r].stored
    BY <1>4, <1>9, <1>14 DEF k
  <2>4. call'.out.ok => Unstored(call.w, n)'
    BY <1>14, <2>1 DEF Unstored
  <2>5. BatchFrom(n)'
    BY <1>14, <2>2, <2>3, <2>4 DEF BatchFrom
  <2>6. n \in 0..Chain(call.w)'
    BY <1>3, <1>5, <1>11, <1>14
  <2> QED BY <2>5, <2>6 DEF InBatch
<1>16. InFlight'
  BY <1>14, <1>15 DEF InFlight, InSetup, InUpdate, InSearch
<1>17. Answers'
  <2>1. ASSUME fresh, out.ok PROVE out.ids = LiveDocs(out.seen)
    <3>1. call.st = "done"
      BY <1>4, <2>1
    <3>2. Matches(call.reply, call.seen)
      BY <1>1, <2>1, <3>1 DEF InFlight, InSearch
    <3>3. res = FinalRes(call.reply)
      BY <1>0, <3>1
    <3> QED BY <1>2, <1>4, <3>2, <3>3, ReplyExact
  <2> QED BY <1>1, <1>14, <2>1 DEF Answers, ExactOut, LiveDocs, StoredTimes
<1> QED BY <1>10, <1>13, <1>16, <1>17

\* searchProcess without cleaning: the answer is given.
LEMMA AnsweringIInv ==
    ASSUME IInv, searchProcess, ~DeleteItems, UNCHANGED mode
    PROVE  IInv'
<1> USE DEF IInv
<1>0. PICK w, res, out :
         /\ w = call.w
         /\ res = FinalRes(IF call.st = "done" THEN call.reply ELSE Empty)
         /\ out = [w |-> w, ids |-> res, ok |-> call.st = "done", seen |-> call.seen]
  OBVIOUS
<1>1. /\ call.kind = "search" /\ call.st # "sent"
      /\ call' = Idle /\ answer' = out
      /\ UNCHANGED <<ramCounter, prg, server, edb, ledger, fresh>>
  BY <1>0 DEF searchProcess, serverVars
<1>2. w \in Keywords /\ call.seen \in Seq(Recs) /\ res \in SUBSET Docs
  BY <1>0, <1>1, ResultsType DEF Types, CallOK
<1>3. out \in Outs /\ out.ids = res /\ (out.ok <=> call.st = "done") /\ out.seen = call.seen
  BY <1>0, <1>2 DEF Outs
<1>4. call'.kind = "idle"
  BY <1>1 DEF Idle
<1>5. CallOK'
  BY <1>1, <1>4 DEF CallOK
<1>6. Types'
  BY <1>1, <1>3, <1>5 DEF Types, mode
<1>7. Counted' /\ Ledger'
  BY <1>1, LedgerKept
<1>8. InFlight'
  BY <1>4 DEF InFlight, InSetup, InUpdate, InSearch, InBatch
<1>9. ASSUME fresh, out.ok PROVE out.ids = LiveDocs(out.seen)
  <2>1. call.st = "done" /\ Matches(call.reply, call.seen)
    BY <1>1, <1>3, <1>9 DEF InFlight, InSearch
  <2>2. res = FinalRes(call.reply)
    BY <1>0, <2>1
  <2> QED BY <1>2, <1>3, <2>1, <2>2, ReplyExact
<1>10. Answers'
  BY <1>1, <1>4, <1>9 DEF Answers, ExactOut, LiveDocs, StoredTimes
<1> QED BY <1>6, <1>7, <1>8, <1>10

\* The other calls return.
LEMMA ReturnIInv ==
    ASSUME IInv, return, UNCHANGED mode
    PROVE  IInv'
<1> USE DEF IInv
<1>1. /\ call' = Idle /\ answer' = IF call.kind = "batch" THEN call.out ELSE answer
      /\ UNCHANGED <<ramCounter, prg, server, edb, ledger, fresh>>
  BY DEF return, clientVars, serverVars, ghosts
<1>2. call'.kind = "idle"
  BY <1>1 DEF Idle
<1>3. CallOK'
  BY <1>1, <1>2 DEF CallOK
<1>4. answer' \in Outs \cup {NoAnswer}
  BY <1>1 DEF Types, CallOK
<1>5. Types'
  BY <1>1, <1>3, <1>4 DEF Types, mode
<1>6. Counted' /\ Ledger'
  BY <1>1, LedgerKept
<1>7. InFlight'
  BY <1>2 DEF InFlight, InSetup, InUpdate, InSearch, InBatch
<1>8. Answers'
  BY <1>1, <1>2 DEF Answers, ExactOut, LiveDocs, StoredTimes
<1> QED BY <1>5, <1>6, <1>7, <1>8

\* The setup call: the ledger is empty, and the table holds none of its tokens.
LEMMA SetupIInv ==
    ASSUME IInv, handleSetup, UNCHANGED mode
    PROVE  IInv'
<1> USE DEF IInv
<1>1. /\ call.kind = "setup" /\ call' = [call EXCEPT !.st = "done"]
      /\ server' = IF UseHDD /\ server = "ready" THEN "nodb" ELSE "ready"
      /\ edb' = IF UseHDD THEN edb ELSE Empty
      /\ fresh' = Clean(edb')
      /\ UNCHANGED <<ramCounter, prg, ledger, answer>>
  BY DEF handleSetup, clientVars
<1>2. CallOK' /\ call'.kind = "setup"
  BY <1>1, StageStep DEF Types, Stages
<1>3. ledger = NoLog /\ answer = NoAnswer
  BY <1>1 DEF InFlight, InSetup
<1>4. DOMAIN edb' \subseteq Tokens /\ \A t \in DOMAIN edb' : edb'[t] \in Values
  <2>1. DOMAIN Empty = {}
    BY DEF Empty
  <2> QED BY <1>1, <2>1 DEF Types
<1>5. fresh' \in BOOLEAN
  BY <1>1 DEF Clean
<1>6. Types'
  BY <1>1, <1>2, <1>4, <1>5 DEF Types, mode
<1>7. \A w \in Keywords : Chain(w) = 0 /\ Chain(w)' = 0
  BY <1>1, <1>3 DEF Counted, NoLog, Chain
<1>8. Counted'
  BY <1>1, <1>3, <1>7 DEF Counted, NoLog
<1>9. Ledger'
  <2>1. fresh' => Within'
    BY <1>1 DEF Clean, Within
  <2>2. \A w \in Keywords : 1..Chain(w)' = {}
    BY <1>7
  <2> QED BY <2>1, <2>2 DEF Ledger
<1>10. InFlight'
  BY <1>1, <1>2, <1>3 DEF InFlight, InSetup, InUpdate, InSearch, InBatch, NoLog, NoAnswer
<1>11. Answers'
  BY <1>1, <1>2, <1>3 DEF Answers, ExactOut, NoAnswer
<1> QED BY <1>6, <1>8, <1>9, <1>10, <1>11

\* A call fails, and what the server held may be gone: nothing that the client
\* relies on after a failure is lost.
LEMMA FailedCall ==
    ASSUME IInv, UNCHANGED <<mode, ramCounter, prg, fresh, answer>>,
           call' = IF call = Idle THEN call ELSE [call EXCEPT !.st = "failed"],
           ledger = NoLog => ledger' = NoLog,
           \A w \in Keywords : \A i \in 1..Chain(w) : Value(ledger'[w][i]) = Value(ledger[w][i])
    PROVE  CallOK' /\ InFlight' /\ Answers'
<1> USE DEF IInv
<1>1. CASE call.kind = "idle"
  <2>1. call' = call
    BY <1>1 DEF Types, CallOK
  <2> QED BY <1>1, <2>1 DEF Types, CallOK, InFlight, InSetup, InUpdate, InSearch, InBatch,
             Answers, ExactOut, LiveDocs, StoredTimes
<1>2. CASE call.kind # "idle"
  <2>1. call' = [call EXCEPT !.st = "failed"]
    BY <1>2 DEF Idle
  <2>2. /\ CallOK' /\ call'.kind = call.kind /\ call'.st = "failed"
        /\ call.kind = "search" => call'.w = call.w /\ call'.prg = call.prg /\ call'.addCount = call.addCount
        /\ call.kind = "batch" => call'.w = call.w /\ call'.out = call.out /\ call'.pairs = call.pairs
    BY <1>2, <2>1, StageStep DEF Types, Stages
  <2>3. InSetup' /\ InUpdate' /\ InSearch'
    BY <2>2 DEF InFlight, InSetup, InUpdate, InSearch, NoAnswer, Chain
  <2>4. ASSUME call.kind = "batch" PROVE InBatch'
    <3>1. PICK n \in 0..Chain(call.w) : BatchFrom(n)
      BY <2>4 DEF InFlight, InBatch
    <3> DEFINE k == Cardinality(call.out.ids)
    <3>2. call.w \in Keywords /\ Chain(call.w) \in Nat /\ k \in Nat
      <4>1. call.w \in Keywords /\ call.out.ids \in SUBSET Docs
        BY <2>4 DEF Types, CallOK, Outs
      <4>2. IsFiniteSet(call.out.ids)
        BY <4>1, RunnerAssumption, FS_Subset
      <4> QED BY <4>1, <4>2, ChainType, FS_CardinalityType
    <3>3. Chain(call.w) = n + k
      BY <3>1 DEF BatchFrom
    <3> HIDE DEF k
    <3>4. \A r \in 1..k : n + r \in 1..Chain(call.w)
      BY <3>1, <3>2, <3>3
    <3>5. \A r \in 1..k : Value(ledger'[call.w][n + r]) = Value(ledger[call.w][n + r])
      BY <3>2, <3>4
    <3>6. \A r \in 1..k : Value(ledger[call.w][n + r]) = [op |-> "INS", ind |-> NthIn(call.out.ids, r)]
      BY <3>1 DEF BatchFrom, k
    <3>7. call'.w = call.w /\ call'.out = call.out /\ Chain(call.w)' = Chain(call.w)
      BY <2>2, <2>4 DEF Chain
    <3>8. \A r \in 1..Cardinality(call'.out.ids) :
             Value(ledger'[call'.w][n + r]) = [op |-> "INS", ind |-> NthIn(call'.out.ids, r)]
      BY <3>5, <3>6, <3>7 DEF k
    <3>9. Chain(call.w)' = n + Cardinality(call'.out.ids) /\ call'.out.w = call'.w
      BY <3>1, <3>3, <3>7 DEF BatchFrom, k
    <3>10. BatchFrom(n)'
      BY <2>2, <3>8, <3>9 DEF BatchFrom
    <3> QED BY <3>1, <3>7, <3>10 DEF InBatch
  <2>5. InFlight'
    BY <2>2, <2>3, <2>4 DEF InFlight, InBatch
  <2>6. Answers'
    BY <2>2 DEF Answers, ExactOut, LiveDocs, StoredTimes
  <2> QED BY <2>2, <2>5, <2>6
<1> QED BY <1>1, <1>2

\* A handler that crashes the server process, and a call that gets lost.
LEMMA LostIInv ==
    ASSUME IInv, crash \/ loseCall, UNCHANGED mode
    PROVE  IInv'
<1> USE DEF IInv
<1>1. /\ call # Idle /\ call' = [call EXCEPT !.st = "failed"]
      /\ UNCHANGED <<ramCounter, prg, edb, ledger, fresh, answer>>
      /\ server' = server \/ server' = "none"
  BY DEF crash, loseCall, clientVars, serverVars, ghosts, Idle
<1>2. CallOK' /\ InFlight' /\ Answers'
  BY <1>1, FailedCall
<1>3. Types'
  BY <1>1, <1>2 DEF Types, mode
<1>4. Counted' /\ Ledger'
  BY <1>1, LedgerKept
<1> QED BY <1>2, <1>3, <1>4

\* A log that is forgotten keeps its records, none of them stored.
LEMMA ForgetFacts ==
    ASSUME NEW log \in Seq(Recs)
    PROVE  /\ Forget(log) \in Seq(Recs) /\ Len(Forget(log)) = Len(log)
           /\ \A i \in 1..Len(log) : /\ ~Forget(log)[i].stored
                                     /\ Value(Forget(log)[i]) = Value(log[i])
<1> DEFINE n == Len(log)
           g == Forget(log)
<1>1. n \in Nat /\ DOMAIN log = 1..n /\ \A i \in 1..n : log[i] \in Recs
  OBVIOUS
<1>2. g = [i \in 1..n |-> [log[i] EXCEPT !.stored = FALSE]]
  BY <1>1 DEF Forget
<1> HIDE DEF n, g
<1>3. \A rec \in Recs : LET new == [rec EXCEPT !.stored = FALSE]
                        IN  new \in Recs /\ ~new.stored /\ Value(new) = Value(rec)
  BY DEF Recs, Value
<1>4. \A i \in 1..n : g[i] \in Recs /\ ~g[i].stored /\ Value(g[i]) = Value(log[i])
  BY <1>1, <1>2, <1>3
<1>5. g \in [1..n -> Recs]
  BY <1>2, <1>4
<1>6. g \in Seq(Recs)
  BY <1>1, <1>5, SeqDef
<1>7. Len(g) = n
  BY <1>1, <1>5, <1>6, LenProperties
<1> QED BY <1>4, <1>6, <1>7 DEF n, g

\* The server process restarts.
LEMMA RestartServerIInv ==
    ASSUME IInv, restartServer, UNCHANGED mode
    PROVE  IInv'
<1> USE DEF IInv
<1>1. /\ server' = "none"
      /\ edb' = IF UseHDD THEN edb ELSE Empty
      /\ ledger' = IF UseHDD THEN ledger ELSE [w \in Keywords |-> Forget(ledger[w])]
      /\ call' = IF call = Idle THEN call ELSE [call EXCEPT !.st = "failed"]
      /\ UNCHANGED <<ramCounter, prg, fresh, answer>>
  BY DEF restartServer, clientVars
<1>2. \A w \in Keywords : Chain(w)' = Chain(w)
  BY <1>1 DEF Chain
<1>3. CASE UseHDD
  <2>1. UNCHANGED <<ramCounter, prg, edb, ledger, fresh, answer>>
    BY <1>1, <1>3
  <2>2. CallOK' /\ InFlight' /\ Answers'
    BY <1>1, <2>1, FailedCall
  <2>3. Types'
    BY <1>1, <2>1, <2>2 DEF Types, mode
  <2>4. Counted' /\ Ledger'
    BY <2>1, LedgerKept
  <2> QED BY <2>2, <2>3, <2>4
<1>4. CASE ~UseHDD
  <2>1. DOMAIN edb' = {} /\ ledger' = [w \in Keywords |-> Forget(ledger[w])]
    BY <1>1, <1>4 DEF Empty
  <2>2. \A w \in Keywords :
           /\ ledger'[w] \in Seq(Recs) /\ Len(ledger'[w]) = Chain(w)
           /\ \A i \in 1..Chain(w) : /\ ~ledger'[w][i].stored
                                     /\ Value(ledger'[w][i]) = Value(ledger[w][i])
    BY <2>1, LedgerFacts, ForgetFacts
  <2>3. ledger = NoLog => ledger' = NoLog
    <3>1. Forget(<<>>) = <<>>
      BY DEF Forget
    <3> QED BY <2>1, <3>1 DEF NoLog
  <2>4. CallOK' /\ InFlight' /\ Answers'
    BY <1>1, <2>2, <2>3, FailedCall
  <2>5. Types'
    BY <1>1, <2>1, <2>2, <2>4 DEF Types, mode
  <2>6. Counted'
    BY <1>2, <2>2 DEF Counted
  <2>7. Ledger'
    <3>1. Within'
      BY <2>1 DEF Within
    <3>2. \A w \in Keywords : \A i \in 1..Chain(w)' : HeldAs(w, i)'
      BY <1>2, <2>1, <2>2 DEF HeldAs
    <3> QED BY <3>1, <3>2 DEF Ledger
  <2> QED BY <2>4, <2>5, <2>6, <2>7
<1> QED BY <1>3, <1>4

\* The ledger of a client that has done nothing.
LEMMA NoLogType == NoLog \in [Keywords -> Seq(Recs)] /\ \A w \in Keywords : Len(NoLog[w]) = 0
<1>1. <<>> \in Seq(Recs) /\ Len(<<>>) = 0
  OBVIOUS
<1> QED BY <1>1 DEF NoLog

\* The inductive invariant holds at the start.
LEMMA InitIInv == Init => IInv
<1> SUFFICES ASSUME Init PROVE IInv
  OBVIOUS
<1>1. /\ ramCounter = Empty /\ prg \in PrgKeys /\ call = SetupCall /\ ledger = NoLog
      /\ fresh = FALSE /\ answer = NoAnswer /\ server = "none" /\ edb = Empty
  BY DEF Init
<1>2. UseHDD \in BOOLEAN /\ DeleteItems \in BOOLEAN
  <2>1. PICK m \in Modes : UseHDD = m[1] /\ DeleteItems = m[2]
    BY DEF Init
  <2>2. m \in BOOLEAN \X BOOLEAN
    BY RunnerAssumption
  <2> QED BY <2>1, <2>2
<1>3. /\ DOMAIN ramCounter = {} /\ DOMAIN edb = {}
      /\ call.kind = "setup" /\ call.st = "sent"
  BY <1>1 DEF Empty, SetupCall
<1>4. CallOK
  BY <1>1 DEF CallOK, SetupCall, Stages
<1>5. Types
  BY <1>1, <1>2, <1>3, <1>4, NoLogType DEF Types
<1>6. Counted
  BY <1>1, <1>3, NoLogType DEF Counted, Chain, AddCount
<1>7. Ledger /\ Answers
  BY <1>1 DEF Ledger, Answers
<1>8. InFlight
  BY <1>1, <1>3 DEF InFlight, InSetup, InUpdate, InSearch, InBatch
<1> QED BY <1>5, <1>6, <1>7, <1>8 DEF IInv

\* The client process restarts.
LEMMA RestartClientIInv ==
    ASSUME IInv, restartClient, UNCHANGED mode
    PROVE  IInv'
<1>1. /\ ramCounter' = Empty /\ prg' = "reloaded" /\ call' = SetupCall /\ ledger' = NoLog
      /\ fresh' = FALSE /\ answer' = NoAnswer /\ UNCHANGED <<server, edb, UseHDD, DeleteItems>>
  BY DEF restartClient, serverVars, mode
<1>2. /\ DOMAIN ramCounter' = {} /\ call'.kind = "setup" /\ call'.st = "sent"
      /\ prg' \in PrgKeys
  BY <1>1 DEF Empty, SetupCall, PrgKeys
<1>3. CallOK'
  BY <1>1 DEF CallOK, SetupCall, Stages
<1>4. Types'
  BY <1>1, <1>2, <1>3, NoLogType DEF IInv, Types
<1>5. Counted'
  BY <1>1, <1>2, NoLogType DEF Counted, Chain, AddCount
<1>6. Ledger' /\ Answers'
  BY <1>1 DEF Ledger, Answers
<1>7. InFlight'
  BY <1>1, <1>2 DEF InFlight, InSetup, InUpdate, InSearch, InBatch, NoLog, NoAnswer
<1> QED BY <1>4, <1>5, <1>6, <1>7 DEF IInv

-----------------------------------------------------------------------------
\* The last records of a log are marked as stored.
LEMMA MarkFacts ==
    ASSUME NEW log \in Seq(Recs), NEW m \in Nat
    PROVE  /\ MarkStored(log, m) \in Seq(Recs) /\ Len(MarkStored(log, m)) = Len(log)
           /\ \A i \in 1..Len(log) : /\ Value(MarkStored(log, m)[i]) = Value(log[i])
                                     /\ i > m => MarkStored(log, m)[i].stored
                                     /\ i <= m => MarkStored(log, m)[i] = log[i]
<1> DEFINE n == Len(log)
           g == MarkStored(log, m)
<1>1. n \in Nat /\ DOMAIN log = 1..n /\ \A i \in 1..n : log[i] \in Recs
  OBVIOUS
<1>2. g = [i \in 1..n |-> IF i > m THEN [log[i] EXCEPT !.stored = TRUE] ELSE log[i]]
  BY <1>1 DEF MarkStored
<1> HIDE DEF n, g
<1>3. \A rec \in Recs : LET new == [rec EXCEPT !.stored = TRUE]
                        IN  new \in Recs /\ new.stored /\ Value(new) = Value(rec)
  BY DEF Recs, Value
<1>4. \A i \in 1..n : /\ g[i] \in Recs /\ Value(g[i]) = Value(log[i])
                      /\ i > m => g[i].stored
                      /\ i <= m => g[i] = log[i]
  BY <1>1, <1>2, <1>3
<1>5. g \in [1..n -> Recs]
  BY <1>2, <1>4
<1>6. g \in Seq(Recs)
  BY <1>1, <1>5, SeqDef
<1>7. Len(g) = n
  BY <1>1, <1>5, <1>6, LenProperties
<1> QED BY <1>4, <1>6, <1>7 DEF n, g

\* The values of the counters from m on reach the server: the records of w are
\* marked as stored from there, and the table has grown by their tokens.
LEMMA LedgerStored ==
    ASSUME Types, Counted, Ledger, NEW w \in Keywords, NEW m \in 0..Chain(w),
           UNCHANGED <<ramCounter, prg, fresh>>,
           ledger' = [ledger EXCEPT ![w] = MarkStored(@, m)],
           \A x : x \in DOMAIN edb' <=>
                     x \in DOMAIN edb \/ \E i \in (m + 1)..Chain(w) : x = Token(prg, w, i - 1),
           \A x \in DOMAIN edb :
               (\A i \in (m + 1)..Chain(w) : x # Token(prg, w, i - 1)) => edb'[x] = edb[x],
           fresh => \A i \in (m + 1)..Chain(w) : edb'[Token(prg, w, i - 1)] = Value(ledger[w][i])
    PROVE  Counted' /\ Ledger' /\ ledger' \in [Keywords -> Seq(Recs)]
<1>1. \A v \in Keywords : /\ Chain(v) \in Nat /\ ledger[v] \in Seq(Recs)
                          /\ Len(ledger[v]) = Chain(v) /\ Chain(v)' = Chain(v)
  BY LedgerFacts DEF Chain
<1>2. /\ ledger'[w] = MarkStored(ledger[w], m)
      /\ \A v \in Keywords \ {w} : ledger'[v] = ledger[v]
      /\ ledger \in [Keywords -> Seq(Recs)]
  BY DEF Types
<1>3. /\ ledger'[w] \in Seq(Recs) /\ Len(ledger'[w]) = Chain(w)
      /\ \A i \in 1..Chain(w) : /\ Value(ledger'[w][i]) = Value(ledger[w][i])
                                /\ i > m => ledger'[w][i].stored
                                /\ i <= m => ledger'[w][i] = ledger[w][i]
  BY <1>1, <1>2, MarkFacts
<1>4. ledger' \in [Keywords -> Seq(Recs)]
  BY <1>2, <1>3
<1>5. Counted'
  BY <1>1, <1>2, <1>3 DEF Counted
<1>6. ASSUME fresh PROVE Within'
  <2> SUFFICES ASSUME NEW t \in DOMAIN edb', t.prg = prg PROVE t.cnt < Chain(t.word)
    BY <1>1 DEF Within, Chain
  <2>1. CASE t \in DOMAIN edb
    BY <1>6, <2>1 DEF Ledger, Within
  <2>2. CASE \E i \in (m + 1)..Chain(w) : t = Token(prg, w, i - 1)
    <3>1. PICK i \in (m + 1)..Chain(w) : t = Token(prg, w, i - 1)
      BY <2>2
    <3>2. t.word = w /\ t.cnt = i - 1
      BY <3>1 DEF Token
    <3> QED BY <1>1, <3>1, <3>2
  <2> QED BY <2>1, <2>2
<1>7. ASSUME fresh, NEW v \in Keywords, NEW i \in 1..Chain(v) PROVE HeldAs(v, i)'
  <2>1. HeldAs(v, i)
    BY <1>7 DEF Ledger
  <2>2. CASE v = w /\ i > m
    <3>1. i \in (m + 1)..Chain(w)
      BY <1>1, <2>2
    <3>2. Token(prg, w, i - 1) \in DOMAIN edb' /\ edb'[Token(prg, w, i - 1)] = Value(ledger[w][i])
      BY <1>7, <3>1
    <3>3. ledger'[w][i].stored /\ Value(ledger'[w][i]) = Value(ledger[w][i])
      BY <1>3, <1>7, <2>2
    <3> QED BY <2>2, <3>2, <3>3 DEF HeldAs
  <2>3. CASE ~(v = w /\ i > m)
    <3>1. ledger'[v][i] = ledger[v][i]
      BY <1>1, <1>2, <1>3, <1>7, <2>3
    <3>2. \A j \in (m + 1)..Chain(w) : Token(prg, v, i - 1) # Token(prg, w, j - 1)
      <4>1. ASSUME NEW j \in (m + 1)..Chain(w), Token(prg, v, i - 1) = Token(prg, w, j - 1)
            PROVE  FALSE
        <5>1. v = w /\ i - 1 = j - 1
          BY <4>1, TokensDiffer
        <5> QED BY <1>1, <1>7, <2>3, <5>1
      <4> QED BY <4>1
    <3>3. /\ Token(prg, v, i - 1) \in DOMAIN edb' <=> Token(prg, v, i - 1) \in DOMAIN edb
          /\ Token(prg, v, i - 1) \in DOMAIN edb =>
                edb'[Token(prg, v, i - 1)] = edb[Token(prg, v, i - 1)]
      BY <3>2
    <3> QED BY <2>1, <3>1, <3>3 DEF HeldAs, Value
  <2> QED BY <2>2, <2>3
<1>8. Ledger'
  BY <1>1, <1>6, <1>7 DEF Ledger
<1> QED BY <1>4, <1>5, <1>8

\* SophosServer::update.
LEMMA StoreFacts ==
    ASSUME NEW t, NEW val
    PROVE  LET new == Store(edb, t, val)
           IN  /\ \A x : x \in DOMAIN new <=> x \in DOMAIN edb \/ x = t
               /\ \A x \in DOMAIN edb : x # t => new[x] = edb[x]
               /\ t \notin DOMAIN edb => new[t] = val
               /\ t \in DOMAIN edb => new[t] \in {val, edb[t]}
BY DEF Store

\* The server handles an update.
LEMMA HandleUpdateIInv ==
    ASSUME IInv, handleUpdate, UNCHANGED mode
    PROVE  IInv'
<1> USE DEF IInv
<1>0. PICK w, t, val, n : w = call.w /\ t = call.token /\ val = call.val /\ n = Chain(w)
  OBVIOUS
<1>1. /\ call.kind = "update" /\ call.st = "sent"
      /\ edb' = Store(edb, t, val)
      /\ ledger' = [ledger EXCEPT ![w] = MarkStored(@, Len(@) - 1)]
      /\ call' = [call EXCEPT !.st = "done"]
      /\ UNCHANGED <<ramCounter, prg, server, fresh, answer>>
  BY <1>0 DEF handleUpdate, clientVars
<1>2. w \in Keywords /\ t \in Tokens /\ val \in Values
  BY <1>0, <1>1 DEF Types, CallOK
<1>3. /\ n \in Nat /\ ledger[w] \in Seq(Recs) /\ Len(ledger[w]) = n
      /\ \A i \in 1..n : ledger[w][i] \in Recs
  BY <1>0, <1>2, LedgerFacts
<1>4. n > 0 /\ t = Token(prg, w, n - 1) /\ ledger[w][n] = Rec(val.op, val.ind)
  BY <1>0, <1>1 DEF InFlight, InUpdate
<1>5. ledger' = [ledger EXCEPT ![w] = MarkStored(@, n - 1)]
  BY <1>1, <1>2, <1>3 DEF Types
<1>6. ~ledger[w][n].stored /\ Value(ledger[w][n]) = val
  <2>1. val = [op |-> val.op, ind |-> val.ind]
    BY <1>2 DEF Values
  <2> QED BY <1>4, <2>1 DEF Rec, Value
<1>7. /\ \A x : x \in DOMAIN edb' <=> x \in DOMAIN edb \/ x = t
      /\ \A x \in DOMAIN edb : x # t => edb'[x] = edb[x]
      /\ t \notin DOMAIN edb => edb'[t] = val
      /\ t \in DOMAIN edb => edb'[t] \in {val, edb[t]}
  BY <1>1, StoreFacts
<1>8. \A i \in n..n : Token(prg, w, i - 1) = t
  BY <1>3, <1>4
<1>9. (n - 1) + 1 = n /\ n - 1 \in 0..n /\ n \in n..n /\ n \in 1..n
  BY <1>3, <1>4
<1>10. fresh => t \notin DOMAIN edb
  BY <1>0, <1>2, <1>4, <1>6, <1>9 DEF Ledger, HeldAs
<1>11. Counted' /\ Ledger' /\ ledger' \in [Keywords -> Seq(Recs)]
  <2>0. PICK m : m = n - 1 /\ m \in 0..Chain(w) /\ (m + 1)..Chain(w) = n..n
    BY <1>0, <1>9
  <2>1. \A x : x \in DOMAIN edb' <=>
            x \in DOMAIN edb \/ \E i \in (m + 1)..Chain(w) : x = Token(prg, w, i - 1)
    BY <1>7, <1>8, <1>9, <2>0
  <2>2. \A x \in DOMAIN edb :
            (\A i \in (m + 1)..Chain(w) : x # Token(prg, w, i - 1)) => edb'[x] = edb[x]
    BY <1>7, <1>8, <1>9, <2>0
  <2>3. fresh => \A i \in (m + 1)..Chain(w) : edb'[Token(prg, w, i - 1)] = Value(ledger[w][i])
    <3>1. \A i \in n..n : i = n
      BY <1>3
    <3> QED BY <1>6, <1>7, <1>8, <1>10, <2>0, <3>1
  <2>4. ledger' = [ledger EXCEPT ![w] = MarkStored(@, m)] /\ UNCHANGED <<ramCounter, prg, fresh>>
    BY <1>1, <1>5, <2>0
  <2> HIDE DEF IInv
  <2>5. Types /\ Counted /\ Ledger
    BY DEF IInv
  <2> QED BY <1>2, <2>0, <2>1, <2>2, <2>3, <2>4, <2>5, LedgerStored
<1>12. CallOK' /\ call'.kind = "update" /\ call'.st = "done"
  BY <1>1, StageStep DEF Types, Stages
<1>13. DOMAIN edb' \subseteq Tokens /\ \A x \in DOMAIN edb' : edb'[x] \in Values
  BY <1>2, <1>7 DEF Types
<1>14. Types'
  BY <1>1, <1>11, <1>12, <1>13 DEF Types, mode
<1>15. InFlight'
  BY <1>12 DEF InFlight, InSetup, InUpdate, InSearch, InBatch
<1>16. Answers'
  BY <1>1, <1>12 DEF Answers, ExactOut, LiveDocs, StoredTimes
<1> QED BY <1>11, <1>14, <1>15, <1>16

\* The batch of a cleaning search: one pair per result.
LEMMA PairFacts ==
    ASSUME NEW p, NEW w, NEW n \in Nat, NEW res, IsFiniteSet(res), res \subseteq Int
    PROVE  LET pairs == Reinserted(p, w, n, res)
               k     == Cardinality(res)
           IN  /\ \A x : x \in DOMAIN pairs <=>
                            \E i \in (n + 1)..(n + k) : x = Token(p, w, i - 1)
               /\ \A i \in (n + 1)..(n + k) :
                     pairs[Token(p, w, i - 1)] = [op |-> "INS", ind |-> NthIn(res, i - n)]
               /\ k \in Nat /\ Cardinality(DOMAIN pairs) = k
<1> DEFINE pairs == Reinserted(p, w, n, res)
           k     == Cardinality(res)
           T(r)  == Token(p, w, n + r - 1)
           D     == {T(r) : r \in 1..k}
           f     == [r \in 1..k |-> T(r)]
<1>1. k \in Nat
  BY FS_CardinalityType
<1>2. pairs = [t \in D |-> [op |-> "INS", ind |-> NthIn(res, t.cnt - n + 1)]]
  BY DEF Reinserted
<1> HIDE DEF pairs, k
<1>3. DOMAIN pairs = D
  BY <1>2
<1>4. \A r \in 1..k : T(r).cnt = n + r - 1 /\ n + r - 1 - n + 1 = r
  BY <1>1 DEF Token
<1>5. \A r \in 1..k : pairs[T(r)] = [op |-> "INS", ind |-> NthIn(res, r)]
  <2> SUFFICES ASSUME NEW r \in 1..k PROVE pairs[T(r)] = [op |-> "INS", ind |-> NthIn(res, r)]
    OBVIOUS
  <2>1. T(r) \in D
    OBVIOUS
  <2>2. pairs[T(r)] = [op |-> "INS", ind |-> NthIn(res, T(r).cnt - n + 1)]
    <3> HIDE DEF T, D
    <3> QED BY <1>2, <2>1
  <2>3. T(r).cnt - n + 1 = r
    BY <1>4
  <2> HIDE DEF T
  <2> QED BY <2>2, <2>3
<1>6. ASSUME NEW i \in (n + 1)..(n + k) PROVE i - n \in 1..k /\ n + (i - n) - 1 = i - 1
  BY <1>1
<1>7. ASSUME NEW r \in 1..k PROVE n + r \in (n + 1)..(n + k) /\ (n + r) - 1 = n + r - 1
  BY <1>1
<1>8. \A x : x \in DOMAIN pairs <=> \E i \in (n + 1)..(n + k) : x = Token(p, w, i - 1)
  <2>1. ASSUME NEW x, NEW r \in 1..k, x = T(r)
        PROVE  \E i \in (n + 1)..(n + k) : x = Token(p, w, i - 1)
    BY <1>7, <2>1
  <2>2. ASSUME NEW x, NEW i \in (n + 1)..(n + k), x = Token(p, w, i - 1)
        PROVE  \E r \in 1..k : x = T(r)
    BY <1>6, <2>2
  <2> HIDE DEF T
  <2> QED BY <1>3, <2>1, <2>2
<1>9. \A i \in (n + 1)..(n + k) :
         pairs[Token(p, w, i - 1)] = [op |-> "INS", ind |-> NthIn(res, i - n)]
  <2>1. ASSUME NEW i \in (n + 1)..(n + k)
        PROVE  Token(p, w, i - 1) = T(i - n) /\ i - n \in 1..k
    BY <1>6
  <2> HIDE DEF T
  <2> QED BY <1>5, <2>1
<1>10. Cardinality(D) = k
  <2>1. f \in [1..k -> D]
    OBVIOUS
  <2>2. \A q, r \in 1..k : f[q] = f[r] => q = r
    <3>1. ASSUME NEW q \in 1..k, NEW r \in 1..k, T(q) = T(r) PROVE q = r
      <4>1. n + q - 1 = n + r - 1
        BY <3>1, TokensDiffer
      <4> QED BY <1>1, <4>1
    <3> HIDE DEF T
    <3> QED BY <3>1
  <2>3. \A t \in D : \E r \in 1..k : f[r] = t
    OBVIOUS
  <2> HIDE DEF f, D
  <2>4. ExistsBijection(1..k, D)
    BY <2>1, <2>2, <2>3 DEF ExistsBijection, Bijection, Injection, Surjection, IsInjective
  <2>5. IsFiniteSet(1..k) /\ Cardinality(1..k) = k
    BY <1>1, FS_Interval
  <2> QED BY <2>4, <2>5, FS_Bijection
<1> QED BY <1>1, <1>3, <1>8, <1>9, <1>10 DEF pairs, k

\* SophosServer::update for every pair of a batch.
LEMMA StoreAllFacts ==
    ASSUME NEW pairs
    PROVE  LET new == StoreAll(edb, pairs)
           IN  /\ \A x : x \in DOMAIN new <=> x \in DOMAIN edb \/ x \in DOMAIN pairs
               /\ \A x \in DOMAIN edb : x \notin DOMAIN pairs => new[x] = edb[x]
               /\ \A x \in DOMAIN pairs : x \notin DOMAIN edb => new[x] = pairs[x]
               /\ \A x \in DOMAIN pairs : x \in DOMAIN edb => new[x] \in {pairs[x], edb[x]}
BY DEF StoreAll

\* The server handles the batch of a cleaning search.
LEMMA HandleBatchIInv ==
    ASSUME IInv, handleBatchUpdate, UNCHANGED mode
    PROVE  IInv'
<1> USE DEF IInv
<1>0. PICK w, res, pairs : w = call.w /\ res = call.out.ids /\ pairs = call.pairs
  OBVIOUS
<1>1. /\ call.kind = "batch" /\ call.st = "sent"
      /\ edb' = StoreAll(edb, pairs)
      /\ ledger' = [ledger EXCEPT ![w] = MarkStored(@, Len(@) - Cardinality(DOMAIN pairs))]
      /\ call' = [call EXCEPT !.st = "done"]
      /\ UNCHANGED <<ramCounter, prg, server, fresh, answer>>
  BY <1>0 DEF handleBatchUpdate, clientVars
<1>2. w \in Keywords /\ res \in SUBSET Docs /\ prg \in PrgKeys
  BY <1>0, <1>1 DEF Types, CallOK, Outs
<1>3. IsFiniteSet(res) /\ res \subseteq Int
  BY <1>2, RunnerAssumption, FS_Subset
<1>4. PICK n \in 0..Chain(w) : BatchFrom(n)
  BY <1>0, <1>1 DEF InFlight, InBatch
<1> DEFINE k == Cardinality(res)
<1>5. /\ Chain(w) \in Nat /\ ledger[w] \in Seq(Recs) /\ Len(ledger[w]) = Chain(w)
      /\ \A i \in 1..Chain(w) : ledger[w][i] \in Recs
  BY <1>2, LedgerFacts
<1>6. n \in Nat /\ k \in Nat /\ Chain(w) = n + k
  BY <1>0, <1>3, <1>4, <1>5, FS_CardinalityType DEF BatchFrom
<1>7. pairs = Reinserted(prg, w, n, res)
  BY <1>0, <1>1, <1>4 DEF BatchFrom
<1>8. /\ \A x : x \in DOMAIN pairs <=> \E i \in (n + 1)..Chain(w) : x = Token(prg, w, i - 1)
      /\ \A i \in (n + 1)..Chain(w) :
            pairs[Token(prg, w, i - 1)] = [op |-> "INS", ind |-> NthIn(res, i - n)]
      /\ Cardinality(DOMAIN pairs) = k
  <2>1. /\ \A x : x \in DOMAIN Reinserted(prg, w, n, res) <=>
                     \E i \in (n + 1)..(n + k) : x = Token(prg, w, i - 1)
        /\ \A i \in (n + 1)..(n + k) :
              Reinserted(prg, w, n, res)[Token(prg, w, i - 1)]
                = [op |-> "INS", ind |-> NthIn(res, i - n)]
        /\ k \in Nat /\ Cardinality(DOMAIN Reinserted(prg, w, n, res)) = k
    BY <1>3, <1>6, PairFacts
  <2> QED BY <1>6, <1>7, <2>1
<1> HIDE DEF k
<1>9. \A i \in (n + 1)..Chain(w) : i - n \in 1..k /\ i = n + (i - n) /\ i \in 1..Chain(w)
  BY <1>6
<1>10. \A i \in (n + 1)..Chain(w) : /\ Value(ledger[w][i]) = [op |-> "INS", ind |-> NthIn(res, i - n)]
                                    /\ ~ledger[w][i].stored
  <2>1. \A r \in 1..k : /\ Value(ledger[w][n + r]) = [op |-> "INS", ind |-> NthIn(res, r)]
                        /\ ~ledger[w][n + r].stored
    BY <1>0, <1>1, <1>4 DEF BatchFrom, k
  <2> QED BY <1>9, <2>1
<1>11. ledger' = [ledger EXCEPT ![w] = MarkStored(@, n)]
  <2>1. Len(ledger[w]) - Cardinality(DOMAIN pairs) = n
    BY <1>5, <1>6, <1>8
  <2> QED BY <1>1, <1>2, <2>1 DEF Types
<1>12. /\ \A x : x \in DOMAIN edb' <=> x \in DOMAIN edb \/ x \in DOMAIN pairs
       /\ \A x \in DOMAIN edb : x \notin DOMAIN pairs => edb'[x] = edb[x]
       /\ \A x \in DOMAIN pairs : x \notin DOMAIN edb => edb'[x] = pairs[x]
       /\ \A x \in DOMAIN pairs : x \in DOMAIN edb => edb'[x] \in {pairs[x], edb[x]}
  BY <1>1, StoreAllFacts
<1>13. ASSUME fresh, NEW i \in (n + 1)..Chain(w)
       PROVE  edb'[Token(prg, w, i - 1)] = Value(ledger[w][i])
  <2>1. Token(prg, w, i - 1) \notin DOMAIN edb
    BY <1>2, <1>9, <1>10, <1>13 DEF Ledger, HeldAs
  <2> QED BY <1>8, <1>10, <1>12, <2>1
<1>14. Counted' /\ Ledger' /\ ledger' \in [Keywords -> Seq(Recs)]
  <2>1. \A x : x \in DOMAIN edb' <=>
            x \in DOMAIN edb \/ \E i \in (n + 1)..Chain(w) : x = Token(prg, w, i - 1)
    BY <1>8, <1>12
  <2>2. \A x \in DOMAIN edb :
            (\A i \in (n + 1)..Chain(w) : x # Token(prg, w, i - 1)) => edb'[x] = edb[x]
    BY <1>8, <1>12
  <2> HIDE DEF IInv
  <2>3. Types /\ Counted /\ Ledger
    BY DEF IInv
  <2> QED BY <1>1, <1>2, <1>4, <1>11, <1>13, <2>1, <2>2, <2>3, LedgerStored
<1>15. CallOK' /\ call'.kind = "batch" /\ call'.st = "done" /\ call'.w = w /\ call'.out = call.out
  BY <1>0, <1>1, StageStep DEF Types, Stages
<1>16. DOMAIN edb' \subseteq Tokens /\ \A x \in DOMAIN edb' : edb'[x] \in Values
  <2>1. \A x \in DOMAIN pairs : x \in Tokens /\ pairs[x] \in Values
    <3>1. \A i \in (n + 1)..Chain(w) : i - 1 \in Nat /\ NthIn(res, i - n) \in Docs
      <4>1. \A r \in 1..k : NthIn(res, r) \in Docs
        BY <1>2, <1>3, RankBijection DEF k
      <4>2. \A i \in (n + 1)..Chain(w) : i - 1 \in Nat
        BY <1>6
      <4> QED BY <1>9, <4>1, <4>2
    <3>2. \A d \in Docs : [op |-> "INS", ind |-> d] \in Values
      BY DEF Values
    <3>3. \A i \in (n + 1)..Chain(w) : Token(prg, w, i - 1) \in Tokens
      BY <1>2, <3>1, TokenFields
    <3> QED BY <1>8, <3>1, <3>2, <3>3
  <2> QED BY <1>12, <2>1 DEF Types
<1>17. Types'
  BY <1>1, <1>14, <1>15, <1>16 DEF Types, mode
<1>18. /\ \A i \in 1..Chain(w) : /\ Value(ledger'[w][i]) = Value(ledger[w][i])
                                 /\ i > n => ledger'[w][i].stored
                                 /\ i <= n => ledger'[w][i] = ledger[w][i]
       /\ Chain(w)' = Chain(w)
  <2>1. ledger'[w] = MarkStored(ledger[w], n)
    BY <1>2, <1>11 DEF Types
  <2>2. \A i \in 1..Len(ledger[w]) : /\ Value(MarkStored(ledger[w], n)[i]) = Value(ledger[w][i])
                                     /\ i > n => MarkStored(ledger[w], n)[i].stored
                                     /\ i <= n => MarkStored(ledger[w], n)[i] = ledger[w][i]
    BY <1>5, <1>6, MarkFacts
  <2>3. Chain(w)' = Chain(w)
    BY <1>1 DEF Chain
  <2> QED BY <1>5, <2>1, <2>2, <2>3
<1>19. InBatch'
  <2>1. \A r \in 1..k : n + r \in 1..Chain(w) /\ n + r > n
    BY <1>6
  <2>2. \A r \in 1..k : /\ Value(ledger'[w][n + r]) = [op |-> "INS", ind |-> NthIn(res, r)]
                        /\ ledger'[w][n + r].stored
    BY <1>0, <1>4, <1>18, <2>1 DEF BatchFrom, k
  <2>3. call.out.ok => \A i \in 1..n : ~ledger'[w][i].stored
    <3>1. call.out.ok => \A i \in 1..n : ~ledger[w][i].stored
      BY <1>0, <1>1, <1>4 DEF BatchFrom, Unstored
    <3>2. \A i \in 1..n : i \in 1..Chain(w) /\ i <= n
      BY <1>6
    <3> QED BY <1>18, <3>1, <3>2
  <2>4. call'.out.ok => Unstored(call.w, n)'
    BY <1>15, <2>3 DEF Unstored
  <2>5. Chain(call.w)' = n + Cardinality(call'.out.ids) /\ call'.out.w = call'.w
    BY <1>0, <1>4, <1>6, <1>15, <1>18 DEF BatchFrom, k
  <2>6. \A r \in 1..Cardinality(call'.out.ids) :
           /\ Value(ledger'[call'.w][n + r]) = [op |-> "INS", ind |-> NthIn(call'.out.ids, r)]
           /\ ledger'[call'.w][n + r].stored
    BY <1>0, <1>15, <2>2 DEF k
  <2>7. BatchFrom(n)'
    BY <1>15, <2>4, <2>5, <2>6 DEF BatchFrom
  <2>8. n \in 0..Chain(call.w)'
    BY <1>4, <1>15, <1>18
  <2> QED BY <2>7, <2>8 DEF InBatch
<1>20. InFlight'
  BY <1>15, <1>19 DEF InFlight, InSetup, InUpdate, InSearch
<1>21. Answers'
  BY <1>1, <1>15 DEF Answers, ExactOut
<1> QED BY <1>14, <1>17, <1>20, <1>21

\* A cleaning search takes the tokens of the keyword out of the table, and the
\* records of the ledger are forgotten.
LEMMA LedgerErased ==
    ASSUME Types, Counted, Ledger, NEW w \in Keywords,
           UNCHANGED <<ramCounter, prg, fresh>>,
           edb' = Erase(edb, prg, w, Found(edb, prg, w, Chain(w))),
           ledger' = [ledger EXCEPT ![w] = Forget(@)]
    PROVE  /\ Counted' /\ Ledger' /\ ledger' \in [Keywords -> Seq(Recs)]
           /\ \A i \in 1..Chain(w) : ~ledger'[w][i].stored
           /\ DOMAIN edb' \subseteq Tokens /\ \A t \in DOMAIN edb' : edb'[t] \in Values
<1> DEFINE found == {c \in 0..(Chain(w) - 1) : Token(prg, w, c) \in DOMAIN edb}
<1>1. \A v \in Keywords : /\ Chain(v) \in Nat /\ ledger[v] \in Seq(Recs)
                          /\ Len(ledger[v]) = Chain(v) /\ Chain(v)' = Chain(v)
  BY LedgerFacts DEF Chain
<1>2. /\ \A x : x \in DOMAIN edb' <=> x \in DOMAIN edb /\ \A c \in found : x # Token(prg, w, c)
      /\ \A x \in DOMAIN edb' : edb'[x] = edb[x]
  <2>1. edb' = [x \in DOMAIN edb \ {Token(prg, w, c) : c \in found} |-> edb[x]]
    BY DEF Erase, Found
  <2> HIDE DEF found
  <2> QED BY <2>1
<1>3. /\ ledger'[w] = Forget(ledger[w])
      /\ \A v \in Keywords \ {w} : ledger'[v] = ledger[v]
      /\ ledger \in [Keywords -> Seq(Recs)]
  BY DEF Types
<1>4. /\ ledger'[w] \in Seq(Recs) /\ Len(ledger'[w]) = Chain(w)
      /\ \A i \in 1..Chain(w) : ~ledger'[w][i].stored
  BY <1>1, <1>3, ForgetFacts
<1>5. ledger' \in [Keywords -> Seq(Recs)]
  BY <1>3, <1>4
<1>6. Counted'
  BY <1>1, <1>3, <1>4 DEF Counted
<1>7. DOMAIN edb' \subseteq Tokens /\ \A t \in DOMAIN edb' : edb'[t] \in Values
  BY <1>2 DEF Types
<1>8. fresh => Within'
  <2> SUFFICES ASSUME fresh, NEW t \in DOMAIN edb', t.prg = prg PROVE t.cnt < Chain(t.word)
    BY DEF Within, Chain
  <2> QED BY <1>2 DEF Ledger, Within
<1>9. ASSUME fresh, NEW v \in Keywords, NEW i \in 1..Chain(v) PROVE HeldAs(v, i)'
  <2>1. HeldAs(v, i)
    BY <1>9 DEF Ledger
  <2>2. CASE v = w
    <3>1. i - 1 \in 0..(Chain(w) - 1)
      BY <1>1, <1>9, <2>2
    <3>2. Token(prg, w, i - 1) \notin DOMAIN edb'
      BY <1>2, <3>1
    <3>3. ~ledger'[w][i].stored
      BY <1>4, <1>9, <2>2
    <3> QED BY <2>2, <3>2, <3>3 DEF HeldAs
  <2>3. CASE v # w
    <3>1. \A c \in found : Token(prg, v, i - 1) # Token(prg, w, c)
      BY <2>3, TokensDiffer
    <3>2. Token(prg, v, i - 1) \in DOMAIN edb' <=> Token(prg, v, i - 1) \in DOMAIN edb
      BY <1>2, <3>1
    <3>3. ledger'[v][i] = ledger[v][i]
      BY <1>3, <2>3
    <3> QED BY <1>2, <2>1, <3>2, <3>3 DEF HeldAs, Value
  <2> QED BY <2>2, <2>3
<1>10. Ledger'
  BY <1>1, <1>8, <1>9 DEF Ledger
<1> QED BY <1>4, <1>5, <1>6, <1>7, <1>10

\* The server handles a search.
LEMMA HandleSearchIInv ==
    ASSUME IInv, handleSearch, UNCHANGED mode
    PROVE  IInv'
<1> USE DEF IInv
<1>0. PICK w, n, found, reply, seen :
         /\ w = call.w /\ n = Chain(w) /\ seen = ledger[w]
         /\ found = {c \in 0..(n - 1) : Token(prg, w, c) \in DOMAIN edb}
         /\ reply = [c \in found |-> edb[Token(prg, w, c)]]
  OBVIOUS
<1>1. /\ call.kind = "search" /\ call.st = "sent"
      /\ call.prg = prg /\ call.addCount = n /\ w \in Keywords
  BY <1>0 DEF handleSearch, InFlight, InSearch, Types, CallOK
<1>2. Found(edb, call.prg, w, call.addCount) = found
  BY <1>0, <1>1 DEF Found
<1>3. /\ call' = [call EXCEPT !.st = "done", !.reply = reply, !.seen = seen]
      /\ IF DeleteItems
         THEN /\ edb' = Erase(edb, prg, w, Found(edb, prg, w, Chain(w)))
              /\ ledger' = [ledger EXCEPT ![w] = Forget(@)]
         ELSE UNCHANGED <<edb, ledger>>
      /\ UNCHANGED <<ramCounter, prg, server, fresh, answer>>
  BY <1>0, <1>1, <1>2 DEF handleSearch, clientVars
<1>4. /\ n \in Nat /\ seen \in Seq(Recs) /\ Len(seen) = n
  BY <1>0, <1>1, LedgerFacts
<1>5. /\ call'.kind = "search" /\ call'.st = "done" /\ call'.w = w /\ call'.prg = prg
      /\ call'.addCount = n /\ call'.reply = reply /\ call'.seen = seen /\ CallOK'
  BY <1>0, <1>1, <1>3, <1>4 DEF Types, CallOK, Stages
<1>6. /\ Counted' /\ Ledger' /\ ledger' \in [Keywords -> Seq(Recs)]
      /\ DOMAIN edb' \subseteq Tokens /\ \A t \in DOMAIN edb' : edb'[t] \in Values
      /\ IF DeleteItems THEN \A i \in 1..n : ~ledger'[w][i].stored ELSE seen = ledger'[w]
  <2>1. CASE DeleteItems
    BY <1>0, <1>1, <1>3, <2>1, LedgerErased
  <2>2. CASE ~DeleteItems
    <3>1. UNCHANGED <<ramCounter, prg, edb, ledger, fresh>>
      BY <1>3, <2>2
    <3>2. Counted' /\ Ledger'
      BY <3>1, LedgerKept
    <3> QED BY <1>0, <2>2, <3>1, <3>2 DEF Types
  <2> QED BY <2>1, <2>2
<1>7. Types'
  BY <1>3, <1>5, <1>6 DEF Types, mode
<1>8. ASSUME fresh PROVE Matches(reply, seen)
  <2>1. ASSUME NEW c \in 0..(n - 1)
        PROVE  /\ Token(prg, w, c) \in DOMAIN edb <=> seen[c + 1].stored
               /\ Token(prg, w, c) \in DOMAIN edb => edb[Token(prg, w, c)] = Value(seen[c + 1])
    <3>1. c + 1 \in 1..n /\ (c + 1) - 1 = c
      BY <1>4
    <3>2. HeldAs(w, c + 1)
      BY <1>0, <1>1, <1>8, <3>1 DEF Ledger
    <3> QED BY <1>0, <3>1, <3>2 DEF HeldAs
  <2>2. DOMAIN reply = found /\ \A c \in found : reply[c] = edb[Token(prg, w, c)]
    BY <1>0
  <2>3. found = {c \in 0..(n - 1) : seen[c + 1].stored}
    BY <1>0, <2>1
  <2> QED BY <1>0, <1>4, <2>1, <2>2, <2>3 DEF Matches
<1>9. InSearch'
  <2>1. Chain(call.w)' = n
    BY <1>0, <1>3, <1>5 DEF Chain
  <2>2. IF DeleteItems' THEN Unstored(call.w, Chain(call.w))' ELSE call'.seen = ledger'[call'.w]
    BY <1>5, <1>6, <2>1 DEF Unstored, mode
  <2>3. fresh' => Matches(call'.reply, call'.seen)
    BY <1>3, <1>5, <1>8
  <2> QED BY <1>3, <1>5, <2>1, <2>2, <2>3 DEF InSearch
<1>10. InFlight'
  BY <1>5, <1>9 DEF InFlight, InSetup, InUpdate, InBatch
<1>11. Answers'
  BY <1>3, <1>5 DEF Answers, ExactOut
<1> QED BY <1>6, <1>7, <1>10, <1>11

-----------------------------------------------------------------------------
\* Every step keeps the inductive invariant.
LEMMA NextIInv == IInv /\ [Next]_vars => IInv'
<1> SUFFICES ASSUME IInv, [Next]_vars PROVE IInv'
  OBVIOUS
<1>1. ASSUME NEW op \in {"INS", "DEL"}, NEW w \in Keywords, NEW d \in Docs,
             update(op, w, d), UNCHANGED mode
      PROVE  IInv'
  BY <1>1, UpdateIInv
<1>2. ASSUME NEW w \in Keywords, searchRequest(w), UNCHANGED mode PROVE IInv'
  BY <1>2, SearchRequestIInv
<1>3. ASSUME searchProcess, UNCHANGED mode PROVE IInv'
  BY <1>3, CleaningIInv, AnsweringIInv
<1>4. ASSUME return \/ handleSetup \/ handleUpdate \/ handleBatchUpdate \/ handleSearch,
             UNCHANGED mode
      PROVE  IInv'
  BY <1>4, ReturnIInv, SetupIInv, HandleUpdateIInv, HandleBatchIInv, HandleSearchIInv
<1>5. ASSUME crash \/ loseCall \/ restartServer \/ restartClient, UNCHANGED mode PROVE IInv'
  BY <1>5, LostIInv, RestartServerIInv, RestartClientIInv
<1>6. CASE UNCHANGED vars
  BY <1>6 DEF vars, IInv, Types, CallOK, Counted, Ledger, Within, HeldAs, InFlight, InSetup,
     InUpdate, InSearch, InBatch, BatchFrom, Unstored, Answers, ExactOut, Chain, Value
<1> QED BY <1>1, <1>2, <1>3, <1>4, <1>5, <1>6 DEF Next, Step

\* The inductive invariant holds in every reachable state.
LEMMA Invariance == Spec => []IInv
BY InitIInv, NextIInv, PTL DEF Spec

\* For any keywords and documents, any bounds, either table and either mode: the
\* server holds the value of a counter exactly when the update or re-insertion
\* that took the counter has reached it and no search has taken it out again,
\* whichever calls were lost and whichever process restarted.
THEOREM LedgerMatches == Spec => []LedgerMatchesServer
<1>1. IInv => LedgerMatchesServer
  <2> SUFFICES ASSUME IInv PROVE LedgerMatchesServer
    OBVIOUS
  <2> USE DEF IInv
  <2>1. call = Idle \/ call.st \in {"sent", "done", "failed"}
    BY DEF Types, CallOK, Stages
  <2>2. answer.ids \subseteq Docs
    BY DEF Types, Outs, NoAnswer
  <2>3. TypeOK
    BY <2>1, <2>2 DEF Types, TypeOK
  <2>4. ASSUME fresh, NEW w \in Keywords
        PROVE  /\ Len(ledger[w]) = AddCount(ramCounter, w)
               /\ \A i \in DOMAIN ledger[w] : HeldAs(w, i)
    BY <2>4, LedgerFacts DEF Chain, Ledger
  <2> QED BY <2>3, <2>4 DEF LedgerMatchesServer, HeldAs, Value
<1> QED BY <1>1, Invariance, PTL

\* For any keywords, documents and bounds: a search whose call succeeded answers
\* with exactly the documents that the stored updates leave live.
THEOREM Exact == Spec => []AnswerExact
<1>1. IInv => AnswerExact
  BY DEF IInv, Answers, ExactOut, AnswerExact
<1> QED BY <1>1, Invariance, PTL

\* For any keywords, documents and bounds: when the search and, with cleaning, the
\* re-insertion have succeeded, the server holds exactly what the answer says.
THEOREM IndexPreserved == Spec => SearchPreservesIndex
<1> DEFINE Ends == /\ call # Idle /\ call.kind \in {"batch", "search"} /\ call.st = "done"
                   /\ call' = Idle /\ answer'.ok /\ fresh
<1>1. ASSUME IInv, [Next]_vars, Ends PROVE LiveDocs(ledger[answer'.w]) = answer'.ids
  <2> USE DEF IInv
  <2>1. call'.kind = "idle" /\ call' # call
    BY <1>1 DEF Idle
  <2>2. (searchProcess /\ ~DeleteItems) \/ return
    BY <1>1, <2>1 DEF Next, Step, vars, update, searchRequest, searchProcess, return, handleSetup,
       handleUpdate, handleBatchUpdate, handleSearch, crash, loseCall, restartServer,
       restartClient, SetupCall, Idle
  <2>3. CASE searchProcess /\ ~DeleteItems
    <3>1. /\ call.kind = "search" /\ answer'.w = call.w /\ answer'.ids = FinalRes(call.reply)
      BY <1>1, <2>3 DEF searchProcess
    <3>2. call.seen = ledger[call.w] /\ Matches(call.reply, call.seen) /\ call.seen \in Seq(Recs)
      BY <1>1, <2>3, <3>1 DEF InFlight, InSearch, Types, CallOK
    <3> QED BY <3>1, <3>2, ReplyExact
  <2>4. CASE return
    <3>1. call.kind = "batch" /\ answer' = call.out
      BY <1>1, <2>4 DEF return
    <3>2. PICK n \in 0..Chain(call.w) : BatchFrom(n)
      BY <1>1, <3>1 DEF InFlight, InBatch
    <3>3. call.w \in Keywords /\ call.out.ids \in SUBSET Docs
      BY <1>1, <3>1 DEF Types, CallOK, Outs
    <3>4. /\ Chain(call.w) \in Nat /\ ledger[call.w] \in Seq(Recs)
          /\ Len(ledger[call.w]) = Chain(call.w)
      BY <1>1, <3>3, LedgerFacts
    <3>5. /\ Chain(call.w) = n + Cardinality(call.out.ids)
          /\ \A i \in 1..n : ~ledger[call.w][i].stored
          /\ \A r \in 1..Cardinality(call.out.ids) :
                /\ ledger[call.w][n + r].stored
                /\ Value(ledger[call.w][n + r]) = [op |-> "INS", ind |-> NthIn(call.out.ids, r)]
          /\ call.out.w = call.w
      BY <1>1, <3>1, <3>2 DEF BatchFrom, Unstored
    <3>6. LiveDocs(ledger[call.w]) = call.out.ids
      <4>1. PICK log, res : log = ledger[call.w] /\ res = call.out.ids
        OBVIOUS
      <4>2. /\ log \in Seq(Recs) /\ res \in SUBSET Docs /\ n \in Nat
            /\ Len(log) = n + Cardinality(res)
            /\ \A i \in 1..n : ~log[i].stored
            /\ \A r \in 1..Cardinality(res) :
                  /\ log[n + r].stored
                  /\ Value(log[n + r]) = [op |-> "INS", ind |-> NthIn(res, r)]
        BY <3>2, <3>3, <3>4, <3>5, <4>1
      <4> QED BY <4>1, <4>2, ReinsertedLive
    <3> QED BY <3>1, <3>5, <3>6
  <2> QED BY <2>2, <2>3, <2>4
<1>2. IInv /\ [Next]_vars => [Ends => LiveDocs(ledger[answer'.w]) = answer'.ids]_vars
  BY <1>1
<1> QED BY <1>2, Invariance, PTL DEF Spec, SearchPreservesIndex
=============================================================================
