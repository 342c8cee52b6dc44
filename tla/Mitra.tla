------------------------------- MODULE Mitra --------------------------------
(***************************************************************************)
(* Mitra on a single machine (mitra_debug): the client calls the server's  *)
(* methods directly, so each operation is one step.  setupMode is FALSE,   *)
(* the value both constructors give it and no caller changes.              *)
(***************************************************************************)
EXTENDS MitraCommon

CONSTANTS
    MaxCnt,      \* bound: updates per keyword
    MaxSearches  \* bound: cleaning searches of a keyword between two updates

ASSUME BoundsAssumption == MaxCnt \in Nat /\ MaxSearches \in Nat

VARIABLES
    FileCnt,   \* client: updates of a keyword, by key buffer
    SrcCnt,    \* client: searches of a keyword, by key buffer
    DictW,     \* server: address -> ciphertext
    answer     \* what the last search returned: <<>> or <<w, documents>>

vars == <<FileCnt, SrcCnt, DictW, answer>>

Init ==
    /\ FileCnt = [k \in {} |-> 0]
    /\ SrcCnt = [k \in {} |-> 0]
    /\ DictW = [a \in {} |-> 0]
    /\ answer = <<>>

\* srcCnt and fileCnt of w as an operation finds them.
Epoch(w) == IF DeleteFiles THEN At(SrcCnt, KW(w)) ELSE 0
Count(w) == At(FileCnt, KW(w))

update(op, w, ind) ==
    LET fileCnt == Count(w) + 1
    IN  /\ fileCnt <= MaxCnt
        /\ FileCnt' = Put(FileCnt, KW(w), fileCnt)
        /\ SrcCnt' = IF DeleteFiles THEN Put(SrcCnt, KW(w), Epoch(w)) ELSE SrcCnt
        /\ DictW' = Put(DictW, Stamp(KW(w), 0, Epoch(w), fileCnt),
                        Encrypt(ind, op, Stamp(KW(w), 1, Epoch(w), fileCnt)))
        /\ UNCHANGED answer

searchUnknown(w) ==
    /\ KW(w) \notin DOMAIN FileCnt
    /\ answer' = <<w, {}>>
    /\ UNCHANGED <<FileCnt, SrcCnt, DictW>>

\* From the decoding loop to the return.  k is the buffer after the address loop.
\* The counters are written under the buffers k1 and k2 that the decoding and
\* the cleaning loop leave behind, not under KW(w): every getAESRandomValue
\* stamps the buffer that is then used as the map key.
finishSearch(w, enc, k, srcCnt, junk) ==
    LET res == Positive(enc, k, srcCnt) \cup junk
        k1  == AfterDecode(enc, k, srcCnt)
        k2  == AfterCleaning(k1, srcCnt + 1, res)
    IN  /\ At(SrcCnt, k1) < MaxSearches
        /\ answer' = <<w, res>>
        /\ IF DeleteFiles
           THEN /\ SrcCnt' = Put(SrcCnt, k1, At(SrcCnt, k1) + 1)
                /\ DictW' = PutAll(DictW, CleaningPairs(k1, srcCnt + 1, res))
                /\ FileCnt' = Put(FileCnt, k2, Cardinality(res))
           ELSE UNCHANGED <<FileCnt, SrcCnt, DictW>>

searchKnown(w) ==
    LET enc == ServerSearch(DictW, KListOf(KW(w), Epoch(w), Count(w)))
        k   == AfterKList(KW(w), Epoch(w), Count(w))
    IN  /\ KW(w) \in DOMAIN FileCnt
        /\ \E junk \in JunkReads(enc, k, Epoch(w)) :
              finishSearch(w, enc, k, Epoch(w), junk)

Next ==
    \/ \E op \in {INS, DEL}, w \in Keywords, d \in Docs : update(op, w, d)
    \/ \E w \in Keywords : searchUnknown(w) \/ searchKnown(w)

Spec == Init /\ [][Next]_vars

-----------------------------------------------------------------------------
\* The client's counters hold natural numbers under key buffers, the server
\* holds ciphertexts under addresses, and a search returns documents.
TypeOK ==
    /\ DOMAIN FileCnt \subseteq Buffers /\ \A k \in DOMAIN FileCnt : FileCnt[k] \in Nat
    /\ DOMAIN SrcCnt \subseteq Buffers /\ \A k \in DOMAIN SrcCnt : SrcCnt[k] \in Nat
    /\ DOMAIN DictW \subseteq Buffers /\ \A a \in DOMAIN DictW : DictW[a] \in Ciphers
    /\ answer \in {<<>>} \cup (Keywords \X SUBSET Inds)

\* The address and the mask of update i of w under the client's counters now.
AddrOf(w, i) == Stamp(KW(w), 0, Epoch(w), i)
MaskOf(w, i) == Stamp(KW(w), 1, Epoch(w), i)

\* Every update the client counts (Client.cpp update, FileCnt) is at the server
\* under the address and the mask that the next search derives for it, although
\* every search in cleaning mode moves counters and rewrites entries.
EntriesDecodable ==
    \A w \in Keywords : \A i \in 1..Count(w) :
        /\ AddrOf(w, i) \in DOMAIN DictW
        /\ DictW[AddrOf(w, i)].mask = MaskOf(w, i)

\* No step, and in particular no re-insertion by the cleaning loop of
\* Client::search, overwrites an entry that the client's counters reach.
CurrentEntriesKept ==
    [][\A w \in Keywords : \A i \in 1..Count(w) :
          /\ AddrOf(w, i) \in DOMAIN DictW'
          /\ DictW'[AddrOf(w, i)] = DictW[AddrOf(w, i)]]_vars

\* The log of updates of w, as the server holds it under the client's counters.
StoredEntry(w, i) ==
    IF AddrOf(w, i) \in DOMAIN DictW
    THEN [op  |-> IF DictW[AddrOf(w, i)].op = INS THEN "INS" ELSE "DEL",
          ind |-> DictW[AddrOf(w, i)].ind]
    ELSE [op |-> "MISSING", ind |-> Junk]
StoredLog == [w \in Keywords |-> [i \in 1..Count(w) |-> StoredEntry(w, i)]]

Index == INSTANCE SSEIndex WITH log <- StoredLog, Compacting <- FALSE

\* Every search answers with the documents inserted more often than deleted, and
\* no search, cleaning or not, changes what later searches answer: the entries
\* and counters together implement an index whose log only grows.
ImplementsIndex == Index!Spec
=============================================================================
