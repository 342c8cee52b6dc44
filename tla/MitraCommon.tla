---------------------------- MODULE MitraCommon -----------------------------
(***************************************************************************)
(* The parts of Mitra's client and server that the single-machine program  *)
(* (module Mitra) and the client/server program (module MitraRunner)       *)
(* share: the 16-byte key buffer, the masks, the server's dictionary and   *)
(* the decoding of a search reply.                                         *)
(*                                                                         *)
(* A key buffer k_w is kept as the record of its fields: the keyword bytes *)
(* and the three fields that getAESRandomValue writes INTO THE CALLER'S    *)
(* BUFFER (bytes 7..10, 11 and 12..15).  A keyword fits in the bytes before*)
(* these fields, so a fresh buffer has zeros there.  The PRF is taken to be*)
(* injective and its output is represented by its input; a ciphertext is   *)
(* the plaintext paired with the mask it was XORed with.                   *)
(***************************************************************************)
EXTENDS Integers, Sequences, FiniteSets

CONSTANTS
    Keywords,     \* keywords, pairwise different in the bytes before the fields
    Docs,         \* document identifiers
    Junk,         \* an identifier read from a ciphertext under a wrong mask
    DeleteFiles   \* the cleaning mode (Mitra* in the README)

ASSUME MitraAssumption ==
    /\ Docs \subseteq Int
    /\ IsFiniteSet(Docs)
    /\ Junk \in Int \ Docs
    /\ DeleteFiles \in BOOLEAN

INS == 0
DEL == 1
Inds == Docs \cup {Junk}

Buffers == [word : Keywords, src : Nat, op : {0, 1}, cnt : Nat]
Ciphers == [ind : Inds, op : {INS, DEL}, mask : Buffers]

\* The buffer a keyword is copied into: memset to 0, then the keyword.
KW(w) == [word |-> w, src |-> 0, op |-> 0, cnt |-> 0]

\* getAESRandomValue: the buffer after the call, and so also the PRF's output.
Stamp(k, op, src, cnt) ==
    [word |-> k.word,
     src  |-> IF DeleteFiles THEN src ELSE k.src,
     op   |-> op,
     cnt  |-> cnt]

\* std::map: operator[] on an absent counter reads 0; Put is an assignment.
At(f, k) == IF k \in DOMAIN f THEN f[k] ELSE 0
Put(f, k, v) == [x \in DOMAIN f \cup {k} |-> IF x = k THEN v ELSE f[x]]

\* Both overloads of bitwiseXOR: masking, and whether a mask unmasks.
Encrypt(ind, op, rnd) == [ind |-> ind, op |-> op, mask |-> rnd]
Unmasks(tmp, c) == c.mask = tmp

\* The addresses 1..fileCnt of a keyword, in the order searchRequest lists them,
\* and the buffer the listing loop leaves behind.
KListShort(k, src, fileCnt) ==                           \* mutant
    [i \in 1..(fileCnt - 1) |-> Stamp(k, 0, src, i)]
KListOf(k, src, fileCnt) == [i \in 1..fileCnt |-> Stamp(k, 0, src, i)]
AfterKList(k, src, fileCnt) ==
    IF fileCnt = 0 THEN k ELSE Stamp(k, 0, src, fileCnt)

\* Server::search: the ciphertexts found, in order, the missing ones left out.
Hits(dict, KList) == {i \in DOMAIN KList : KList[i] \in DOMAIN dict}
Rank(S, i) == Cardinality({j \in S : j <= i})
Nth(S, p) == CHOOSE i \in S : Rank(S, i) = p
ServerSearch(dict, KList) ==
    LET hits == Hits(dict, KList)
    IN  [p \in 1..Cardinality(hits) |-> dict[KList[Nth(hits, p)]]]

\* The decoding loop: position p of the reply is unmasked with counter p.
Decoded(enc, k, src) ==
    {p \in DOMAIN enc : Unmasks(Stamp(k, 1, src, p), enc[p])}
Tally(enc, good, op, d) ==
    Cardinality({p \in good : enc[p].ind = d /\ enc[p].op = op})
Removes(enc, good, d) == Tally(enc, good, DEL, d) - Tally(enc, good, INS, d)
PositiveOrZero(enc, k, src) ==                           \* mutant
    {d \in Inds : Removes(enc, Decoded(enc, k, src), d) <= 0}
Positive(enc, k, src) ==
    {d \in Inds : Removes(enc, Decoded(enc, k, src), d) < 0}

\* A wrongly unmasked ciphertext reads as a random identifier and a random op
\* byte: it shows up in the result when that byte is 0 and vanishes otherwise.
JunkReads(enc, k, src) ==
    IF Decoded(enc, k, src) = DOMAIN enc THEN {{}} ELSE {{}, {Junk}}

\* The buffer after the decoding loop has stamped it once per ciphertext.
AfterDecodeFresh(enc, k, src) == KW(k.word)              \* mutant
AfterDecode(enc, k, src) ==
    IF enc = <<>> THEN k ELSE Stamp(k, 1, src, Len(enc))

\* The cleaning loop: the results, in ascending order, written as insertions
\* under the next search counter, and the buffer the loop leaves behind.
CleaningPairsInPlace(k, src, res) ==                     \* mutant
    [a \in {Stamp(k, 0, src - 1, Rank(res, d)) : d \in res} |->
        Encrypt(Nth(res, a.cnt), INS, Stamp(k, 1, src - 1, a.cnt))]
CleaningPairs(k, src, res) ==
    [a \in {Stamp(k, 0, src, Rank(res, d)) : d \in res} |->
        Encrypt(Nth(res, a.cnt), INS, Stamp(k, 1, src, a.cnt))]
AfterCleaning(k, src, res) ==
    IF res = {} THEN k ELSE Stamp(k, 1, src, Cardinality(res))

\* Server::update for a batch of pairs.
PutAll(f, g) ==
    [x \in DOMAIN f \cup DOMAIN g |-> IF x \in DOMAIN g THEN g[x] ELSE f[x]]
=============================================================================
