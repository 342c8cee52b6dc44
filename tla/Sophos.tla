------------------------------- MODULE Sophos -------------------------------
(***************************************************************************)
(* The Sophos engine under Fides: SophosClient's token chain and           *)
(* SophosServer's token table.  The token of update c of keyword w is the  *)
(* c-th inverse of the trapdoor permutation on a root derived from w and   *)
(* the client's PRG key, so the server, given the newest token, evaluates  *)
(* the permutation to reach the older ones.  A token and the mask of its   *)
(* value are derived together from the same search token, so unmasking     *)
(* always yields the value that was stored under the token.                *)
(***************************************************************************)
EXTENDS Integers, FiniteSets

CONSTANTS
    Keywords,      \* the keywords
    Docs,          \* document identifiers
    UseHDD,        \* TRUE: RocksDB table (put), FALSE: map in memory (insert)
    DeleteItems    \* the cleaning mode (Fides* in the README)

ASSUME SophosAssumption ==
    /\ Docs \subseteq Int
    /\ IsFiniteSet(Docs)
    /\ UseHDD \in BOOLEAN
    /\ DeleteItems \in BOOLEAN

\* The values of encode(ind|1) and encode(ind|0).
Values == [op : {"INS", "DEL"}, ind : Docs]

\* The PRG key: generated at first start; read as the empty string ever after,
\* because no constructor writes tdp_prg.key.
PrgKeys == {"generated", "reloaded"}

Tokens == [prg : PrgKeys, word : Keywords, cnt : Nat]
Token(prg, w, c) == [prg |-> prg, word |-> w, cnt |-> c]

\* search_request: how many tokens the chain of w has, 0 when w is unknown;
\* this is also the counter that the next update_request takes.
AddCount(ramCounter, w) ==
    IF w \in DOMAIN ramCounter THEN ramCounter[w] + 1 ELSE 0

\* update_request, n times in a row, on the client's counter.
Advance(ramCounter, w, n) ==
    IF n = 0 THEN ramCounter
    ELSE [v \in DOMAIN ramCounter \cup {w} |->
             IF v = w THEN AddCount(ramCounter, w) + n - 1 ELSE ramCounter[v]]

\* SophosServer::update: put overwrites, std::map::insert does not.
Store(edb, t, val) ==
    [x \in DOMAIN edb \cup {t} |->
        IF x = t /\ (UseHDD \/ t \notin DOMAIN edb) THEN val ELSE edb[x]]

\* SophosServer::search: the counters below add_count whose token is found, and
\* the table without them.
FoundShort(edb, prg, w, addCount) ==                     \* mutant
    {c \in 0..(addCount - 2) : Token(prg, w, c) \in DOMAIN edb}
Found(edb, prg, w, addCount) ==
    {c \in 0..(addCount - 1) : Token(prg, w, c) \in DOMAIN edb}
EraseNothing(edb, prg, w, found) == edb                  \* mutant
Erase(edb, prg, w, found) ==
    [x \in DOMAIN edb \ {Token(prg, w, c) : c \in found} |-> edb[x]]

\* FidesClient::searchProcess: the documents with a positive sum, given the
\* value found at each counter.
Occurs(vals, op, d) ==
    Cardinality({c \in DOMAIN vals : vals[c] = [op |-> op, ind |-> d]})
Sum(vals, d) == Occurs(vals, "INS", d) - Occurs(vals, "DEL", d)
FinalRes(vals) == {d \in Docs : Sum(vals, d) > 0}

\* The results in ascending order (std::map), each re-inserted once by the
\* cleaning loop: the r-th under the r-th next counter of the chain.
RankIn(S, d) == Cardinality({e \in S : e <= d})
NthIn(S, r) == CHOOSE d \in S : RankIn(S, d) = r
ReinsertedAfterGap(prg, w, addCount, res) ==             \* mutant
    [t \in {Token(prg, w, addCount + r) : r \in 1..Cardinality(res)} |->
        [op |-> "INS", ind |-> NthIn(res, t.cnt - addCount)]]
ReinsertedShort(prg, w, addCount, res) ==                \* mutant
    [t \in {Token(prg, w, addCount + r - 1) : r \in 1..(Cardinality(res) - 1)} |->
        [op |-> "INS", ind |-> NthIn(res, t.cnt - addCount + 1)]]
Reinserted(prg, w, addCount, res) ==
    [t \in {Token(prg, w, addCount + r - 1) : r \in 1..Cardinality(res)} |->
        [op |-> "INS", ind |-> NthIn(res, t.cnt - addCount + 1)]]

\* SophosServer::update for each pair of a batch.
StoreAll(edb, pairs) ==
    [x \in DOMAIN edb \cup DOMAIN pairs |->
        IF x \in DOMAIN pairs /\ (UseHDD \/ x \notin DOMAIN edb)
        THEN pairs[x] ELSE edb[x]]
=============================================================================
