------------------------------- MODULE Fides --------------------------------
(***************************************************************************)
(* Fides on a single machine (fides_debug): FidesClient owns both a        *)
(* SophosClient and a SophosServer and calls the latter directly.          *)
(***************************************************************************)
EXTENDS Sophos, Sequences

CONSTANTS
    MaxCnt   \* bound: tokens per keyword

ASSUME FidesBounds == MaxCnt \in Nat

VARIABLES
    ramCounter,   \* client: last counter of each known keyword
    prg,          \* client: which PRG key the chains start from
    edb,          \* server: token -> value
    answer        \* what the last search returned: <<>> or <<w, documents>>

vars == <<ramCounter, prg, edb, answer>>

\* The keys are generated, or read from the files of an earlier process; either
\* way no counter and, in a new table, no token exists.
Init ==
    /\ ramCounter = [w \in {} |-> 0]
    /\ prg \in PrgKeys
    /\ edb = [t \in {} |-> 0]
    /\ answer = <<>>

\* insertKeyword and deleteKeyword.
update(op, w, ind) ==
    /\ AddCount(ramCounter, w) < MaxCnt
    /\ ramCounter' = Advance(ramCounter, w, 1)
    /\ edb' = Store(edb, Token(prg, w, AddCount(ramCounter, w)),
                    [op |-> op, ind |-> ind])
    /\ UNCHANGED <<prg, answer>>

searchKeyword(w) ==
    LET addCount == AddCount(ramCounter, w)
        found    == Found(edb, prg, w, addCount)
        res      == FinalRes([c \in found |-> edb[Token(prg, w, c)]])
    IN  /\ answer' = <<w, res>>
        /\ IF DeleteItems
           THEN /\ addCount + Cardinality(res) <= MaxCnt
                /\ edb' = StoreAll(Erase(edb, prg, w, found),
                                   Reinserted(prg, w, addCount, res))
                /\ ramCounter' = Advance(ramCounter, w, Cardinality(res))
           ELSE UNCHANGED <<ramCounter, edb>>
        /\ UNCHANGED prg

Next ==
    \/ \E op \in {"INS", "DEL"}, w \in Keywords, d \in Docs : update(op, w, d)
    \/ \E w \in Keywords : searchKeyword(w)

Spec == Init /\ [][Next]_vars

-----------------------------------------------------------------------------
\* Counters and tables have the types the code declares.
TypeOK ==
    /\ DOMAIN ramCounter \subseteq Keywords
    /\ \A w \in DOMAIN ramCounter : ramCounter[w] \in Nat
    /\ prg \in PrgKeys
    /\ DOMAIN edb \subseteq Tokens /\ \A t \in DOMAIN edb : edb[t] \in Values
    /\ answer \in {<<>>} \cup (Keywords \X SUBSET Docs)

\* The counters of w at which the server holds a value.
Held(w) == {c \in 0..(AddCount(ramCounter, w) - 1) : Token(prg, w, c) \in DOMAIN edb}

\* The server holds nothing beyond the chain of the client's counters, and what
\* it holds of a keyword is a suffix of the chain with no hole: a cleaning
\* search (searchKeyword) removes all it found before it re-inserts.  So the
\* token of the next update is new, and std::map::insert never drops one.  The types
\* are right throughout.
HeldIsSuffix ==
    /\ TypeOK
    /\ \A t \in DOMAIN edb : t.prg = prg /\ t.cnt < AddCount(ramCounter, t.word)
    /\ \A w \in Keywords : \A c \in Held(w) :
          \A b \in c..(AddCount(ramCounter, w) - 1) : b \in Held(w)

\* The stored values of w, oldest first.
StoredLog ==
    [w \in Keywords |->
        [i \in 1..Cardinality(Held(w)) |->
            edb[Token(prg, w, AddCount(ramCounter, w) - Cardinality(Held(w)) + i - 1)]]]

Index == INSTANCE SSEIndex WITH log <- StoredLog, Compacting <- DeleteItems

\* Every search answers with the documents inserted more often than deleted since
\* they were last cleaned; a cleaning search leaves exactly its answer behind,
\* each document once, and touches no other keyword.
ImplementsIndex == Index!Spec
=============================================================================
