------------------------------- MODULE Orion --------------------------------
(***************************************************************************)
(* Orion: an inverted index kept in two oblivious maps.  updt maps a       *)
(* keyword and a document to the position of the document in the list of   *)
(* the keyword (-1 once it was removed), srch maps a keyword and a         *)
(* position to the document there.  remove fills the hole it makes with    *)
(* the last document of the list.                                          *)
(*                                                                         *)
(* The setup functions stage the same maps in ordinary std::maps, which    *)
(* endSetup copies into the oblivious ones; they are for the initial       *)
(* setup, so beginSetup comes before any other operation.                  *)
(***************************************************************************)
EXTENDS Integers, OMAP

CONSTANTS
    Keywords,
    Docs,
    Duplicates   \* TRUE: the caller may set up a document that is set up already

ASSUME OrionAssumption == Duplicates \in BOOLEAN

VARIABLES
    UpdtCnt,       \* length of the list of each known keyword
    LastIND,       \* its last document, while the list is not empty
    updt, srch,    \* the two oblivious maps
    setupPairs1,   \* staged contents of updt
    setupPairs2,   \* staged contents of srch
    phase,         \* "new", "setup", then "run"
    answer         \* outcome of the last search, or <<"threw">>

vars == <<UpdtCnt, LastIND, updt, srch, setupPairs1, setupPairs2, phase, answer>>
maps == <<updt, srch>>
staged == <<setupPairs1, setupPairs2>>

\* createBid: keyword and number make up the block identifier.
Bid(w, n) == <<w, n>>

Init ==
    /\ UpdtCnt = EmptyMap /\ LastIND = EmptyMap
    /\ updt = EmptyMap /\ srch = EmptyMap
    /\ setupPairs1 = EmptyMap /\ setupPairs2 = EmptyMap
    /\ phase = "new"
    /\ answer = <<>>

\* UpdtCnt[keyword], created as 0 by the code when it is not there.
Cnt(w) == find(UpdtCnt, w)

\* The maps after document d is put at the end of the list of w.
Appended(m, w, d) == insert(m, Bid(w, d), Cnt(w) + 1)
Listed(m, w, d) == insert(m, Bid(w, Cnt(w) + 1), d)

\* The maps after the document d at position p is taken out of the list of w:
\* unless it was the last one, the last one moves to p.
Moves(w, p) == Cnt(w) > 1 /\ p # Cnt(w)
UnlinkedNoMove(m, w, d, p) == insert(m, Bid(w, d), -1)   \* mutant
Unlinked(m, w, d, p) ==
    IF Moves(w, p)
    THEN insert(insert(m, Bid(w, d), -1), Bid(w, LastIND[w]), p)
    ELSE insert(m, Bid(w, d), -1)
Unlisted(m, w, p) ==
    IF Moves(w, p) THEN insert(m, Bid(w, p), LastIND[w]) ELSE m

\* LastIND after a removal, read from the map m of positions already updated.
NewLast(m, w) ==
    IF Cnt(w) > 1 THEN insert(LastIND, w, m[Bid(w, Cnt(w) - 1)])
    ELSE [v \in DOMAIN LastIND \ {w} |-> LastIND[v]]

-----------------------------------------------------------------------------
Running == phase # "setup" /\ phase' = "run"

addAgain(w, d) ==                                        \* mutant
    /\ Running
    /\ IF find(updt, Bid(w, d)) <= 0
       THEN /\ UpdtCnt' = insert(UpdtCnt, w, Cnt(w) + 1)
            /\ updt' = Appended(updt, w, d)
            /\ srch' = Listed(srch, w, d)
            /\ LastIND' = insert(LastIND, w, d)
       ELSE UNCHANGED <<UpdtCnt, LastIND, maps>>
    /\ UNCHANGED <<staged, answer>>

\* insert: ignored when updt knows the document, removed documents included.
add(w, d) ==
    /\ Running
    /\ IF find(updt, Bid(w, d)) = Absent
       THEN /\ UpdtCnt' = insert(UpdtCnt, w, Cnt(w) + 1)
            /\ updt' = Appended(updt, w, d)
            /\ srch' = Listed(srch, w, d)
            /\ LastIND' = insert(LastIND, w, d)
       ELSE UNCHANGED <<UpdtCnt, LastIND, maps>>
    /\ UNCHANGED <<staged, answer>>

\* remove; stoi("") throws when updt does not know the document.
remove(w, d) ==
    LET p == find(updt, Bid(w, d))
    IN  /\ Running
        /\ answer' = IF p = Absent THEN <<"threw">> ELSE answer
        /\ IF p > 0
           THEN /\ updt' = Unlinked(updt, w, d, p)
                /\ srch' = Unlisted(srch, w, p)
                /\ UpdtCnt' = insert(UpdtCnt, w, Cnt(w) - 1)
                /\ LastIND' = NewLast(srch', w)
           ELSE UNCHANGED <<UpdtCnt, LastIND, maps>>
        /\ UNCHANGED staged

Result(w) == batchSearch(srch, {Bid(w, i) : i \in 1..Cnt(w)})

search(w) ==
    /\ answer' = <<w, Result(w)>>
    /\ UNCHANGED <<UpdtCnt, LastIND, maps, staged, phase>>

beginSetup ==
    /\ phase = "new"
    /\ phase' = "setup"
    /\ setupPairs1' = EmptyMap /\ setupPairs2' = EmptyMap
    /\ UNCHANGED <<UpdtCnt, LastIND, maps, answer>>

\* setupInsert, which does not look whether the document is set up already.
setupInsert(w, d) ==
    /\ phase = "setup"
    /\ Duplicates \/ find(setupPairs1, Bid(w, d)) <= 0
    /\ UpdtCnt' = insert(UpdtCnt, w, Cnt(w) + 1)
    /\ setupPairs1' = Appended(setupPairs1, w, d)
    /\ setupPairs2' = Listed(setupPairs2, w, d)
    /\ LastIND' = insert(LastIND, w, d)
    /\ UNCHANGED <<maps, phase, answer>>

\* setupRemove; operator[] leaves an empty string behind before stoi throws.
setupRemove(w, d) ==
    LET p == find(setupPairs1, Bid(w, d))
    IN  /\ phase = "setup"
        /\ answer' = IF p = Absent THEN <<"threw">> ELSE answer
        /\ IF p > 0
           THEN /\ setupPairs1' = Unlinked(setupPairs1, w, d, p)
                /\ setupPairs2' = Unlisted(setupPairs2, w, p)
                /\ UpdtCnt' = insert(UpdtCnt, w, Cnt(w) - 1)
                /\ LastIND' = NewLast(setupPairs2', w)
           ELSE /\ setupPairs1' = insert(setupPairs1, Bid(w, d), p)
                /\ UNCHANGED <<UpdtCnt, LastIND, setupPairs2>>
        /\ UNCHANGED <<maps, phase>>

endSetup ==
    /\ phase = "setup"
    /\ phase' = "run"
    /\ updt' = batchInsert(updt, setupPairs1)
    /\ srch' = batchInsert(srch, setupPairs2)
    /\ UNCHANGED <<UpdtCnt, LastIND, staged, answer>>

Next ==
    \/ beginSetup \/ endSetup
    \/ \E w \in Keywords, d \in Docs :
          add(w, d) \/ remove(w, d) \/ setupInsert(w, d) \/ setupRemove(w, d)
    \/ \E w \in Keywords : search(w)

Spec == Init /\ [][Next]_vars

-----------------------------------------------------------------------------
Positions == Nat \cup {-1}

\* Every map holds what the code can read back with stoi: positions or -1 under
\* documents, documents under positions.
TypeOK ==
    /\ DOMAIN UpdtCnt \subseteq Keywords /\ \A w \in DOMAIN UpdtCnt : UpdtCnt[w] \in Nat
    /\ DOMAIN LastIND \subseteq Keywords /\ \A w \in DOMAIN LastIND : LastIND[w] \in Docs
    /\ \A m \in {updt, setupPairs1} :
          DOMAIN m \subseteq Keywords \X Docs /\ \A k \in DOMAIN m : m[k] \in Positions
    /\ \A m \in {srch, setupPairs2} :
          DOMAIN m \subseteq Keywords \X (Nat \ {0}) /\ \A k \in DOMAIN m : m[k] \in Docs
    /\ phase \in {"new", "setup", "run"}

\* The list of w in the maps u and s, given the counters and last documents:
\* position and document determine each other, and last is at the last position.
Consistent(u, s, cnt, last, w) ==
    LET n == find(cnt, w)
    IN  /\ \A i \in 1..n :
              Bid(w, i) \in DOMAIN s /\ find(u, Bid(w, s[Bid(w, i)])) = i
        /\ \A d \in Docs : find(u, Bid(w, d)) > 0 =>
              /\ find(u, Bid(w, d)) <= n
              /\ s[Bid(w, find(u, Bid(w, d)))] = d
        /\ n > 0 => w \in DOMAIN last /\ last[w] = s[Bid(w, n)]

\* The two maps describe the same list through every interleaving of insertions
\* and removals of several keywords, in setup (the staged maps) and after it, so
\* the last element that remove moves into the hole is the one that exists there.
ListsConsistent ==
    \A w \in Keywords :
        IF phase = "setup"
        THEN Consistent(setupPairs1, setupPairs2, UpdtCnt, LastIND, w)
        ELSE Consistent(updt, srch, UpdtCnt, LastIND, w)

\* The documents of w that updt says are there, and those it says were removed.
Live == [w \in Keywords |-> {d \in Docs : find(updt, Bid(w, d)) > 0}]
Dead == [w \in Keywords |-> {d \in Docs : find(updt, Bid(w, d)) < 0}]

Index == INSTANCE TombstoneIndex WITH live <- Live, dead <- Dead

\* Orion implements the index: a search answers with exactly the documents added
\* and never removed, the setup functions load such an index in one step, and no
\* operation on one keyword disturbs another.
ImplementsIndex == Index!Spec
=============================================================================
