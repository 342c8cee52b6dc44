------------------------------ MODULE SetIndex ------------------------------
(***************************************************************************)
(* What Horus promises its caller: an inverted index in which documents    *)
(* can be added to and removed from a keyword any number of times.  A      *)
(* search answers with the documents and their number.  An operation may   *)
(* fail, without effect.  Adding or removing a document may damage the     *)
(* store that searches read: from then on a search may fail, or name other *)
(* documents, but what is listed, and its number, stay right.              *)
(***************************************************************************)
EXTENDS FiniteSets

CONSTANTS Keywords, Docs

VARIABLES
    live,     \* documents of each keyword
    intact,   \* the store that searches read is not damaged
    answer    \* outcome of the last operation that has one

vars == <<live, intact, answer>>

Init == live = [w \in Keywords |-> {}] /\ intact = TRUE /\ answer = << >>

\* A bulk load into an empty index.
Load ==
    /\ \A w \in Keywords : live[w] = {}
    /\ live' \in [Keywords -> SUBSET Docs]
    /\ UNCHANGED <<intact, answer>>

\* Damage is not repaired.
Add(w, d) ==
    /\ live' = [live EXCEPT ![w] = @ \cup {d}]
    /\ intact' \in {intact, FALSE}
    /\ UNCHANGED answer

Remove(w, d) ==
    /\ live' = [live EXCEPT ![w] = @ \ {d}]
    /\ intact' \in {intact, FALSE}
    /\ UNCHANGED answer

Search(w) ==
    /\ \E found \in IF intact THEN {live[w]} ELSE SUBSET Docs :
          answer' = <<w, found, Cardinality(live[w])>>
    /\ UNCHANGED <<live, intact>>

\* No room for a box, or a removal of what was never there; in a damaged store also a
\* box that is missing, or is not a document.
Fail ==
    /\ answer' = <<"threw">> \/ (~intact /\ answer' = <<"invalid">>)
    /\ UNCHANGED <<live, intact>>

Next ==
    \/ Load \/ Fail
    \/ \E w \in Keywords, d \in Docs : Add(w, d) \/ Remove(w, d)
    \/ \E w \in Keywords : Search(w)

Spec == Init /\ [][Next]_vars
=============================================================================
