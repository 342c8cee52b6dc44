--------------------------- MODULE TombstoneIndex ---------------------------
(***************************************************************************)
(* What Orion promises its caller: an inverted index in which a document   *)
(* can be added to a keyword and removed from it once.  A removed document *)
(* stays removed: adding it again has no effect.  Removing a document that *)
(* was never added is an error.                                            *)
(***************************************************************************)
CONSTANTS Keywords, Docs

VARIABLES
    live,     \* documents of each keyword
    dead,     \* documents removed from each keyword
    answer    \* outcome of the last operation that has one

vars == <<live, dead, answer>>

Init ==
    /\ live = [w \in Keywords |-> {}]
    /\ dead = [w \in Keywords |-> {}]
    /\ answer = <<>>

\* A bulk load into an index nothing was added to yet.
Load ==
    /\ \A w \in Keywords : live[w] = {} /\ dead[w] = {}
    /\ live' \in [Keywords -> SUBSET Docs]
    /\ dead' \in [Keywords -> SUBSET Docs]
    /\ \A w \in Keywords : live'[w] \cap dead'[w] = {}
    /\ UNCHANGED answer

Add(w, d) ==
    /\ live' = IF d \in dead[w] THEN live ELSE [live EXCEPT ![w] = @ \cup {d}]
    /\ UNCHANGED <<dead, answer>>

Remove(w, d) ==
    /\ d \in live[w] \cup dead[w]
    /\ live' = [live EXCEPT ![w] = @ \ {d}]
    /\ dead' = [dead EXCEPT ![w] = @ \cup {d}]
    /\ UNCHANGED answer

Fail ==
    /\ answer' = <<"threw">>
    /\ UNCHANGED <<live, dead>>

Search(w) ==
    /\ answer' = <<w, live[w]>>
    /\ UNCHANGED <<live, dead>>

Next ==
    \/ Load \/ Fail
    \/ \E w \in Keywords, d \in Docs : Add(w, d) \/ Remove(w, d)
    \/ \E w \in Keywords : Search(w)

Spec == Init /\ [][Next]_vars
=============================================================================
