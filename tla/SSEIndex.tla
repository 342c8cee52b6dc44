------------------------------ MODULE SSEIndex ------------------------------
(***************************************************************************)
(* What a searchable-encryption scheme of this repository promises to its  *)
(* caller, with no cryptography and no server in sight.  The index is one  *)
(* log of updates per keyword; a search answers with the documents whose   *)
(* insertions outnumber their deletions.  Mitra and Fides are shown to     *)
(* implement this specification.                                           *)
(***************************************************************************)
EXTENDS Naturals, Sequences, FiniteSets

CONSTANTS
    Keywords,   \* the keywords of the database
    Docs,       \* the document identifiers
    Compacting  \* TRUE: a search may rewrite the log (cleaning mode)

VARIABLES
    log,        \* log[w]: the updates of w, oldest first
    answer      \* the outcome of the last search: <<>> or <<w, documents>>

vars == <<log, answer>>

Ops == {"INS", "DEL"}
Entries == [op : Ops, ind : Docs]

Times(s, op, d) == Cardinality({i \in DOMAIN s : s[i] = [op |-> op, ind |-> d]})

\* The documents a search for a keyword with log s must return.
Live(s) == {d \in Docs : Times(s, "INS", d) > Times(s, "DEL", d)}

\* s lists every document of D exactly once, as an insertion.
Lists(s, D) ==
    /\ Len(s) = Cardinality(D)
    /\ {s[i] : i \in DOMAIN s} = {[op |-> "INS", ind |-> d] : d \in D}

Init ==
    /\ log = [w \in Keywords |-> <<>>]
    /\ answer = <<>>

Update(op, w, d) ==
    /\ log' = [log EXCEPT ![w] = Append(@, [op |-> op, ind |-> d])]
    /\ UNCHANGED answer

\* In cleaning mode the log may be replaced by one insertion per live document.
Search(w) ==
    /\ answer' = <<w, Live(log[w])>>
    /\ \/ UNCHANGED log
       \/ /\ Compacting
          /\ log' = [log EXCEPT ![w] = log'[w]]
          /\ Lists(log'[w], Live(log[w]))

Next ==
    \/ \E op \in Ops, w \in Keywords, d \in Docs : Update(op, w, d)
    \/ \E w \in Keywords : Search(w)

Spec == Init /\ [][Next]_vars
=============================================================================
