------------------------------- MODULE MapSpec -------------------------------
(***************************************************************************)
(* The map that Orion and Horus believe OMAP to be: the operators of       *)
(* module OMAP as a state machine.  Searches leave the map as it is.  An   *)
(* insertion may be refused for lack of room; nobody catches the           *)
(* exception, so nothing comes after it.  Of a map that is not intact any  *)
(* more, which this specification cannot foresee, it says nothing.         *)
(***************************************************************************)
EXTENDS OMAP

CONSTANTS
    Keys, Values,
    Batches   \* the maps a setup may end with

VARIABLES
    m,        \* the map
    refused,  \* an insertion was refused
    intact    \* the map can still be relied on

vars == <<m, refused, intact>>

Init == m = EmptyMap /\ refused = FALSE /\ intact = TRUE

Insert(key, value) == m' = insert(m, key, value)

\* A batch is inserted into an empty map, at the end of the setup.
BatchInsert == m = EmptyMap /\ m' \in Batches

Next ==
    /\ ~refused
    /\ intact' => intact
    /\ \/ /\ refused' = FALSE
          /\ intact => BatchInsert \/ (\E key \in Keys, value \in Values : Insert(key, value))
       \/ refused' = TRUE /\ m' = m

Spec == Init /\ [][Next]_vars
=============================================================================
