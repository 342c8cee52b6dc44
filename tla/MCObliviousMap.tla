--------------------------- MODULE MCObliviousMap ---------------------------
(* Instance of ObliviousMap for TLC. *)
EXTENDS ObliviousMap
LOCAL INSTANCE TLC

MCSizes == {<<1, 0>>, <<1, 2>>, <<4, 1>>}
MCBatches ==
    <<1, 0>> :> {[k \in 3..6 |-> 1]}
    @@ <<1, 2>> :> {[k \in 1..5 |-> 1], [k \in 3..6 |-> 1]}
    @@ <<4, 1>> :> {[k \in 1..5 |-> 1], [k \in 2..8 |-> 1], [k \in 1..8 |-> 1]}
MCEntries == {<<1, 1>>, <<3, 2>>, <<6, 1>>}
MCQueries == {{1, 6}}
=============================================================================
