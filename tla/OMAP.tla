-------------------------------- MODULE OMAP --------------------------------
(***************************************************************************)
(* What OMAP, the oblivious map of Orion and Horus, does for its callers:  *)
(* a finite map from block identifiers to short strings.  The callers      *)
(* store numbers (to_string) and read them back (stoi); find returns the   *)
(* empty string for an absent key, written Absent here.  How OMAP keeps    *)
(* the map (an AVL tree whose nodes are ORAM blocks) is not visible at     *)
(* this level.                                                             *)
(***************************************************************************)
LOCAL INSTANCE Integers

EmptyMap == [k \in {} |-> 0]

\* The empty string; no caller stores the number 0.
Absent == 0

find(m, key) == IF key \in DOMAIN m THEN m[key] ELSE Absent

\* Overwrites the value of a key that is present.
insert(m, key, value) ==
    [k \in DOMAIN m \cup {key} |-> IF k = key THEN value ELSE m[k]]

batchInsert(m, pairs) ==
    [k \in DOMAIN m \cup DOMAIN pairs |->
        IF k \in DOMAIN pairs THEN pairs[k] ELSE m[k]]

\* The values of the keys that are present, in tree order; absent keys leave no
\* trace in the result.
batchSearch(m, keys) == {m[k] : k \in keys \cap DOMAIN m}
=============================================================================
