------------------------------ MODULE MCDiana -------------------------------
(* Instance of Diana for TLC: the leaves come from the token tree. *)
EXTENDS Diana, TokenTree

TreeLeafOrder(n, D) ==
    IF n = 0 THEN <<>>
    ELSE LET leaves == search(token_list(n, D))
         IN  [i \in DOMAIN leaves |-> Number(leaves[i])]

\* Keywords and documents are only ever compared.
Symmetry == Permutations(Keywords) \cup Permutations(Docs)

AllSettings == [remote : BOOLEAN, usehdd : BOOLEAN, clean : BOOLEAN]
=============================================================================
