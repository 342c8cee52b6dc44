------------------------------- MODULE MCJanus -------------------------------
(* Instance of Janus for TLC: the leaves come from the token tree. *)
EXTENDS Janus, TokenTree

TreeLeafOrder(n, D) ==
    IF n = 0 THEN <<>>
    ELSE LET leaves == search(token_list(n, D))
         IN  [i \in DOMAIN leaves |-> Number(leaves[i])]
=============================================================================
