----------------------------- MODULE TokenTree ------------------------------
(***************************************************************************)
(* The binary tree of search tokens of Diana (diana/token_tree.cpp) and    *)
(* the two sequential searches of DianaServer that walk it.  A node's      *)
(* token is the path from the root, a sequence of 0 (left) and 1 (right):  *)
(* the generator that derives a child from its parent is taken to have no  *)
(* collisions.  A leaf is the token at depth TreeDepth; the i-th leaf, from*)
(* 0, carries the i-th entry of the keyword.                               *)
(***************************************************************************)
EXTENDS Integers, SequencesExt

CONSTANTS
    TreeDepth   \* kTreeDepth, 48 in the code

ASSUME TreeAssumption == TreeDepth \in Nat

Root == <<>>
Node(K, depth) == [token |-> K, depth |-> depth]  \* an element of token_list
Left(K) == Append(K, 0)
Right(K) == Append(K, 1)

\* The descendant of K that is number index among those depth levels below it.
derive_node(K, index, depth) ==
    K \o [i \in 1..depth |-> (index \div 2^(depth - i)) % 2]

Leaf(i) == derive_node(Root, i, TreeDepth)

RECURSIVE derive_all_leaves(_, _)
derive_all_leaves(K, depth) ==
    IF depth = 0
    THEN <<K>>
    ELSE derive_all_leaves(Left(K), depth - 1) \o derive_all_leaves(Right(K), depth - 1)

\* The leaves number from..to below K, from left to right.
RECURSIVE derive_leaves(_, _, _, _)
derive_leaves(K, depth, from, to) ==
    LET half  == 2^(depth - 1)
        left  == from <= half - 1
        right == to >= half
    IN  IF depth = 0 THEN <<K>>
        ELSE IF from = 0 /\ to = 2^depth - 1 THEN derive_all_leaves(K, depth)
        ELSE (IF left
              THEN derive_leaves(Left(K), depth - 1, from,
                                 IF right THEN half - 1 ELSE to)
              ELSE <<>>)
          \o (IF right
              THEN derive_leaves(Right(K), depth - 1,
                                 IF left THEN 0 ELSE from - half, to - half)
              ELSE <<>>)

-----------------------------------------------------------------------------
\* covering_list: nodes whose leaves are the first n below K.
RECURSIVE covering_list(_, _, _)
covering_list(K, n, depth) ==
    IF n = 2^depth THEN <<Node(K, depth)>>
    ELSE IF n > 2^depth \div 2
    THEN <<Node(Left(K), depth - 1)>>
         \o covering_list(Right(K), n - 2^depth \div 2, depth - 1)
    ELSE covering_list(Left(K), n, depth - 1)

\* Node j of level i has only leaves among the first n that are not in dels.
Complete(i, j, n, depth, dels) ==
    LET width == 2^(depth - i)
    IN  j * width .. (j + 1) * width - 1 \subseteq (0..n-1) \ dels

\* A mutant: the children of a complete node are listed as well.
TargetsAtTwice(i, j, n, depth, dels) ==
    LET child(k) == IF Complete(i + 1, k, n, depth, dels) THEN <<<<i + 1, k>>>> ELSE <<>>
    IN  child(2 * j) \o child(2 * j + 1)

\* The entries that node j of level i adds to targetNodes: itself if it is the
\* root, else each complete child whose sibling is not complete.
TargetsAt(i, j, n, depth, dels) ==
    LET complete(k) == Complete(i + 1, k, n, depth, dels)
        child(k)    == IF complete(k) THEN <<<<i + 1, k>>>> ELSE <<>>
    IN  IF complete(2 * j) /\ complete(2 * j + 1)
        THEN IF i = 0 THEN <<<<i, j>>>> ELSE <<>>
        ELSE child(2 * j) \o child(2 * j + 1)

\* All of them, deepest level first; none when depth is 0.
targetNodes(n, depth, dels) ==
    FlattenSeq([r \in 1..depth |->
        FlattenSeq([j \in 1..2^(depth - r) |->
            TargetsAt(depth - r, j - 1, n, depth, dels)])])

\* covering_list with deletions: nodes whose leaves are those of the first n below
\* K that are not in dels.
RECURSIVE covering_list_without(_, _, _, _)
covering_list_without(K, n, depth, dels) ==
    IF n > 2^depth \div 2
    THEN LET targets == targetNodes(n, depth, dels)
         IN  [r \in DOMAIN targets |->
                 Node(derive_node(K, targets[r][2], targets[r][1]),
                      depth - targets[r][1])]
    ELSE covering_list_without(Left(K), n, depth - 1, dels)

\* The token_list of DianaClient::search_request.
token_list(n, dels) ==
    IF dels = {} THEN covering_list(Root, n, TreeDepth)
    ELSE covering_list_without(Root, n, TreeDepth, dels)

-----------------------------------------------------------------------------
\* The leaves DianaServer::search looks up, in order, and those search_simple does.
search(list) ==
    FlattenSeq([k \in DOMAIN list |-> derive_all_leaves(list[k].token, list[k].depth)])

search_simple(list) ==
    FlattenSeq([k \in DOMAIN list |->
        [i \in 1..2^(list[k].depth) |-> derive_node(list[k].token, i - 1, list[k].depth)]])

\* The entry number of a leaf.
Number(leaf) ==
    CHOOSE i \in 0..(2^TreeDepth - 1) : Leaf(i) = leaf
=============================================================================
