------------------------------- MODULE AVLTree -------------------------------
(***************************************************************************)
(* The AVL tree of the oblivious map.  Its nodes are ORAM blocks: a parent *)
(* holds the key and the leaf of each child.  Every operator takes the     *)
(* record of the ORAM (module ORAM) and returns it changed.                *)
(*                                                                         *)
(* Keys are positive integers, compared as the code compares block         *)
(* identifiers; 0 is the identifier of no node.                            *)
(***************************************************************************)
EXTENDS ORAM
LOCAL INSTANCE Integers
LOCAL INSTANCE Sequences

\* newNode; the leaf is drawn by AVLTree::RandomPath from all of Leaves(depth).
\* A child that is missing has no leaf; the code keeps an arbitrary one there.
newNode(value, leaf) ==
    [value |-> value, pos |-> leaf, left |-> 0, leftPos |-> 0,
     right |-> 0, rightPos |-> 0, height |-> 1]

Larger(a, b) == IF a > b THEN a ELSE b

ReadChildren(o, k) ==
    LET n == o.cache[k]
    IN  ReadNode(ReadNode(o, n.left, n.leftPos), n.right, n.rightPos)

Died(o) == [o EXCEPT !.threw = TRUE]

\* Node k has no child, or the child was found on the path its parent names.
Present(o, k) == k = 0 \/ k \in DOMAIN o.cache

HeightOf(o, k) == IF k = 0 THEN 0 ELSE o.cache[k].height

\* node->height = max(height(left), height(right)) + 1, then WriteNode.  height
\* reads both children; a child that was not found is a null dereference.
SetHeight(o, k) ==
    LET n == o.cache[k]
    IN  WriteNode(o, k, [n EXCEPT !.height =
                            Larger(HeightOf(o, n.left), HeightOf(o, n.right)) + 1])
UpdateHeight(o, k) ==
    LET r == ReadChildren(o, k)
    IN  IF Present(r, r.cache[k].left) /\ Present(r, r.cache[k].right)
        THEN SetHeight(r, k) ELSE Died(r)

getBalance(o, k) == HeightOf(o, o.cache[k].left) - HeightOf(o, o.cache[k].right)

\* The position a parent keeps for child k.
PosOf(o, k) == IF k = 0 THEN 0 ELSE o.cache[k].pos

SetLeft(o, k, c) ==
    [o EXCEPT !.cache[k].left = c, !.cache[k].leftPos = PosOf(o, c)]
SetRight(o, k, c) ==
    [o EXCEPT !.cache[k].right = c, !.cache[k].rightPos = PosOf(o, c)]

\* In a rotation x, y and T2 are in the cache: the heights of the nodes on the way to
\* the key were computed before, and those of their children read for that.
rightRotate(o, y) ==
    LET x == o.cache[y].left
        T2 == o.cache[x].right
    IN  UpdateHeight(UpdateHeight(SetLeft(SetRight(o, x, y), y, T2), y), x)

leftRotateLosing(o, x) ==                                          \* mutant
    LET y == o.cache[x].right
        T2 == o.cache[y].left
    IN  UpdateHeight(UpdateHeight(SetRight(SetLeft(o, y, x), x, 0), x), y)
leftRotate(o, x) ==
    LET y == o.cache[x].right
        T2 == o.cache[y].left
    IN  UpdateHeight(UpdateHeight(SetRight(SetLeft(o, y, x), x, T2), x), y)

\* The four cases of a node k that key was inserted below and whose height is right
\* again, each with the node that is then at the root of the subtree.
Turned(o, k, key) ==
    LET b == getBalance(o, k)
        l == o.cache[k].left
        r == o.cache[k].right
    IN  CASE b > 1 /\ key < l -> <<rightRotate(o, k), l>>
          [] b < -1 /\ key > r -> <<leftRotate(o, k), r>>
          [] b > 1 /\ key > l ->
                <<rightRotate(SetLeft(leftRotate(o, l), k, o.cache[l].right), k), o.cache[l].right>>
          [] b < -1 /\ key < r ->
                <<leftRotate(SetRight(rightRotate(o, r), k, o.cache[r].left), k), o.cache[r].left>>
          [] OTHER -> <<o, k>>

\* The end of insert at node k, whose subtree on the side of key has become sub, a
\* pair of ORAM and root.  A death ends all callers.
rebalance(sub, k, key) ==
    LET u == UpdateHeight(IF key < k THEN SetLeft(sub[1], k, sub[2])
                                     ELSE SetRight(sub[1], k, sub[2]), k)
    IN  CASE sub[1].threw -> sub
          [] ~sub[1].threw /\ u.threw -> <<u, k>>
          [] OTHER -> Turned(u, k, key)

RECURSIVE insertNode(_, _, _, _, _, _)
RECURSIVE insertBelow(_, _, _, _, _)

\* insert(root, pos, key, value): the ORAM and the root of the subtree.  leaf is
\* the one drawn if a node has to be made.  A root that was not found on the path is a
\* null dereference.
insertNode(o, root, pos, key, value, leaf) ==
    IF root = 0 THEN <<WriteNode(o, key, newNode(value, leaf)), key>>
    ELSE insertBelow(ReadNode(o, root, pos), root, key, value, leaf)
insertBelow(o, root, key, value, leaf) ==
    LET node == o.cache[root]
    IN  CASE root \notin DOMAIN o.cache -> <<Died(o), root>>
          [] root \in DOMAIN o.cache /\ key = root ->
                <<WriteNode(o, root, [node EXCEPT !.value = value]), root>>
          [] OTHER ->
                rebalance(IF key < root
                          THEN insertNode(o, node.left, node.leftPos, key, value, leaf)
                          ELSE insertNode(o, node.right, node.rightPos, key, value, leaf), root, key)

RECURSIVE searchNode(_, _, _, _)

\* search, once the node at head was read: the ORAM and the key of the node found, 0
\* when there is none.  A child that is not on the path its parent names counts as
\* missing.
searchBelowCrossed(o, head, key) ==                                \* mutant
    IF head = 0 \/ head \notin DOMAIN o.cache THEN <<o, 0>>
    ELSE LET node == o.cache[head]
         IN  CASE key < head -> searchNode(o, node.left, node.rightPos, key)
               [] key > head -> searchNode(o, node.right, node.rightPos, key)
               [] OTHER -> <<o, head>>
searchBelow(o, head, key) ==
    IF head = 0 \/ head \notin DOMAIN o.cache THEN <<o, 0>>
    ELSE LET node == o.cache[head]
         IN  CASE key < head -> searchNode(o, node.left, node.leftPos, key)
               [] key > head -> searchNode(o, node.right, node.rightPos, key)
               [] OTHER -> <<o, head>>
searchNode(o, head, pos, key) == searchBelow(ReadNode(o, head, pos), head, key)

\* A search that starts at the root, whose node is made by OMAP from rootKey and
\* rootPos: a root that is not found there is a null dereference.
FromRoot(root, w) == IF Present(w[1], root) THEN w ELSE <<Died(w[1]), w[2]>>

RECURSIVE batchSearchNode(_, _, _, _)

\* batchSearch: the ORAM and the values found, a node before its subtrees.  A
\* subtree is visited only when one of the keys may be in it.  found is the pair of
\* the ORAM and what was found before.
batchSearchBelow(found, child, pos, keys) ==
    IF keys = {} THEN found
    ELSE LET b == batchSearchNode(found[1], child, pos, keys) IN <<b[1], found[2] \o b[2]>>
batchSearchHere(o, head, keys) ==
    IF head = 0 \/ head \notin DOMAIN o.cache THEN <<o, << >> >>
    ELSE LET node == o.cache[head]
             own == IF head \in keys THEN <<node.value>> ELSE << >>
         IN  batchSearchBelow(
                 batchSearchBelow(<<o, own>>, node.left, node.leftPos, {k \in keys : k < head}),
                 node.right, node.rightPos, {k \in keys : k > head})
batchSearchNode(o, head, pos, keys) == batchSearchHere(ReadNode(o, head, pos), head, keys)
=============================================================================
