-------------------------------- MODULE ORAM --------------------------------
(***************************************************************************)
(* The path ORAM below the oblivious map: a binary tree of buckets of at   *)
(* most Z blocks at the server, and at the client a cache, which holds the *)
(* blocks fetched by the running operation and, between operations, those  *)
(* that found no room in the tree.  A block is a node of the AVL tree; it  *)
(* lies in the cache or on the path to the leaf it names in pos.           *)
(*                                                                         *)
(* The operators take and return the fields of class ORAM as a record:     *)
(*   Z                          blocks in a bucket (Types.hpp)             *)
(*   depth, store, emptyNodes   the tree of buckets and its free slots     *)
(*   cache                      blocks at the client                       *)
(*   leafList, modified         leaves to write back, nodes to move        *)
(*   readCnt, batchWrite        paths fetched so far, setup mode           *)
(*   threw                      the process has died in the operation, of  *)
(*                              an exception or a null dereference         *)
(* Buckets are encrypted when they are written and decrypted when they are *)
(* read.  A bucket seen before in the same operation is not read again     *)
(* (readviewmap); as its blocks are in the cache by then, reading it again *)
(* would change nothing, and the model has no such list.                   *)
(***************************************************************************)
LOCAL INSTANCE Integers
LOCAL INSTANCE FiniteSets
LOCAL INSTANCE Functions
LOCAL INSTANCE TLC

Leaves(depth) == 0..(2^depth - 1)
BucketCount(depth) == 2^(depth + 1) - 1

\* The paths RandomPath can return: its range ends at (2^depth - 1) / 2.
RandomPath(depth) == 0..((2^depth - 1) \div 2)

\* Index of the bucket at level d of the path to a leaf.
GetNodeOnPath(o, leaf, d) == 2^d - 1 + leaf \div 2^(o.depth - d)

NoBlocks == [k \in {} |-> 0]

NewORAM(Z, depth) ==
    [Z |-> Z, depth |-> depth, store |-> [b \in 0..(BucketCount(depth) - 1) |-> NoBlocks],
     emptyNodes |-> Z * BucketCount(depth), cache |-> NoBlocks,
     leafList |-> {}, modified |-> {}, readCnt |-> 0,
     batchWrite |-> FALSE, threw |-> FALSE]

start(o, batchWrite) == [o EXCEPT !.batchWrite = batchWrite, !.readCnt = 0]

\* The blocks on a path, from the root down; a block that is in the cache, or in
\* a bucket nearer to the root, is not replaced.
Blocks(o, leaf) ==
    LET bucket(d) == o.store[GetNodeOnPath(o, leaf, d)]
        ids == UNION {DOMAIN bucket(d) : d \in 0..o.depth}
        level(k) == CHOOSE d \in 0..o.depth :
                       k \in DOMAIN bucket(d) /\ \A e \in 0..(d - 1) : k \notin DOMAIN bucket(e)
    IN  [k \in ids |-> bucket(level(k))[k]]

FetchPath(o, leaf) ==
    [o EXCEPT !.cache = @ @@ Blocks(o, leaf), !.readCnt = @ + 1]

\* Access for reading: the node, if the path had it, is placed at leaf, whose path is
\* written back later.
Placed(o, bid, leaf) ==
    IF bid \in DOMAIN o.cache
    THEN [o EXCEPT !.cache[bid].pos = leaf, !.leafList = @ \cup {leaf}]
    ELSE o
AccessRead(o, bid, leaf) == Placed(FetchPath(o, leaf), bid, leaf)

Mark(o, bid) == [o EXCEPT !.modified = @ \cup ({bid} \cap DOMAIN o.cache)]

\* ReadNode(bid, leaf, leaf).  The node is then in the cache, unless bid is 0 or
\* no such block is on the path (NULL in the code).
ReadNode(o, bid, leaf) ==
    IF bid = 0 THEN o
    ELSE Mark(IF bid \in DOMAIN o.cache /\ leaf \in o.leafList
              THEN [o EXCEPT !.cache[bid].pos = leaf]
              ELSE AccessRead(o, bid, leaf), bid)

\* WriteData, which throws when the tree has no empty slot left.
WriteData(o, bid, node) ==
    IF o.emptyNodes = 0 THEN [o EXCEPT !.threw = TRUE]
    ELSE [o EXCEPT !.cache = (bid :> node) @@ @, !.emptyNodes = @ - 1,
                   !.leafList = @ \cup {node.pos}]

\* Access for writing; in setup mode the path is not fetched.
AccessWrite(o, bid, node) ==
    WriteData(IF o.batchWrite THEN o ELSE FetchPath(o, node.pos), bid, node)

\* WriteNode: a node in the cache has been changed in place and is only marked.
WriteNode(o, bid, node) ==
    LET w == [o EXCEPT !.modified = @ \cup {bid}]
    IN  IF bid \in DOMAIN o.cache THEN [w EXCEPT !.cache[bid] = node]
                                  ELSE AccessWrite(w, bid, node)

-----------------------------------------------------------------------------
\* finilize.  Fake reads bring the number of fetched paths to 1.45 depth for a
\* search and to 4.35 depth for an insertion, rounded up.
Padding(o, find) ==
    IF o.batchWrite THEN 0 ELSE ((IF find THEN 145 ELSE 435) * o.depth + 99) \div 100

\* The sets of leaves the fake reads may have drawn.
FakeReads(o, find) ==
    {F \in SUBSET RandomPath(o.depth) :
        IF o.readCnt >= Padding(o, find) THEN F = {}
        ELSE F # {} /\ Cardinality(F) <= Padding(o, find) - o.readCnt}

FetchAll(o, leaves) ==
    LET fetched == UNION {DOMAIN Blocks(o, l) : l \in leaves}
        path(k) == CHOOSE l \in leaves : k \in DOMAIN Blocks(o, l)
    IN  [o EXCEPT !.cache = @ @@ [k \in fetched |-> Blocks(o, path(k))[k]],
                  !.leafList = @ \cup leaves]

\* The nodes of the cache whose positions are brought up to date, and those among
\* them that move.  A node of a greater height keeps its leaf, and the leaves it has
\* noted for its children, which may have moved.
RefreshedBelow(o) ==                                               \* mutant
    {k \in DOMAIN o.cache : o.cache[k].height < o.depth + 2}
Refreshed(o) == {k \in DOMAIN o.cache : o.cache[k].height <= o.depth + 2}
Moved(o) == Refreshed(o) \cap o.modified

\* Moved nodes get a new leaf, and refreshed nodes learn those of their children.
\* The code goes through the nodes by height, so children come before parents.
Repositioned(o, newPos) ==
    LET pos(k) == IF k \in Moved(o) THEN newPos[k] ELSE o.cache[k].pos
        old(k) == o.cache[k]
        childPos(c, p) == IF c # 0 /\ c \in DOMAIN o.cache THEN pos(c) ELSE p
    IN  [o EXCEPT !.cache = [k \in DOMAIN o.cache |->
            IF k \in Refreshed(o)
            THEN [old(k) EXCEPT !.pos = pos(k),
                                !.leftPos = childPos(old(k).left, @),
                                !.rightPos = childPos(old(k).right, @)]
            ELSE old(k)]]

\* GetIntersectingBlocks: the first Z blocks of the cache, in the order of the keys,
\* whose path goes through node; home[k] is the bucket of block k at this level.
GetIntersectingBlocks(Z, home, node) ==
    LET valid == {k \in DOMAIN home : home[k] = node}
    IN  IF Cardinality(valid) <= Z THEN valid
        ELSE {k \in valid : Cardinality({j \in valid : j < k}) < Z}

\* WritePath for every leaf of leafList, at level d: each bucket is written once.
WritePath(o, d) ==
    LET home == [k \in DOMAIN o.cache |-> GetNodeOnPath(o, o.cache[k].pos, d)]
        nodes == {GetNodeOnPath(o, l, d) : l \in o.leafList}
        valid == [n \in nodes |-> GetIntersectingBlocks(o.Z, home, n)]
    IN  [o EXCEPT !.store = [n \in nodes |-> Restrict(o.cache, valid[n])] @@ @,
                  !.cache = Restrict(@, DOMAIN @ \ UNION {valid[n] : n \in nodes})]

WriteBackAll(o) ==                                                 \* mutant
    LET after[d \in 0..o.depth] ==
            WritePath(IF d = o.depth THEN o ELSE after[d + 1], d)
    IN  [after[0] EXCEPT !.leafList = {}, !.modified = {}, !.readCnt = 0,
                         !.batchWrite = FALSE, !.cache = NoBlocks]

\* All levels, from the leaves up; what finds no room stays in the cache.  readCnt and
\* batchWrite are set again by start before they are used.
WriteBack(o) ==
    LET after[d \in 0..o.depth] ==
            WritePath(IF d = o.depth THEN o ELSE after[d + 1], d)
    IN  [after[0] EXCEPT !.leafList = {}, !.modified = {}, !.readCnt = 0,
                         !.batchWrite = FALSE]
=============================================================================
