------------------------------- MODULE PRFORAM -------------------------------
(***************************************************************************)
(* The path ORAM in which Horus keeps its search entries ("boxes").  There *)
(* is no position map: the caller names the leaf of a box, always the same *)
(* one for the same identifier, so a box is never moved: it is in the      *)
(* stash or in a bucket on the path to its leaf.                           *)
(*                                                                         *)
(* WriteBox reads the leaf to write back to from the box, at every level,  *)
(* also once the box was placed and freed.  What it reads then is undefined*)
(* and modelled as a choice, see FreedPos: the level may be written to     *)
(* another path, over boxes that were not fetched, while the bucket it was *)
(* meant for keeps old copies.                                             *)
(*                                                                         *)
(* The operators take and return the fields of class PRFORAM as a record:  *)
(*   depth, store, emptyNodes   the tree of buckets and the writes left    *)
(*   stash                      boxes at the client                        *)
(*   threw                      an exception has left the operation        *)
(*   damaged                    history: a write to another path has lost  *)
(*                              a box or left an outdated copy             *)
(* A box is [value, pos]; identifiers are positive integers in the order   *)
(* in which the code compares them.  batchRead and batchWrite also ask     *)
(* whether the stash holds a box whose identifier is the leaf; identifiers *)
(* of Horus never are, because their third number is not zero.             *)
(***************************************************************************)
EXTENDS Integers, FiniteSets, Functions

CONSTANT Z   \* boxes in a bucket

ASSUME ZAssumption == Z \in Nat \ {0}

NoBoxes == [k \in {} |-> 0]

\* The map with the entries of f and, for other keys, those of g.
Overlay(f, g) == [k \in DOMAIN f \cup DOMAIN g |-> IF k \in DOMAIN f THEN f[k] ELSE g[k]]

BucketCount(depth) == 2^(depth + 1) - 1

\* The constructor writes empty buckets.
NewPRFORAM(depth) ==
    [depth |-> depth, store |-> [b \in 0..(BucketCount(depth) - 1) |-> NoBoxes],
     emptyNodes |-> Z * BucketCount(depth), stash |-> NoBoxes, threw |-> FALSE, damaged |-> FALSE]

\* The ORAM with new contents, after an exception, and with the history set.
With(o, store, stash, emptyNodes) ==
    [depth |-> o.depth, store |-> store, emptyNodes |-> emptyNodes, stash |-> stash,
     threw |-> FALSE, damaged |-> o.damaged]
Threw(o) ==
    [depth |-> o.depth, store |-> o.store, emptyNodes |-> o.emptyNodes, stash |-> o.stash,
     threw |-> TRUE, damaged |-> o.damaged]
Mark(o, damaged) ==
    [depth |-> o.depth, store |-> o.store, emptyNodes |-> o.emptyNodes, stash |-> o.stash,
     threw |-> o.threw, damaged |-> damaged]

\* Index of the bucket at level d of the path to a leaf.
GetBoxOnPath(o, leaf, d) == 2^d - 1 + leaf \div 2^(o.depth - d)

\* FetchPath for every leaf: adds the boxes on the paths to the stash, from the root
\* down; a box that is there already stays.
FetchPath(o, leafs) ==
    LET nodes == {GetBoxOnPath(o, leaf, d) : leaf \in leafs, d \in 0..o.depth}
        holding(k) == {n \in nodes : k \in DOMAIN o.store[n]}
        first(k) == CHOOSE n \in holding(k) : \A m \in holding(k) : n <= m
        ids == UNION {DOMAIN o.store[n] : n \in nodes}
    IN  With(o, o.store, Overlay(o.stash, [k \in ids |-> o.store[first(k)][k]]), o.emptyNodes)

\* The first Z boxes of the stash whose path goes through bucket node of level d.
GetIntersectingBlocks(o, node, d) ==
    LET valid == {k \in DOMAIN o.stash : GetBoxOnPath(o, o.stash[k].pos, d) = node}
    IN  {k \in valid : Cardinality({j \in valid : j < k}) < Z}

\* WritePath at level d for every leaf; two leaves that share a bucket write it once.
WritePath(o, leafs, d) ==
    LET nodes == {GetBoxOnPath(o, leaf, d) : leaf \in leafs}
        valid == UNION {GetIntersectingBlocks(o, n, d) : n \in nodes}
    IN  With(o, [n \in DOMAIN o.store |-> IF n \in nodes
                                         THEN Restrict(o.stash, GetIntersectingBlocks(o, n, d))
                                         ELSE o.store[n]],
             Restrict(o.stash, DOMAIN o.stash \ valid), o.emptyNodes)

\* The loops that end every operation: the levels from the leaves up, level d for
\* the leaves leafs[d].
WriteBack(o, leafs) ==
    LET after[d \in 0..o.depth] ==
            WritePath(IF d = o.depth THEN o ELSE after[d + 1], leafs[d], d)
    IN  after[0]
AllLevels(o, leafs) == [d \in 0..o.depth |-> leafs]

\* Throws once as many boxes were written as the tree has room for, even where a
\* box overwrites another one.
WriteData(o, bid, box) ==
    IF o.emptyNodes = 0 THEN Threw(o)
    ELSE With(o, o.store, Overlay([b \in {bid} |-> box], o.stash), o.emptyNodes - 1)

ReadData(o, bid) == IF bid \in DOMAIN o.stash THEN o.stash[bid].value ELSE << >>

\* What box->pos can be once the box is freed.  The chunk is as it was, or holds
\* another object of its size by now: a dummy block, all zero, or the copy of a box
\* that was in the stash.
FreedPos(o, pos) == {pos, 0} \cup {o.stash[k].pos : k \in DOMAIN o.stash}

\* The leaves of the levels when box bid goes to leaf pos: its own, from the leaf up
\* to the bucket that takes the box and frees it, then what box->pos happens to be.
Targets(o, bid, pos) ==
    LET kept == WriteBack(o, AllLevels(o, {pos}))
        freed == {d \in 0..o.depth :
                     \E e \in (d + 1)..o.depth : bid \in DOMAIN kept.store[GetBoxOnPath(o, pos, e)]}
    IN  {[d \in 0..o.depth |-> {IF d \in freed THEN at[d] ELSE pos}] : at \in [freed -> FreedPos(o, pos)]}

\* The boxes kept under an identifier: more than one if there are outdated copies.
Copies(o, k) ==
    {o.store[b][k] : b \in {c \in DOMAIN o.store : k \in DOMAIN o.store[c]}}
        \cup {o.stash[j] : j \in DOMAIN o.stash \cap {k}}
Kept(o) == DOMAIN o.stash \cup UNION {DOMAIN o.store[b] : b \in DOMAIN o.store}

\* WriteBox: the outcomes there may be.  Nothing is written back after an exception.
WriteBox(o, bid, value, pos) ==
    LET box == [value |-> value, pos |-> pos]
        w == WriteData(FetchPath(o, {pos}), bid, box)
        kept == WriteBack(w, AllLevels(w, {pos}))
        whole(r) == \A k \in Kept(o) \cup {bid} : Copies(r, k) = IF k = bid THEN {box} ELSE Copies(o, k)
        outcomes == {WriteBack(w, leafs) : leafs \in Targets(w, bid, pos)}
    IN  IF o.threw \/ w.threw THEN {Threw(o)}
        ELSE {Mark(r, o.damaged \/ (r # kept /\ ~whole(r))) : r \in outcomes}

\* batchRead of boxes pos maps to their leaves: the values found, << >> for a box
\* that is not there, and the ORAM with the paths written back.
batchRead(o, pos) ==
    LET f == FetchPath(o, Range(pos))
    IN  <<[bid \in DOMAIN pos |-> ReadData(f, bid)], WriteBack(f, AllLevels(f, Range(pos)))>>

\* batchWrite of values at leaves pos, both by identifier.
batchWrite(o, values, pos) ==
    LET f == FetchPath(o, Range(pos))
        room == Cardinality(DOMAIN values) <= f.emptyNodes
        boxes == [bid \in DOMAIN values |-> [value |-> values[bid], pos |-> pos[bid]]]
    IN  IF ~room THEN Threw(o)
        ELSE WriteBack(With(f, f.store, Overlay(boxes, f.stash), f.emptyNodes - Cardinality(DOMAIN values)),
                       AllLevels(f, Range(pos)))
=============================================================================
