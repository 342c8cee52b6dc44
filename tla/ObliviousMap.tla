---------------------------- MODULE ObliviousMap ----------------------------
(***************************************************************************)
(* Class OMAP: a map from block identifiers to short strings, kept as an   *)
(* AVL tree of ORAM blocks.  One action is one call of OMAP: start the     *)
(* operation, walk the tree, then pad with fake reads, give every node     *)
(* that was read a new random leaf and write the fetched paths back.       *)
(***************************************************************************)
EXTENDS Integers, Sequences, FiniteSets, AVLTree
LOCAL INSTANCE SequencesExt
LOCAL INSTANCE FiniteSetsExt
LOCAL INSTANCE Functions
LOCAL INSTANCE TLC

CONSTANTS
    Keys,       \* positive integers
    Values,     \* what callers store; not the empty string
    Sizes,      \* pairs of Z and the depth floor(log2(maxSize / Z)) a map is made with
    Batches,    \* for each of the sizes the maps that batchInsert may be called with
    Entries,    \* pairs of key and value that insert may be called with
    Queries     \* sets of keys that batchSearch may be called with

ASSUME MapAssumption ==
    /\ Keys \subseteq Nat \ {0}
    /\ 0 \notin Values
    /\ Sizes \subseteq (Nat \ {0}) \X Nat
    /\ Entries \subseteq Keys \X Values
    /\ Queries \subseteq SUBSET Keys
    /\ DOMAIN Batches = Sizes
    /\ \A size \in Sizes : \A pairs \in Batches[size] :
          DOMAIN pairs \subseteq Keys /\ \A k \in DOMAIN pairs : pairs[k] \in Values

VARIABLES
    oram,               \* class ORAM, see module ORAM
    rootKey, rootPos,   \* root of the AVL tree and its leaf
    refused,            \* the process has died: of an exception, which no caller
                        \* catches, or of a null dereference
    outgrown            \* history: the tree was taller than depth + 2, the heights
                        \* that finilize refreshes

vars == <<oram, rootKey, rootPos, refused, outgrown>>

Init ==
    /\ \E size \in Sizes : oram = NewORAM(size[1], size[2])
    /\ rootKey = 0 /\ rootPos = 0
    /\ refused = FALSE
    /\ outgrown = FALSE

\* finishOperation: the states in which an operation can end that has walked to the
\* ORAM w[1], the root being w[2] now.  After a death nothing is finished.
Finished(w, find) ==
    LET end(q) == [oram |-> WriteBack(q), key |-> w[2],
                   pos |-> IF w[2] \in DOMAIN q.cache THEN q.cache[w[2]].pos ELSE rootPos,
                   died |-> FALSE,
                   tall |-> w[2] \in DOMAIN q.cache /\ q.cache[w[2]].height > q.depth + 2]
        ends(f) == {end(Repositioned(f, newPos)) : newPos \in [Moved(f) -> RandomPath(f.depth)]}
    IN  IF w[1].threw
        THEN {[oram |-> oram, key |-> rootKey, pos |-> rootPos, died |-> TRUE, tall |-> FALSE]}
        ELSE UNION {ends(FetchAll(w[1], fakes)) : fakes \in FakeReads(w[1], find)}

EndsIn(states) ==
    \E s \in states :
       /\ oram' = s.oram /\ rootKey' = s.key /\ rootPos' = s.pos
       /\ refused' = s.died
       /\ outgrown' = (outgrown \/ s.tall)

\* The walk of find, and the value it returns; 0 stands for the empty string.
Walk(key) == FromRoot(rootKey, searchNode(start(oram, FALSE), rootKey, rootPos, key))
ValueAt(w) == IF w[2] = 0 THEN 0 ELSE w[1].cache[w[2]].value
found(key) == IF rootKey = 0 THEN 0 ELSE ValueAt(Walk(key))

find(key) ==
    /\ ~refused /\ rootKey # 0
    /\ EndsIn(Finished(<<Walk(key)[1], rootKey>>, TRUE))

insert(key, value) ==
    LET i(leaf) == insertNode(start(oram, FALSE), rootKey, rootPos, key, value, leaf)
    IN  /\ ~refused
        /\ EndsIn(UNION {Finished(i(leaf), FALSE) : leaf \in Leaves(oram.depth)})

\* The pairs are inserted in the order of their keys; the position of the root
\* follows from one to the next.
RECURSIVE InsertAll(_, _, _, _)
InsertAll(w, keys, pairs, leaf) ==
    IF keys = {} \/ w[1].threw THEN w
    ELSE LET k == Min(keys)
         IN  InsertAll(insertNode(w[1], w[2], PosOf(w[1], w[2]), k, pairs[k], leaf[k]),
                       keys \ {k}, pairs, leaf)

\* batchInsert, which is called at the end of the setup, on an empty map.
batchInsert(pairs) ==
    LET i(leaf) == InsertAll(<<start(oram, TRUE), 0>>, DOMAIN pairs, pairs, leaf)
    IN  /\ ~refused /\ rootKey = 0
        /\ EndsIn(UNION {Finished(i(leaf), FALSE) :
                            leaf \in [DOMAIN pairs -> Leaves(oram.depth)]})

\* The walk of batchSearch with the values it returns.
BatchWalk(keys) == FromRoot(rootKey, batchSearchNode(start(oram, FALSE), rootKey, rootPos, keys))

batchSearch(keys) ==
    /\ ~refused
    /\ EndsIn(Finished(<<BatchWalk(keys)[1], rootKey>>, TRUE))

Next ==
    \/ \E key \in Keys : find(key)
    \/ \E entry \in Entries : insert(entry[1], entry[2])
    \/ \E pairs \in Batches[<<oram.Z, oram.depth>>] : batchInsert(pairs)
    \/ \E keys \in Queries : batchSearch(keys)

Spec == Init /\ [][Next]_vars

-----------------------------------------------------------------------------
Buckets == DOMAIN oram.store

\* Every node of an ORAM, in the cache or in a bucket.
NodesOf(o) == FoldFunctionOnSet(LAMBDA bucket, others : others @@ bucket, o.cache, o.store, Buckets)
Nodes == NodesOf(oram)

\* Nodes name keys and leaves that exist, and no bucket holds more than Z.
TypeOK ==
    LET nodes == Nodes
    IN  /\ rootKey \in Keys \cup {0}
        /\ rootPos \in Leaves(oram.depth)
        /\ DOMAIN nodes \subseteq Keys
        /\ \A k \in DOMAIN nodes :
              /\ nodes[k].value \in Values
              /\ {nodes[k].left, nodes[k].right} \subseteq Keys \cup {0}
              /\ {nodes[k].pos, nodes[k].leftPos, nodes[k].rightPos} \subseteq Leaves(oram.depth)
        /\ \A b \in Buckets : Cardinality(DOMAIN oram.store[b]) <= oram.Z
        /\ oram.emptyNodes \in 0..(oram.Z * BucketCount(oram.depth))

\* The properties below speak of a tree that finilize has refreshed in full after
\* every call.  In a taller one, which fits when Z is 4, the nodes at the top keep
\* leaves their children have left: a search stops there with the empty string, an
\* insertion dereferences null, and a path fetched in vain is not written back, so
\* that its nodes are then held twice.

\* Between operations the types are right, a node is in one place, the cache or a
\* bucket on the path to its leaf, and its parent, or OMAP for the root, knows that
\* leaf: each step of a walk fetches the path the next node is on, however the paths
\* were shuffled and whatever was left in the cache, up to a tree of height depth + 2.
OnKnownPath ==
    LET nodes == Nodes
        place(k) == {b \in Buckets : k \in DOMAIN oram.store[b]}
        onPath(k) == {GetNodeOnPath(oram, nodes[k].pos, d) : d \in 0..oram.depth}
        known(k, leaf) == k # 0 => k \in DOMAIN nodes /\ nodes[k].pos = leaf
    IN  /\ TypeOK
        /\ \/ outgrown
           \/ /\ known(rootKey, rootPos)
              /\ \A k \in DOMAIN nodes :
                    /\ IF k \in DOMAIN oram.cache THEN place(k) = {}
                       ELSE Cardinality(place(k)) = 1 /\ place(k) \subseteq onPath(k)
                    /\ known(nodes[k].left, nodes[k].leftPos)
                    /\ known(nodes[k].right, nodes[k].rightPos)

\* The keys of the subtree at k.
RECURSIVE Subtree(_, _)
Subtree(nodes, k) ==
    IF k = 0 THEN {}
    ELSE {k} \cup Subtree(nodes, nodes[k].left) \cup Subtree(nodes, nodes[k].right)

\* The nodes reachable from the root form an AVL tree that has them all: no
\* rotation cuts a subtree off, and the heights that decide the next rotation and
\* the order in which positions are refreshed are right.
Balanced ==
    LET nodes == Nodes
        h(k) == IF k = 0 THEN 0 ELSE nodes[k].height
    IN  \/ outgrown
        \/ /\ Subtree(nodes, rootKey) = DOMAIN nodes
           /\ \A k \in DOMAIN nodes :
                 /\ \A j \in Subtree(nodes, nodes[k].left) : j < k
                 /\ \A j \in Subtree(nodes, nodes[k].right) : j > k
                 /\ nodes[k].height = Larger(h(nodes[k].left), h(nodes[k].right)) + 1
                 /\ h(nodes[k].left) - h(nodes[k].right) \in -1..1

ContentsOf(nodes) == [k \in DOMAIN nodes |-> nodes[k].value]
Contents == ContentsOf(Nodes)

\* In every state the program can be in between two calls, find returns the value
\* the map has under the key, or the empty string; batchSearch returns the value of
\* every key that is present, once; and an insertion leaves the map with the new
\* value under its key and all other keys as they were, however the tree has to be
\* turned for it.  Only a new key, and only in a full tree, ends the process.
CallsAnswered ==
    LET c == Contents
        after(e) == insertNode(start(oram, FALSE), rootKey, rootPos, e[1], e[2], 0)[1]
        full(e) == oram.emptyNodes = 0 /\ e[1] \notin DOMAIN c
        holds(o, e) == IF o.threw THEN full(e) ELSE ContentsOf(NodesOf(o)) = (e[1] :> e[2]) @@ c
    IN  \/ outgrown
        \/ /\ \A key \in Keys : found(key) = IF key \in DOMAIN c THEN c[key] ELSE 0
           /\ \A keys \in Queries :
                 \E s \in SetToSeqs(keys \cap DOMAIN c) :
                    BatchWalk(keys)[2] = [i \in DOMAIN s |-> c[s[i]]]
           /\ \A e \in Entries : holds(after(e), e)

Map == INSTANCE MapSpec WITH m <- Contents, intact <- ~outgrown,
                             Batches <- UNION {Batches[size] : size \in Sizes}

\* The oblivious map implements the map its callers count on, as long as the tree has
\* not outgrown depth + 2: a batch is stored whole, an insertion adds or overwrites
\* one key, no other operation changes the map, none loses a key, and a full tree
\* refuses a new key.
ImplementsMap == Map!Spec
=============================================================================
