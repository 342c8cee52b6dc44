---------------------------- MODULE HorusProofs ----------------------------
(***************************************************************************)
(* Horus for any keywords and any finite set of documents, every depth of  *)
(* the tree and every pseudorandom function, with setups that do not mix   *)
(* insertions and removals (~SetupMixed): between two calls the box that a *)
(* search needs is where it will look for it, every round of a search      *)
(* narrows the interval of every slot it has not found, and the program    *)
(* implements SetIndex.                                                    *)
(*                                                                         *)
(* The ORAM first: whatever paths are fetched and written back, all copies *)
(* of a box are on the path of its leaf, and as long as no write to        *)
(* another path has damaged the tree (field damaged of PRFORAM) there is   *)
(* one copy, and the contents change only by the boxes that are written.   *)
(* Then one keyword, as numbers and rows of boxes (Good), and what add,    *)
(* remove, search and setup do to it.  Last the invariant of the whole     *)
(* state, and what follows from it.  A damaged tree may hide boxes and     *)
(* show old ones: what is proved of it is that the maps are right and that *)
(* every search still ends.                                                *)
(***************************************************************************)
EXTENDS Horus, FiniteSetTheorems, WellFoundedInduction, TLAPS

-----------------------------------------------------------------------------
\* Induction, by the least counterexample, and arithmetic.

\* A set of naturals that is not empty has a least element.
LEMMA LeastNat ==
    ASSUME NEW T, T \subseteq Nat, T # {}
    PROVE  \E x \in T : \A y \in T : x <= y
<1>1. PICK x \in T : \A y \in T : ~(<<y, x>> \in OpToRel(<, Nat))
  BY NatLessThanWellFounded, WFMin
<1>2. \A y \in T : ~(y < x)
  BY <1>1 DEF OpToRel
<1> QED BY <1>2

\* A set of naturals up to n that is not empty has a greatest element.
LEMMA GreatestUpTo ==
    ASSUME NEW n \in Nat, NEW T, T \subseteq 0..n, T # {}
    PROVE  \E x \in T : \A y \in T : y <= x
<1> DEFINE U == {n - x : x \in T}
<1>1. U \subseteq Nat
  <2>1. \A x \in T : n - x \in Nat
    OBVIOUS
  <2> QED BY <2>1
<1>2. U # {}
  OBVIOUS
<1>3. PICK u \in U : \A y \in U : u <= y
  BY <1>1, <1>2, LeastNat
<1>4. PICK x \in T : u = n - x
  OBVIOUS
<1>5. \A y \in T : n - x <= n - y
  BY <1>3, <1>4
<1> QED BY <1>5

\* A number and its last digit determine each other.
LEMMA LastDigit ==
    ASSUME NEW R \in Nat, NEW x \in Nat, NEW y \in Nat,
           NEW u \in 0..(R - 1), NEW v \in 0..(R - 1), x * R + u = y * R + v
    PROVE  x = y /\ u = v
<1>1. ASSUME NEW p \in Nat, NEW q \in Nat, p < q PROVE q * R >= p * R + R
  <2>1. q >= p + 1
    BY <1>1
  <2>2. q * R >= (p + 1) * R
    BY <2>1
  <2>3. (p + 1) * R = p * R + R
    OBVIOUS
  <2> QED BY <2>2, <2>3
<1>2. x * R \in Nat /\ y * R \in Nat
  OBVIOUS
<1>3. ~(x < y)
  BY <1>1, <1>2
<1>4. ~(y < x)
  BY <1>1, <1>2
<1> QED BY <1>3, <1>4

\* Division takes the last digit off.
LEMMA DropDigit ==
    ASSUME NEW R \in Nat, NEW x \in Nat, NEW u \in 0..(R - 1)
    PROVE  (x * R + u) \div R = x /\ (x * R + u) % R = u
<1> DEFINE k == x * R + u
           q == k \div R
           r == k % R
<1>1. R > 0 /\ k \in Nat
  OBVIOUS
<1>2. q \in Int /\ r \in 0..(R - 1) /\ k = R * q + r
  BY <1>1
<1>3. q \in Nat
  <2> SUFFICES ASSUME q < 0 PROVE FALSE
    BY <1>2
  <2>1. R * q <= R * (-1)
    BY <1>1, <1>2
  <2> QED BY <1>1, <1>2, <2>1
<1>4. q * R + r = x * R + u
  BY <1>2, <1>3
<1> HIDE DEF k, q, r
<1>5. q = x /\ r = u
  BY <1>2, <1>3, <1>4, LastDigit
<1> QED BY <1>5 DEF k, q, r

-----------------------------------------------------------------------------
\* The tree of buckets.
Leaves == 0..(2^Depth - 1)
Buckets == 0..(BucketCount(Depth) - 1)
Node(l, d) == 2^d - 1 + l \div 2^(Depth - d)
Path(l) == {Node(l, d) : d \in 0..Depth}

\* The powers of two.
LEMMA Powers ==
    \A d \in 0..Depth :
        /\ 2^d \in Nat \ {0} /\ 2^(d + 1) = 2 * 2^d /\ 2^Depth = 2^d * 2^(Depth - d)
        /\ \A e \in 0..d : 2^e <= 2^d
<1>1. Depth \in Nat /\ 2^0 = 1 /\ \A d \in 0..Depth : 2^(d + 1) = 2 * 2^d
  BY HorusAssumption, PowerAssumption
<1>2. \A d \in 0..Depth : 2^d \in Nat \ {0}
  <2> DEFINE T == {d \in 0..Depth : 2^d \notin Nat \ {0}}
  <2> SUFFICES ASSUME T # {} PROVE FALSE
    OBVIOUS
  <2>1. PICK x \in T : \A y \in T : x <= y
    <3>1. T \subseteq Nat
      BY <1>1
    <3> HIDE DEF T
    <3> QED BY <3>1, LeastNat
  <2>2. x # 0
    <3>1. 2^0 \in Nat \ {0}
      BY <1>1
    <3> QED BY <3>1
  <2>3. x - 1 \in 0..Depth /\ ~(x <= x - 1) /\ (x - 1) + 1 = x
    BY <1>1, <2>2
  <2>4. 2^(x - 1) \in Nat \ {0}
    BY <2>1, <2>3
  <2>5. 2^((x - 1) + 1) = 2 * 2^(x - 1)
    BY <1>1, <2>3
  <2>6. 2^x = 2 * 2^(x - 1)
    BY <2>3, <2>5
  <2> QED BY <2>4, <2>6
<1>3. ASSUME NEW e \in 0..Depth PROVE \A d \in e..Depth : 2^e <= 2^d
  <2> DEFINE T == {d \in e..Depth : ~(2^e <= 2^d)}
  <2> SUFFICES ASSUME T # {} PROVE FALSE
    OBVIOUS
  <2>1. PICK x \in T : \A y \in T : x <= y
    <3>1. T \subseteq Nat
      BY <1>1
    <3> HIDE DEF T
    <3> QED BY <3>1, LeastNat
  <2>2. x # e
    BY <1>2
  <2>3. x - 1 \in e..Depth /\ ~(x <= x - 1) /\ (x - 1) + 1 = x /\ x - 1 \in 0..Depth
    BY <1>1, <2>2
  <2>4. 2^e <= 2^(x - 1)
    BY <2>1, <2>3
  <2>5. 2^((x - 1) + 1) = 2 * 2^(x - 1)
    BY <1>1, <2>3
  <2>6. 2^x = 2 * 2^(x - 1)
    BY <2>3, <2>5
  <2>7. 2^e \in Nat /\ 2^(x - 1) \in Nat
    BY <1>2, <2>3
  <2> QED BY <2>4, <2>6, <2>7
<1>4. \A d \in 0..Depth : 2^Depth = 2^d * 2^(Depth - d)
  <2> DEFINE T == {d \in 0..Depth : 2^Depth # 2^d * 2^(Depth - d)}
  <2> SUFFICES ASSUME T # {} PROVE FALSE
    OBVIOUS
  <2>1. PICK x \in T : \A y \in T : x <= y
    <3>1. T \subseteq Nat
      BY <1>1
    <3> HIDE DEF T
    <3> QED BY <3>1, LeastNat
  <2>2. x # 0
    <3>1. Depth - 0 = Depth /\ 2^Depth \in Nat
      BY <1>1, <1>2
    <3>2. 2^Depth = 1 * 2^Depth
      BY <3>1
    <3>3. 2^Depth = 2^0 * 2^(Depth - 0)
      BY <1>1, <3>1, <3>2
    <3> QED BY <3>3
  <2>3. /\ x - 1 \in 0..Depth /\ ~(x <= x - 1) /\ (x - 1) + 1 = x
        /\ Depth - x \in 0..Depth /\ Depth - (x - 1) = (Depth - x) + 1
    BY <1>1, <2>2
  <2>4. 2^Depth = 2^(x - 1) * 2^(Depth - (x - 1))
    BY <2>1, <2>3
  <2>5. PICK p, q : p = 2^(x - 1) /\ q = 2^(Depth - x)
    OBVIOUS
  <2>6. p \in Nat /\ q \in Nat
    BY <1>2, <2>3, <2>5
  <2>7. 2^((x - 1) + 1) = 2 * p
    BY <1>1, <2>3, <2>5
  <2>8. 2^((Depth - x) + 1) = 2 * q
    BY <1>1, <2>3, <2>5
  <2>9. 2^x = 2 * p
    BY <2>3, <2>7
  <2>10. 2^Depth = p * (2 * q)
    BY <2>3, <2>4, <2>5, <2>8
  <2>11. p * (2 * q) = (2 * p) * q
    BY <2>6
  <2>12. 2^Depth = 2^x * 2^(Depth - x)
    BY <2>5, <2>9, <2>10, <2>11
  <2> QED BY <2>12
<1>5. ASSUME NEW d \in 0..Depth, NEW e \in 0..d PROVE 2^e <= 2^d
  <2>1. e \in 0..Depth /\ d \in e..Depth
    BY <1>1
  <2> QED BY <1>3, <2>1
<1> QED BY <1>1, <1>2, <1>4, <1>5

\* The quotient of a number below a product.
LEMMA Quotient ==
    ASSUME NEW x \in Nat, NEW a \in Nat, NEW b \in Nat \ {0}, x < a * b
    PROVE  x \div b \in 0..(a - 1)
<1> DEFINE q == x \div b
           r == x % b
<1>1. q \in Int /\ r \in 0..(b - 1) /\ x = b * q + r
  OBVIOUS
<1> HIDE DEF q, r
<1>2. q >= 0
  <2> SUFFICES ASSUME q < 0 PROVE FALSE
    BY <1>1
  <2>1. b * q <= b * (-1)
    BY <1>1
  <2> QED BY <1>1, <2>1
<1>3. q < a
  <2> SUFFICES ASSUME q >= a PROVE FALSE
    BY <1>1
  <2>1. b * q >= b * a /\ b * a = a * b
    BY <1>1
  <2> QED BY <1>1, <2>1
<1> QED BY <1>1, <1>2, <1>3 DEF q

\* The buckets of level d are those from 2^d - 1 on, 2^d of them.
LEMMA NodeFacts ==
    ASSUME NEW l \in Leaves, NEW d \in 0..Depth
    PROVE  /\ Node(l, d) \in Buckets
           /\ Node(l, d) \in (2^d - 1)..(2 * 2^d - 2)
<1> USE HorusAssumption
<1>1. PICK p, q, t : /\ p = 2^d /\ q = 2^(Depth - d) /\ t = 2^Depth
  OBVIOUS
<1>2. Depth - d \in 0..Depth
  OBVIOUS
<1>3. p \in Nat \ {0} /\ q \in Nat \ {0} /\ t \in Nat \ {0} /\ t = p * q /\ p <= t
  BY <1>1, <1>2, Powers
<1>4. l \in Nat /\ l < p * q
  BY <1>1, <1>3 DEF Leaves
<1>5. l \div q \in 0..(p - 1)
  BY <1>3, <1>4, Quotient
<1>6. Node(l, d) = p - 1 + l \div q
  BY <1>1 DEF Node
<1>7. 2^(Depth + 1) = 2 * t
  BY <1>1, Powers
<1> QED BY <1>1, <1>3, <1>5, <1>6, <1>7 DEF Buckets, BucketCount

\* Two levels have no bucket in common.
LEMMA LevelsApart ==
    ASSUME NEW l \in Leaves, NEW m \in Leaves, NEW d \in 0..Depth, NEW e \in 0..Depth,
           Node(l, d) = Node(m, e)
    PROVE  d = e
<1> USE HorusAssumption
<1>1. ASSUME NEW x \in Leaves, NEW y \in Leaves, NEW f \in 0..Depth, NEW g \in 0..Depth, f < g
      PROVE  Node(x, f) # Node(y, g)
  <2>1. f + 1 \in 0..g
    BY <1>1
  <2>2. 2^f \in Nat /\ 2^g \in Nat /\ 2 * 2^f <= 2^g
    BY <2>1, Powers
  <2> QED BY <2>2, NodeFacts
<1> QED BY <1>1

-----------------------------------------------------------------------------
\* The ORAM: maps of boxes, and the fields.
BoxMap(f) ==
    /\ DOMAIN f \subseteq Nat /\ IsFiniteSet(DOMAIN f)
    /\ \A k \in DOMAIN f : f[k].pos \in Leaves
IsORAM(o) ==
    /\ o.depth = Depth /\ o.threw = FALSE /\ o.emptyNodes \in Nat
    /\ BoxMap(o.stash)
    /\ DOMAIN o.store = Buckets
    /\ \A b \in Buckets : BoxMap(o.store[b]) /\ Cardinality(DOMAIN o.store[b]) <= Z

\* At most Z numbers of a finite set have fewer than Z smaller ones in it.
LEMMA FirstZ ==
    ASSUME NEW S, S \subseteq Nat, IsFiniteSet(S)
    PROVE  LET T == {k \in S : Cardinality({j \in S : j < k}) < Z}
           IN  IsFiniteSet(T) /\ Cardinality(T) <= Z
<1> DEFINE Below(k) == {j \in S : j < k}
           T == {k \in S : Cardinality(Below(k)) < Z}
           f == [k \in T |-> Cardinality(Below(k))]
<1> USE ZAssumption
<1>1. \A k : IsFiniteSet(Below(k)) /\ Cardinality(Below(k)) \in Nat
  <2> TAKE k
  <2>1. Below(k) \in SUBSET S
    OBVIOUS
  <2> QED BY <2>1, FS_Subset, FS_CardinalityType
<1>2. ASSUME NEW k \in S, NEW m \in S, k < m PROVE Cardinality(Below(k)) < Cardinality(Below(m))
  <2>1. k \in Nat /\ m \in Nat /\ \A j \in S : j \in Nat
    OBVIOUS
  <2>2. Below(k) \in SUBSET Below(m) /\ k \in Below(m) /\ k \notin Below(k)
    <3>1. (\A j \in S : j < k => j < m) /\ ~(k < k)
      BY <1>2, <2>1
    <3> QED BY <1>2, <3>1, Zenon
  <2>3. Cardinality(Below(k)) <= Cardinality(Below(m)) /\ Cardinality(Below(m)) # Cardinality(Below(k))
    <3> HIDE DEF Below
    <3> QED BY <1>1, <2>2, FS_Subset
  <2> QED BY <1>1, <2>3
<1>3. f \in [T -> 0..(Z - 1)]
  <2>1. \A k \in T : Cardinality(Below(k)) \in 0..(Z - 1)
    BY <1>1
  <2> QED BY <2>1
<1>4. \A k, m \in T : f[k] = f[m] => k = m
  <2> SUFFICES ASSUME NEW k \in T, NEW m \in T, k # m PROVE f[k] # f[m]
    OBVIOUS
  <2>1. k \in Nat /\ m \in Nat /\ f[k] = Cardinality(Below(k)) /\ f[m] = Cardinality(Below(m))
    OBVIOUS
  <2>2. k < m \/ m < k
    BY <2>1
  <2>3. f[k] < f[m] \/ f[m] < f[k]
    BY <1>2, <2>1, <2>2
  <2> QED BY <1>1, <2>1, <2>3
<1>5. f \in Injection(T, 0..(Z - 1))
  BY <1>3, <1>4 DEF Injection, IsInjective
<1>6. IsFiniteSet(0..(Z - 1)) /\ Cardinality(0..(Z - 1)) = Z
  BY FS_Interval
<1> HIDE DEF f, T
<1>7. IsFiniteSet(T) /\ Cardinality(T) <= Z
  BY <1>5, <1>6, FS_Injection
<1> QED BY <1>7 DEF T

\* The fields after an assignment to three of them, and after an exception.
LEMMA WithFields ==
    ASSUME NEW o, NEW x, NEW y, NEW n
    PROVE  /\ With(o, x, y, n).depth = o.depth /\ With(o, x, y, n).store = x
           /\ With(o, x, y, n).stash = y /\ With(o, x, y, n).emptyNodes = n
           /\ With(o, x, y, n).threw = FALSE /\ With(o, x, y, n).damaged = o.damaged
           /\ Threw(o).threw = TRUE
BY DEF With, Threw

\* What GetIntersectingBlocks picks.
LEMMA FitFacts ==
    ASSUME NEW o, o.depth = Depth, BoxMap(o.stash), NEW n, NEW d \in 0..Depth
    PROVE  LET F == GetIntersectingBlocks(o, n, d)
           IN  /\ F \subseteq DOMAIN o.stash /\ IsFiniteSet(F) /\ Cardinality(F) <= Z
               /\ \A k \in F : Node(o.stash[k].pos, d) = n
<1> DEFINE V == {k \in DOMAIN o.stash : GetBoxOnPath(o, o.stash[k].pos, d) = n}
           F == GetIntersectingBlocks(o, n, d)
<1>1. o.depth = Depth /\ BoxMap(o.stash)
  OBVIOUS
<1>2. V \in SUBSET DOMAIN o.stash /\ V \subseteq Nat /\ IsFiniteSet(V)
  BY <1>1, FS_Subset DEF BoxMap
<1>3. F = {k \in V : Cardinality({j \in V : j < k}) < Z}
  BY DEF GetIntersectingBlocks
<1>4. \A k \in V : Node(o.stash[k].pos, d) = n
  BY <1>1 DEF GetBoxOnPath, Node
<1> HIDE DEF V, F
<1>5. IsFiniteSet(F) /\ Cardinality(F) <= Z
  BY <1>2, <1>3, FirstZ
<1> QED BY <1>2, <1>3, <1>4, <1>5 DEF F

\* The fields after one level was written.
NodesAt(leafs, d) == {Node(l, d) : l \in leafs}

\* One level is written: its buckets on the paths take the boxes that fit, which leave
\* the stash, and nothing else changes.
Wrote(o, leafs, d, r) ==
    /\ r.depth = Depth /\ r.threw = FALSE /\ r.emptyNodes = o.emptyNodes /\ r.damaged = o.damaged
    /\ DOMAIN r.store = DOMAIN o.store
    /\ \A b \in DOMAIN o.store : b \notin NodesAt(leafs, d) => r.store[b] = o.store[b]
    /\ \A b \in DOMAIN o.store : b \in NodesAt(leafs, d) =>
          /\ DOMAIN r.store[b] = GetIntersectingBlocks(o, b, d)
          /\ \A k \in DOMAIN r.store[b] : r.store[b][k] = o.stash[k]
    /\ \A k : k \in DOMAIN r.stash <=>
                 /\ k \in DOMAIN o.stash
                 /\ \A n \in NodesAt(leafs, d) : k \notin GetIntersectingBlocks(o, n, d)
    /\ \A k \in DOMAIN r.stash : r.stash[k] = o.stash[k]

\* WritePath fills the buckets of one level from the stash, and takes from the stash what it put there.
LEMMA WritePathFields ==
    ASSUME NEW o, o.depth = Depth, NEW leafs, NEW d, NEW r, r = WritePath(o, leafs, d)
    PROVE  Wrote(o, leafs, d, r)
<1> DEFINE nodes == NodesAt(leafs, d)
           Fit(n) == GetIntersectingBlocks(o, n, d)
           st == [b \in DOMAIN o.store |-> IF b \in nodes THEN Restrict(o.stash, Fit(b)) ELSE o.store[b]]
           out == UNION {Fit(n) : n \in nodes}
           sh == Restrict(o.stash, DOMAIN o.stash \ out)
<1>1. {GetBoxOnPath(o, l, d) : l \in leafs} = nodes
  BY DEF GetBoxOnPath, Node, NodesAt
<1>2. r = With(o, st, sh, o.emptyNodes)
  BY <1>1 DEF WritePath
<1> HIDE DEF nodes, Fit
<1>3. /\ DOMAIN st = DOMAIN o.store
      /\ \A b \in DOMAIN o.store : b \in nodes => st[b] = [k \in Fit(b) |-> o.stash[k]]
      /\ \A b \in DOMAIN o.store : b \notin nodes => st[b] = o.store[b]
  BY DEF Restrict
<1>4. /\ DOMAIN sh = DOMAIN o.stash \ out
      /\ \A k \in DOMAIN sh : sh[k] = o.stash[k]
  BY DEF Restrict
<1>5. \A k : k \in out <=> \E n \in nodes : k \in Fit(n)
  BY Zenon
<1> HIDE DEF st, sh, out
<1>6. /\ r.store = st /\ r.stash = sh /\ r.depth = Depth /\ r.threw = FALSE /\ r.emptyNodes = o.emptyNodes
      /\ r.damaged = o.damaged
  BY <1>2 DEF With
<1>7. /\ DOMAIN r.store = DOMAIN o.store
      /\ \A b \in DOMAIN o.store : b \notin nodes => r.store[b] = o.store[b]
      /\ \A b \in DOMAIN o.store : b \in nodes =>
            /\ DOMAIN r.store[b] = Fit(b)
            /\ \A k \in DOMAIN r.store[b] : r.store[b][k] = o.stash[k]
  BY <1>3, <1>6
<1>8. /\ \A k : k \in DOMAIN r.stash <=> k \in DOMAIN o.stash /\ \A n \in nodes : k \notin Fit(n)
      /\ \A k \in DOMAIN r.stash : r.stash[k] = o.stash[k]
  BY <1>4, <1>5, <1>6
<1> HIDE DEF With
<1> QED BY <1>6, <1>7, <1>8 DEF Wrote, nodes, Fit

-----------------------------------------------------------------------------
\* WriteBack: the levels one after the other.

\* f is the recursion of WriteBack, from the leaves up to level n.
IsChain(f, o, leafs, n) ==
    /\ DOMAIN f = n..Depth
    /\ \A d \in n..Depth : f[d] = WritePath(IF d = Depth THEN o ELSE f[d + 1], leafs[d], d)

\* The recursion that defines WriteBack has a solution from every level down.
LEMMA ChainExists ==
    ASSUME NEW o, NEW leafs, NEW n \in 0..Depth
    PROVE  \E f : IsChain(f, o, leafs, n)
<1> USE HorusAssumption
<1> DEFINE Chain(f, m) ==
              /\ DOMAIN f = m..Depth
              /\ \A d \in m..Depth : f[d] = WritePath(IF d = Depth THEN o ELSE f[d + 1], leafs[d], d)
           T == {m \in 0..Depth : ~ \E f : Chain(f, m)}
<1>1. \E f : Chain(f, Depth)
  <2> DEFINE f == [d \in Depth..Depth |-> WritePath(o, leafs[d], d)]
  <2>1. Chain(f, Depth)
    OBVIOUS
  <2> QED BY <2>1
<1>2. ASSUME NEW m \in 0..(Depth - 1), NEW f, Chain(f, m + 1) PROVE \E g : Chain(g, m)
  <2> DEFINE g == [d \in m..Depth |-> IF d = m THEN WritePath(f[m + 1], leafs[m], m) ELSE f[d]]
  <2>1. DOMAIN g = m..Depth
    OBVIOUS
  <2>2. ASSUME NEW d \in m..Depth PROVE g[d] = WritePath(IF d = Depth THEN o ELSE g[d + 1], leafs[d], d)
    <3>1. CASE d = m
      <4>1. g[m] = WritePath(f[m + 1], leafs[m], m) /\ g[m + 1] = f[m + 1] /\ m # Depth
        OBVIOUS
      <4> HIDE DEF g
      <4> QED BY <3>1, <4>1
    <3>2. CASE d # m
      <4>1. d \in (m + 1)..Depth /\ g[d] = f[d] /\ (d # Depth => g[d + 1] = f[d + 1])
        BY <3>2
      <4>2. f[d] = WritePath(IF d = Depth THEN o ELSE f[d + 1], leafs[d], d)
        BY <1>2, <4>1
      <4> HIDE DEF g
      <4> QED BY <4>1, <4>2
    <3> QED BY <3>1, <3>2
  <2> HIDE DEF g
  <2>3. Chain(g, m)
    BY <2>1, <2>2
  <2> QED BY <2>3
<1> HIDE DEF Chain
<1>3. T = {}
  <2> SUFFICES ASSUME T # {} PROVE FALSE
    OBVIOUS
  <2>1. PICK x \in T : \A y \in T : y <= x
    BY GreatestUpTo
  <2>2. x \in 0..Depth /\ x # Depth
    BY <1>1
  <2>3. x + 1 \in 0..Depth /\ x + 1 \notin T /\ x \in 0..(Depth - 1)
    BY <2>1, <2>2
  <2>4. PICK f : Chain(f, x + 1)
    BY <2>3
  <2> QED BY <1>2, <2>3, <2>4
<1> QED BY <1>3 DEF Chain, IsChain

\* WriteBack writes the levels from the leaves to the root.
LEMMA WriteBackChain ==
    ASSUME NEW o, o.depth = Depth, NEW leafs
    PROVE  \E f : WriteBack(o, leafs) = f[0] /\ IsChain(f, o, leafs, 0)
<1> USE HorusAssumption
<1> DEFINE Is(f) == f = [d \in 0..Depth |-> WritePath(IF d = Depth THEN o ELSE f[d + 1], leafs[d], d)]
           after == CHOOSE f : Is(f)
<1>1. PICK f : IsChain(f, o, leafs, 0)
  <2>1. 0 \in 0..Depth
    OBVIOUS
  <2> QED BY <2>1, ChainExists, Zenon
<1>2. \E g : Is(g)
  <2> DEFINE h == [d \in 0..Depth |-> f[d]]
  <2>1. \A d \in 0..Depth : d # Depth => d + 1 \in 0..Depth
    OBVIOUS
  <2>2. \A d \in 0..Depth : h[d] = WritePath(IF d = Depth THEN o ELSE h[d + 1], leafs[d], d)
    BY <1>1, <2>1 DEF IsChain
  <2>3. Is(h)
    BY <2>2
  <2> QED BY <2>3
<1>3. Is(after)
  BY <1>2
<1>4. WriteBack(o, leafs) = after[0]
  BY DEF WriteBack
<1> HIDE DEF after
<1>5. IsChain(after, o, leafs, 0)
  BY <1>3 DEF IsChain
<1> QED BY <1>4, <1>5

\* The leaves to write back to, level by level.
Plans == [0..Depth -> SUBSET Leaves]

\* The ORAM h while the levels from d down are written: boxes of the stash of g
\* are in the stash still or in one bucket written, which lies on their path; the
\* buckets that are not written are as they were.
Written(leafs, d) == {b \in Buckets : \E e \in d..Depth : \E l \in leafs[e] : b = Node(l, e)}
Level(g, h, leafs, d) ==
    /\ h.depth = Depth /\ h.threw = FALSE /\ h.emptyNodes = g.emptyNodes /\ h.damaged = g.damaged
    /\ DOMAIN h.store = Buckets
    /\ DOMAIN h.stash \subseteq DOMAIN g.stash
    /\ \A k \in DOMAIN h.stash : h.stash[k] = g.stash[k]
    /\ \A b \in Buckets \ Written(leafs, d) : h.store[b] = g.store[b]
    /\ \A b \in Written(leafs, d) :
          /\ DOMAIN h.store[b] \subseteq DOMAIN g.stash \ DOMAIN h.stash
          /\ IsFiniteSet(DOMAIN h.store[b]) /\ Cardinality(DOMAIN h.store[b]) <= Z
          /\ \A k \in DOMAIN h.store[b] : h.store[b][k] = g.stash[k] /\ b \in Path(g.stash[k].pos)
    /\ \A b, c \in Written(leafs, d) : \A k \in DOMAIN h.store[b] : k \in DOMAIN h.store[c] => b = c
    /\ \A k \in DOMAIN g.stash :
          k \in DOMAIN h.stash \/ \E b \in Written(leafs, d) : k \in DOMAIN h.store[b]

\* The buckets of one level more.
LEMMA OneMore ==
    ASSUME NEW leafs \in Plans, NEW d \in 0..Depth
    PROVE  LET nodes == NodesAt(leafs[d], d)
           IN  /\ Written(leafs, d) = Written(leafs, d + 1) \cup nodes
               /\ Written(leafs, d + 1) \cap nodes = {}
               /\ Written(leafs, d) \subseteq Buckets
<1> USE HorusAssumption
<1> DEFINE nodes == NodesAt(leafs[d], d)
<1>1. d..Depth = ((d + 1)..Depth) \cup {d}
  OBVIOUS
<1>2. Written(leafs, d) = Written(leafs, d + 1) \cup nodes
  <2>1. nodes \subseteq Buckets
    <3>1. leafs[d] \subseteq Leaves
      BY DEF Plans
    <3> QED BY <3>1, NodeFacts DEF NodesAt
  <2> QED BY <1>1, <2>1, Zenon DEF Written, NodesAt
<1>3. ASSUME NEW e \in (d + 1)..Depth, NEW l \in leafs[e], NEW m \in leafs[d] PROVE Node(l, e) # Node(m, d)
  <2>1. e \in 0..Depth /\ e # d /\ l \in Leaves /\ m \in Leaves
    BY DEF Plans
  <2> QED BY <2>1, LevelsApart
<1>4. Written(leafs, d + 1) \cap nodes = {}
  BY <1>3, Zenon DEF Written, NodesAt
<1> QED BY <1>2, <1>4, Zenon DEF Written

\* Nothing is written before the first level.
LEMMA LevelStart ==
    ASSUME NEW g, IsORAM(g), NEW leafs \in Plans
    PROVE  Level(g, g, leafs, Depth + 1)
<1>1. Written(leafs, Depth + 1) = {}
  <2>1. (Depth + 1)..Depth = {}
    BY HorusAssumption
  <2> QED BY <2>1 DEF Written
<1> QED BY <1>1 DEF Level, IsORAM

\* Writing one level.
LEMMA LevelStep ==
    ASSUME NEW g, IsORAM(g), NEW leafs \in Plans, NEW d \in 0..Depth,
           NEW h, Level(g, h, leafs, d + 1)
    PROVE  Level(g, WritePath(h, leafs[d], d), leafs, d)
<1>0. PICK L, r : L = leafs[d] /\ r = WritePath(h, L, d)
  OBVIOUS
<1> DEFINE nodes == NodesAt(L, d)
           Fit(n) == GetIntersectingBlocks(h, n, d)
           out == {k \in DOMAIN h.stash : \E n \in nodes : k \in Fit(n)}
           before == Written(leafs, d + 1)
           now == Written(leafs, d)
<1>1. /\ now = before \cup nodes /\ before \cap nodes = {} /\ now \subseteq Buckets
  BY <1>0, OneMore
<1>2. /\ h.depth = Depth /\ h.threw = FALSE /\ h.emptyNodes = g.emptyNodes /\ h.damaged = g.damaged
      /\ DOMAIN h.store = Buckets
      /\ DOMAIN h.stash \subseteq DOMAIN g.stash
      /\ \A k \in DOMAIN h.stash : h.stash[k] = g.stash[k]
  BY DEF Level
<1>3. BoxMap(h.stash)
  BY <1>2, FS_Subset DEF IsORAM, BoxMap
<1>4. /\ r.depth = Depth /\ r.threw = FALSE /\ r.emptyNodes = h.emptyNodes /\ r.damaged = h.damaged
      /\ DOMAIN r.store = DOMAIN h.store
      /\ \A b \in DOMAIN h.store : b \notin nodes => r.store[b] = h.store[b]
      /\ \A b \in DOMAIN h.store : b \in nodes =>
            /\ DOMAIN r.store[b] = Fit(b)
            /\ \A k \in DOMAIN r.store[b] : r.store[b][k] = h.stash[k]
      /\ \A k : k \in DOMAIN r.stash <=> k \in DOMAIN h.stash /\ \A n \in nodes : k \notin Fit(n)
      /\ \A k \in DOMAIN r.stash : r.stash[k] = h.stash[k]
  <2>1. Wrote(h, L, d, r)
    BY <1>0, <1>2, WritePathFields
  <2> QED BY <1>2, <2>1 DEF Wrote
<1>5. \A n : /\ Fit(n) \subseteq DOMAIN h.stash /\ IsFiniteSet(Fit(n)) /\ Cardinality(Fit(n)) <= Z
             /\ \A k \in Fit(n) : Node(h.stash[k].pos, d) = n
  BY <1>2, <1>3, FitFacts
<1> HIDE DEF Fit, nodes, before, now
<1>6. /\ DOMAIN r.stash = DOMAIN h.stash \ out
      /\ \A k \in DOMAIN r.stash : r.stash[k] = h.stash[k]
  BY <1>4
<1>7. \A b \in nodes : /\ DOMAIN r.store[b] = Fit(b)
                       /\ \A k \in Fit(b) : r.store[b][k] = h.stash[k]
  BY <1>1, <1>2, <1>4
<1>8. \A b \in Buckets \ nodes : r.store[b] = h.store[b]
  BY <1>2, <1>4
<1>9. /\ DOMAIN r.stash \subseteq DOMAIN g.stash
      /\ \A k \in DOMAIN r.stash : r.stash[k] = g.stash[k]
  BY <1>2, <1>6
<1>10. \A b \in Buckets \ now : r.store[b] = g.store[b]
  BY <1>1, <1>8 DEF Level, before
<1>11. ASSUME NEW b \in now
       PROVE  /\ DOMAIN r.store[b] \subseteq DOMAIN g.stash \ DOMAIN r.stash
              /\ IsFiniteSet(DOMAIN r.store[b]) /\ Cardinality(DOMAIN r.store[b]) <= Z
              /\ \A k \in DOMAIN r.store[b] : r.store[b][k] = g.stash[k] /\ b \in Path(g.stash[k].pos)
  <2>1. CASE b \in nodes
    <3>1. \A k \in Fit(b) : k \in out
      BY <1>5, <2>1
    <3>2. \A k \in Fit(b) : b \in Path(h.stash[k].pos)
      BY <1>5 DEF Path
    <3> HIDE DEF out
    <3> QED BY <1>2, <1>5, <1>6, <1>7, <2>1, <3>1, <3>2
  <2>2. CASE b \in before
    <3>1. /\ DOMAIN h.store[b] \subseteq DOMAIN g.stash \ DOMAIN h.stash
          /\ IsFiniteSet(DOMAIN h.store[b]) /\ Cardinality(DOMAIN h.store[b]) <= Z
          /\ \A k \in DOMAIN h.store[b] : h.store[b][k] = g.stash[k] /\ b \in Path(g.stash[k].pos)
      BY <2>2, Zenon DEF Level, before
    <3>2. r.store[b] = h.store[b]
      BY <1>1, <1>8, <2>2
    <3> QED BY <1>6, <3>1, <3>2
  <2> QED BY <1>1, <2>1, <2>2
<1>12. ASSUME NEW b \in now, NEW c \in now, NEW k \in DOMAIN r.store[b], k \in DOMAIN r.store[c]
       PROVE  b = c
  <2>1. ASSUME NEW x \in nodes, NEW y \in nodes, NEW j \in DOMAIN r.store[x], j \in DOMAIN r.store[y]
        PROVE  x = y
    <3>1. j \in Fit(x) /\ j \in Fit(y)
      BY <1>7, <2>1
    <3> QED BY <1>5, <3>1
  <2>2. ASSUME NEW x \in nodes, NEW y \in before, NEW j \in DOMAIN r.store[x], j \in DOMAIN r.store[y]
        PROVE  FALSE
    <3>1. j \in DOMAIN h.stash
      BY <1>5, <1>7, <2>2
    <3>2. j \in DOMAIN h.store[y]
      BY <1>1, <1>8, <2>2
    <3> QED BY <3>1, <3>2 DEF Level, before
  <2>3. ASSUME NEW x \in before, NEW y \in before, NEW j \in DOMAIN r.store[x], j \in DOMAIN r.store[y]
        PROVE  x = y
    <3>1. j \in DOMAIN h.store[x] /\ j \in DOMAIN h.store[y]
      BY <1>1, <1>8, <2>3
    <3> QED BY <3>1 DEF Level, before
  <2> QED BY <1>1, <1>12, <2>1, <2>2, <2>3
<1>13. ASSUME NEW k \in DOMAIN g.stash
       PROVE  k \in DOMAIN r.stash \/ \E b \in now : k \in DOMAIN r.store[b]
  <2>1. CASE k \in DOMAIN h.stash /\ k \notin out
    BY <1>6, <2>1
  <2>2. CASE k \in out
    <3>1. PICK n \in nodes : k \in Fit(n)
      BY <2>2
    <3> QED BY <1>1, <1>7, <3>1
  <2>3. CASE k \notin DOMAIN h.stash
    <3>1. PICK b \in before : k \in DOMAIN h.store[b]
      BY <2>3 DEF Level, before
    <3> QED BY <1>1, <1>8, <3>1
  <2> QED BY <2>1, <2>2, <2>3
<1>14. Level(g, r, leafs, d)
  BY <1>2, <1>4, <1>9, <1>10, <1>11, <1>12, <1>13, Zenon DEF Level, now
<1> QED BY <1>0, <1>14

\* WriteBack writes all levels.
LEMMA WriteBackLevel ==
    ASSUME NEW g, IsORAM(g), NEW leafs \in Plans
    PROVE  Level(g, WriteBack(g, leafs), leafs, 0)
<1> USE HorusAssumption
<1>1. PICK f : WriteBack(g, leafs) = f[0] /\ IsChain(f, g, leafs, 0)
  BY WriteBackChain DEF IsORAM
<1>2. f[Depth] = WritePath(g, leafs[Depth], Depth) /\ \A d \in 0..(Depth - 1) : f[d] = WritePath(f[d + 1], leafs[d], d)
  BY <1>1 DEF IsChain
<1> DEFINE T == {d \in 0..Depth : ~Level(g, f[d], leafs, d)}
<1>3. Depth \notin T
  BY <1>2, LevelStart, LevelStep
<1>4. T = {}
  <2> SUFFICES ASSUME T # {} PROVE FALSE
    OBVIOUS
  <2>1. PICK x \in T : \A y \in T : y <= x
    BY GreatestUpTo
  <2>2. x \in 0..(Depth - 1) /\ x + 1 \in 0..Depth /\ x + 1 \notin T
    BY <1>3, <2>1
  <2>3. Level(g, f[x + 1], leafs, x + 1)
    BY <2>2
  <2>4. Level(g, f[x], leafs, x)
    BY <1>2, <2>2, <2>3, LevelStep
  <2> QED BY <2>1, <2>4
<1> QED BY <1>1, <1>4

-----------------------------------------------------------------------------
\* What the ORAM holds.  A box may be held in several places; one in a bucket is on its
\* path.  The boxes agree if those of one identifier are all the same.
HasBox(o, k, c) ==
    \/ k \in DOMAIN o.stash /\ c = o.stash[k]
    \/ \E b \in Buckets : k \in DOMAIN o.store[b] /\ c = o.store[b][k]
OnPath(o) == \A b \in Buckets : \A k \in DOMAIN o.store[b] : b \in Path(o.store[b][k].pos)
Laid(o) == IsORAM(o) /\ OnPath(o)
Agree(o) == \A k, c, e : HasBox(o, k, c) /\ HasBox(o, k, e) => c = e
OK(o) == Laid(o) /\ Agree(o)

\* The boxes, wherever they are.
Contents(o) == [k \in Kept(o) |-> CHOOSE c : HasBox(o, k, c)]

\* The identifiers that are kept are those there is a box of.
LEMMA KeptHas ==
    ASSUME NEW o, DOMAIN o.store = Buckets
    PROVE  \A k : k \in Kept(o) <=> \E c : HasBox(o, k, c)
<1>1. \A k : k \in Kept(o) <=> k \in DOMAIN o.stash \/ \E b \in Buckets : k \in DOMAIN o.store[b]
  BY DEF Kept
<1> QED BY <1>1 DEF HasBox

\* The boxes that Copies names.
LEMMA CopiesAre ==
    ASSUME NEW o, DOMAIN o.store = Buckets, NEW k, NEW c
    PROVE  c \in Copies(o, k) <=> HasBox(o, k, c)
<1>1. c \in {o.store[b][k] : b \in {e \in Buckets : k \in DOMAIN o.store[e]}}
         <=> \E b \in Buckets : k \in DOMAIN o.store[b] /\ c = o.store[b][k]
  OBVIOUS
<1>2. c \in {o.stash[j] : j \in DOMAIN o.stash \cap {k}} <=> k \in DOMAIN o.stash /\ c = o.stash[k]
  OBVIOUS
<1> QED BY <1>1, <1>2 DEF Copies, HasBox

\* A box has a number and a leaf.
LEMMA BoxIsTyped ==
    ASSUME NEW o, IsORAM(o), NEW k, NEW c, HasBox(o, k, c)
    PROVE  k \in Nat /\ c.pos \in Leaves
BY DEF IsORAM, BoxMap, HasBox

\* What the contents are where the boxes agree.
LEMMA ContentsFacts ==
    ASSUME NEW o, OK(o)
    PROVE  /\ DOMAIN Contents(o) = Kept(o)
           /\ \A k, c : HasBox(o, k, c) <=> k \in Kept(o) /\ c = Contents(o)[k]
<1>1. \A k : k \in Kept(o) <=> \E c : HasBox(o, k, c)
  BY KeptHas DEF OK, Laid, IsORAM
<1>2. DOMAIN Contents(o) = Kept(o)
  BY DEF Contents
<1>3. ASSUME NEW k \in Kept(o) PROVE HasBox(o, k, Contents(o)[k])
  <2>1. PICK c : HasBox(o, k, c)
    BY <1>1
  <2> HIDE DEF HasBox
  <2>2. HasBox(o, k, CHOOSE e : HasBox(o, k, e))
    BY <2>1, Zenon
  <2>3. Contents(o)[k] = CHOOSE e : HasBox(o, k, e)
    BY DEF Contents
  <2> QED BY <2>2, <2>3
<1> QED BY <1>1, <1>2, <1>3 DEF OK, Agree

\* There are finitely many buckets.
LEMMA BucketsFinite == IsFiniteSet(Buckets)
<1>1. Depth \in Nat /\ Depth \in 0..Depth
  BY HorusAssumption
<1>2. BucketCount(Depth) - 1 \in Int
  BY <1>1, Powers DEF BucketCount
<1> QED BY <1>2, FS_Interval DEF Buckets

\* There are finitely many boxes.
LEMMA KeptFinite ==
    ASSUME NEW o, IsORAM(o)
    PROVE  IsFiniteSet(Kept(o)) /\ Kept(o) \subseteq Nat
<1>1. /\ BoxMap(o.stash) /\ DOMAIN o.store = Buckets
      /\ \A b \in Buckets : BoxMap(o.store[b])
  BY DEF IsORAM
<1> DEFINE D == {DOMAIN o.store[b] : b \in Buckets}
<1>2. IsFiniteSet(D)
  <2> DEFINE f == [b \in Buckets |-> DOMAIN o.store[b]]
  <2>1. f \in Surjection(Buckets, D)
    BY DEF Surjection
  <2> QED BY <2>1, BucketsFinite, FS_Surjection
<1>3. \A T \in D : IsFiniteSet(T)
  BY <1>1 DEF BoxMap
<1>4. IsFiniteSet(UNION D)
  BY <1>2, <1>3, FS_UNION
<1>5. IsFiniteSet(Kept(o))
  BY <1>1, <1>4, FS_Union DEF Kept, BoxMap
<1>6. Kept(o) \subseteq Nat
  BY <1>1, KeptHas, BoxIsTyped
<1> QED BY <1>5, <1>6

\* All boxes together are a map of boxes.
LEMMA ContentsMap ==
    ASSUME NEW o, OK(o)
    PROVE  BoxMap(Contents(o))
<1>1. IsORAM(o) /\ DOMAIN Contents(o) = Kept(o) /\ \A k \in Kept(o) : HasBox(o, k, Contents(o)[k])
  BY ContentsFacts DEF OK, Laid
<1> QED BY <1>1, KeptFinite, BoxIsTyped DEF BoxMap

\* The buckets on the paths to some leaves.
PathsTo(leafs) == {b \in Buckets : \E e \in 0..Depth : \E l \in leafs : b = Node(l, e)}

\* FetchPath: the boxes on the paths are in the stash afterwards.
Fetched(o, f, leafs) ==
    /\ f.depth = Depth /\ f.threw = FALSE /\ f.emptyNodes = o.emptyNodes /\ f.store = o.store
    /\ f.damaged = o.damaged
    /\ f.stash = [k \in DOMAIN f.stash |-> f.stash[k]]
    /\ \A k : k \in DOMAIN f.stash <=>
                 \/ k \in DOMAIN o.stash
                 \/ \E b \in PathsTo(leafs) : k \in DOMAIN o.store[b]
    /\ \A k \in DOMAIN f.stash : HasBox(o, k, f.stash[k])

\* FetchPath leaves the tree alone and puts the boxes on the paths into the stash.
LEMMA FetchFacts ==
    ASSUME NEW o, IsORAM(o), NEW leafs \in SUBSET Leaves
    PROVE  Fetched(o, FetchPath(o, leafs), leafs)
<1> USE HorusAssumption
<1> DEFINE nodes == {GetBoxOnPath(o, leaf, d) : leaf \in leafs, d \in 0..o.depth}
           holding(k) == {n \in nodes : k \in DOMAIN o.store[n]}
           first(k) == CHOOSE n \in holding(k) : \A m \in holding(k) : n <= m
           ids == UNION {DOMAIN o.store[n] : n \in nodes}
           f == FetchPath(o, leafs)
           st == Overlay(o.stash, [k \in ids |-> o.store[first(k)][k]])
<1>1. o.depth = Depth
  BY DEF IsORAM
<1>2. nodes = PathsTo(leafs)
  <2>1. \A l, d : GetBoxOnPath(o, l, d) = Node(l, d)
    BY <1>1 DEF GetBoxOnPath, Node
  <2>2. \A l \in leafs : \A d \in 0..Depth : Node(l, d) \in Buckets
    BY NodeFacts
  <2> QED BY <1>1, <2>1, <2>2 DEF PathsTo
<1>3. f = With(o, o.store, st, o.emptyNodes)
  BY DEF FetchPath
<1> HIDE DEF f
<1> HIDE DEF nodes
<1>4. \A k : k \in ids <=> \E b \in nodes : k \in DOMAIN o.store[b]
  BY Zenon
<1>5. \A b \in nodes : b \in Buckets
  BY <1>2 DEF PathsTo
<1>6. ASSUME NEW k \in ids PROVE HasBox(o, k, o.store[first(k)][k])
  <2>1. PICK b \in nodes : k \in DOMAIN o.store[b]
    BY <1>4
  <2>2. b \in holding(k)
    BY <2>1
  <2>3. holding(k) \subseteq Nat
    BY <1>5, Powers DEF Buckets
  <2>4. \E n \in holding(k) : \A m \in holding(k) : n <= m
    <3> HIDE DEF holding
    <3> QED BY <2>2, <2>3, LeastNat
  <2>5. first(k) \in holding(k)
    <3> HIDE DEF holding
    <3> QED BY <2>4, Zenon
  <2> HIDE DEF first
  <2> QED BY <1>5, <2>5 DEF HasBox
<1>7. /\ DOMAIN st = DOMAIN o.stash \cup ids
      /\ \A k \in DOMAIN o.stash : st[k] = o.stash[k]
      /\ \A k \in ids : k \notin DOMAIN o.stash => st[k] = o.store[first(k)][k]
  BY DEF Overlay
<1>11. st = [k \in DOMAIN st |-> st[k]]
  BY DEF Overlay
<1> HIDE DEF st, ids, first, holding
<1>8. /\ f.depth = Depth /\ f.threw = FALSE /\ f.emptyNodes = o.emptyNodes /\ f.store = o.store
      /\ f.stash = st /\ f.damaged = o.damaged
  BY <1>1, <1>3 DEF With
<1>9. \A k : k \in DOMAIN f.stash <=>
                \/ k \in DOMAIN o.stash
                \/ \E b \in nodes : k \in DOMAIN o.store[b]
  BY <1>4, <1>7, <1>8
<1>10. \A k \in DOMAIN f.stash : HasBox(o, k, f.stash[k])
  <2>1. ASSUME NEW k \in DOMAIN o.stash PROVE HasBox(o, k, f.stash[k])
    BY <1>7, <1>8 DEF HasBox
  <2> QED BY <1>6, <1>7, <1>8, <2>1
<1> QED BY <1>2, <1>8, <1>9, <1>10, <1>11, Zenon DEF Fetched, f

\* Fetching paths, putting boxes into the stash and writing levels back.
Joined(o, f, new, g) ==
    /\ g.depth = Depth /\ g.threw = FALSE /\ g.emptyNodes \in Nat /\ g.store = o.store
    /\ g.damaged = o.damaged
    /\ g.stash = Overlay(new, f.stash)

\* Where the boxes come from: from o, or they are new.
FromOld(o, new, r) == \A k, c : HasBox(r, k, c) => HasBox(o, k, c) \/ (k \in DOMAIN new /\ c = new[k])

\* The boxes of r are the new ones and, for other identifiers, those of o.
Overwrites(o, new, r) ==
    \A k, c : HasBox(r, k, c) <=> IF k \in DOMAIN new THEN c = new[k] ELSE HasBox(o, k, c)

\* The stash before the levels are written.
StashIs(o, f, new, g) ==
    /\ IsORAM(g)
    /\ DOMAIN g.stash = DOMAIN new \cup DOMAIN f.stash
    /\ \A k \in DOMAIN new : g.stash[k] = new[k]
    /\ \A k \in DOMAIN f.stash : k \notin DOMAIN new => g.stash[k] = f.stash[k]
    /\ \A k \in DOMAIN g.stash : HasBox(o, k, g.stash[k]) \/ (k \in DOMAIN new /\ g.stash[k] = new[k])

\* The stash after a fetch and a write of new boxes: the new ones, then what was fetched.
LEMMA JoinedFacts ==
    ASSUME NEW o, IsORAM(o), NEW leafs \in SUBSET Leaves, NEW f, Fetched(o, f, leafs),
           NEW new, BoxMap(new), NEW g, Joined(o, f, new, g)
    PROVE  StashIs(o, f, new, g)
<1>1. /\ DOMAIN g.stash = DOMAIN new \cup DOMAIN f.stash
      /\ \A k \in DOMAIN new : g.stash[k] = new[k]
      /\ \A k \in DOMAIN f.stash : k \notin DOMAIN new => g.stash[k] = f.stash[k]
  BY DEF Overlay, Joined
<1>2. \A k \in DOMAIN f.stash : HasBox(o, k, f.stash[k])
  BY DEF Fetched
<1>3. \A k \in DOMAIN g.stash : HasBox(o, k, g.stash[k]) \/ (k \in DOMAIN new /\ g.stash[k] = new[k])
  BY <1>1, <1>2
<1>4. BoxMap(g.stash)
  <2>1. DOMAIN f.stash \in SUBSET Kept(o)
    BY <1>2, KeptHas DEF IsORAM
  <2>2. IsFiniteSet(DOMAIN f.stash) /\ IsFiniteSet(DOMAIN new)
    BY <2>1, KeptFinite, FS_Subset DEF BoxMap
  <2>3. IsFiniteSet(DOMAIN new \cup DOMAIN f.stash)
    BY <2>2, FS_Union
  <2>4. ASSUME NEW k \in DOMAIN g.stash PROVE k \in Nat /\ g.stash[k].pos \in Leaves
    <3>1. CASE HasBox(o, k, g.stash[k])
      BY <3>1, BoxIsTyped
    <3>2. CASE k \in DOMAIN new /\ g.stash[k] = new[k]
      BY <3>2 DEF BoxMap
    <3> QED BY <1>3, <3>1, <3>2
  <2> QED BY <1>1, <2>3, <2>4 DEF BoxMap
<1>5. IsORAM(g)
  BY <1>4 DEF IsORAM, Joined
<1> QED BY <1>1, <1>3, <1>5 DEF StashIs

\* Whatever paths are written, the ORAM stays well formed, and has no box that was not
\* there or is not new.
LEMMA Rewrite ==
    ASSUME NEW o, Laid(o), NEW leafs \in SUBSET Leaves, NEW f, Fetched(o, f, leafs),
           NEW new, BoxMap(new), NEW g, Joined(o, f, new, g), NEW plan \in Plans,
           NEW r, r = WriteBack(g, plan)
    PROVE  /\ Laid(r) /\ r.emptyNodes = g.emptyNodes /\ r.damaged = o.damaged
           /\ FromOld(o, new, r)
<1> DEFINE nodes == Written(plan, 0)
<1>1. /\ DOMAIN o.store = Buckets /\ g.store = o.store /\ g.damaged = o.damaged
      /\ \A b \in Buckets : BoxMap(o.store[b]) /\ Cardinality(DOMAIN o.store[b]) <= Z
      /\ g.emptyNodes \in Nat
  BY DEF Laid, IsORAM, Joined
<1>2. /\ IsORAM(g)
      /\ \A k \in DOMAIN g.stash : HasBox(o, k, g.stash[k]) \/ (k \in DOMAIN new /\ g.stash[k] = new[k])
  <2>1. IsORAM(o)
    BY DEF Laid
  <2>2. StashIs(o, f, new, g)
    BY <2>1, JoinedFacts
  <2> QED BY <2>2, Zenon DEF StashIs
<1>3. BoxMap(g.stash)
  BY <1>2 DEF IsORAM
<1>4. Level(g, r, plan, 0)
  BY <1>2, WriteBackLevel
<1> HIDE DEF nodes
<1>5. /\ r.depth = Depth /\ r.threw = FALSE /\ r.emptyNodes = g.emptyNodes /\ r.damaged = g.damaged
      /\ DOMAIN r.store = Buckets
      /\ DOMAIN r.stash \subseteq DOMAIN g.stash
      /\ \A k \in DOMAIN r.stash : r.stash[k] = g.stash[k]
      /\ \A b \in Buckets \ nodes : r.store[b] = g.store[b]
  BY <1>4 DEF Level, nodes
<1>6. \A b \in nodes :
          /\ DOMAIN r.store[b] \subseteq DOMAIN g.stash
          /\ IsFiniteSet(DOMAIN r.store[b]) /\ Cardinality(DOMAIN r.store[b]) <= Z
          /\ \A k \in DOMAIN r.store[b] : r.store[b][k] = g.stash[k] /\ b \in Path(g.stash[k].pos)
  <2>1. \A b \in nodes :
          /\ DOMAIN r.store[b] \subseteq DOMAIN g.stash \ DOMAIN r.stash
          /\ IsFiniteSet(DOMAIN r.store[b]) /\ Cardinality(DOMAIN r.store[b]) <= Z
          /\ \A k \in DOMAIN r.store[b] : r.store[b][k] = g.stash[k] /\ b \in Path(g.stash[k].pos)
    BY <1>4, Zenon DEF Level, nodes
  <2> QED BY <2>1, Zenon
<1>7. IsORAM(r)
  <2>1. BoxMap(r.stash)
    BY <1>3, <1>5, FS_Subset DEF BoxMap
  <2>2. ASSUME NEW b \in Buckets PROVE BoxMap(r.store[b]) /\ Cardinality(DOMAIN r.store[b]) <= Z
    <3>1. CASE b \in nodes
      <4>1. DOMAIN r.store[b] \subseteq DOMAIN g.stash /\ \A k \in DOMAIN r.store[b] : r.store[b][k] = g.stash[k]
        BY <1>6, <3>1
      <4> QED BY <1>3, <1>6, <3>1, <4>1 DEF BoxMap
    <3>2. CASE b \notin nodes
      BY <1>1, <1>5, <3>2
    <3> QED BY <3>1, <3>2
  <2> QED BY <1>1, <1>5, <2>1, <2>2 DEF IsORAM
<1>8. OnPath(r)
  <2> SUFFICES ASSUME NEW b \in Buckets, NEW k \in DOMAIN r.store[b] PROVE b \in Path(r.store[b][k].pos)
    BY DEF OnPath
  <2>1. CASE b \in nodes
    BY <1>6, <2>1
  <2>2. CASE b \notin nodes
    BY <1>1, <1>5, <2>2 DEF Laid, OnPath
  <2> QED BY <2>1, <2>2
<1>9. FromOld(o, new, r)
  <2> SUFFICES ASSUME NEW k, NEW c, HasBox(r, k, c) PROVE HasBox(o, k, c) \/ (k \in DOMAIN new /\ c = new[k])
    BY DEF FromOld
  <2>1. CASE k \in DOMAIN r.stash /\ c = r.stash[k]
    <3>1. k \in DOMAIN g.stash /\ c = g.stash[k]
      BY <1>5, <2>1
    <3> QED BY <1>2, <3>1
  <2>2. ASSUME NEW b \in nodes, k \in DOMAIN r.store[b], c = r.store[b][k]
        PROVE  HasBox(o, k, c) \/ (k \in DOMAIN new /\ c = new[k])
    <3>1. k \in DOMAIN g.stash /\ c = g.stash[k]
      BY <1>6, <2>2
    <3> QED BY <1>2, <3>1
  <2>3. ASSUME NEW b \in Buckets \ nodes, k \in DOMAIN r.store[b], c = r.store[b][k]
        PROVE  HasBox(o, k, c)
    BY <1>1, <1>5, <2>3 DEF HasBox
  <2> QED BY <2>1, <2>2, <2>3 DEF HasBox
<1> QED BY <1>1, <1>5, <1>7, <1>8, <1>9 DEF Laid

\* New boxes go to leaves that are fetched, and a box never changes its leaf.
Fits(o, new, leafs) ==
    \A k \in DOMAIN new :
        new[k].pos \in leafs /\ \A c : HasBox(o, k, c) => c.pos = new[k].pos

\* When the paths that were fetched are written back, nothing is lost.
LEMMA CleanRewrite ==
    ASSUME NEW o, OK(o), NEW leafs \in SUBSET Leaves, NEW f, Fetched(o, f, leafs),
           NEW new, BoxMap(new), Fits(o, new, leafs), NEW g, Joined(o, f, new, g),
           NEW plan, plan = [d \in 0..Depth |-> leafs],
           NEW r, r = WriteBack(g, plan)
    PROVE  Overwrites(o, new, r)
<1> DEFINE nodes == PathsTo(leafs)
<1>1. plan \in Plans /\ Written(plan, 0) = nodes
  <2>1. \A e \in 0..Depth : plan[e] = leafs
    OBVIOUS
  <2> QED BY <2>1 DEF Plans, Written, PathsTo
<1>2. /\ DOMAIN o.store = Buckets /\ g.store = o.store
  BY DEF OK, Laid, IsORAM, Joined
<1>3. /\ IsORAM(g)
      /\ DOMAIN g.stash = DOMAIN new \cup DOMAIN f.stash
      /\ \A k \in DOMAIN new : g.stash[k] = new[k]
      /\ \A k \in DOMAIN f.stash : k \notin DOMAIN new => g.stash[k] = f.stash[k]
  <2>1. IsORAM(o)
    BY DEF OK, Laid
  <2>2. StashIs(o, f, new, g)
    BY <2>1, JoinedFacts
  <2> QED BY <2>2, Zenon DEF StashIs
<1>4. Level(g, r, plan, 0)
  BY <1>1, <1>3, WriteBackLevel
<1>5. /\ \A k : k \in DOMAIN f.stash <=>
                   \/ k \in DOMAIN o.stash
                   \/ \E b \in nodes : k \in DOMAIN o.store[b]
      /\ \A k \in DOMAIN f.stash : HasBox(o, k, f.stash[k])
  BY DEF Fetched
<1> HIDE DEF nodes
<1>6. nodes \subseteq Buckets
  BY DEF nodes, PathsTo
<1>7. /\ DOMAIN r.stash \subseteq DOMAIN g.stash
      /\ \A k \in DOMAIN r.stash : r.stash[k] = g.stash[k]
      /\ \A b \in Buckets \ nodes : r.store[b] = o.store[b]
  <2>1. \A b \in Buckets \ nodes : r.store[b] = g.store[b]
    BY <1>1, <1>4, Zenon DEF Level
  <2>2. /\ DOMAIN r.stash \subseteq DOMAIN g.stash
        /\ \A k \in DOMAIN r.stash : r.stash[k] = g.stash[k]
    BY <1>4, Zenon DEF Level
  <2> QED BY <1>2, <2>1, <2>2
<1>8. \A b \in nodes : \A k \in DOMAIN r.store[b] : k \in DOMAIN g.stash /\ r.store[b][k] = g.stash[k]
  <2>1. \A b \in nodes : /\ DOMAIN r.store[b] \subseteq DOMAIN g.stash \ DOMAIN r.stash
                         /\ \A k \in DOMAIN r.store[b] : r.store[b][k] = g.stash[k] /\ b \in Path(g.stash[k].pos)
    BY <1>1, <1>4, Zenon DEF Level
  <2> QED BY <2>1, Zenon
<1>9. \A k \in DOMAIN g.stash : k \in DOMAIN r.stash \/ \E b \in nodes : k \in DOMAIN r.store[b]
  BY <1>1, <1>4, Zenon DEF Level
\* A box left in a bucket that is not written is not new.
<1>10. ASSUME NEW b \in Buckets \ nodes, NEW k \in DOMAIN o.store[b], k \in DOMAIN new
       PROVE  FALSE
  <2>1. HasBox(o, k, o.store[b][k])
    BY DEF HasBox
  <2>2. o.store[b][k].pos \in leafs /\ b \in Path(o.store[b][k].pos)
    BY <1>10, <2>1 DEF Fits, OK, Laid, OnPath
  <2> QED BY <2>2 DEF Path, nodes, PathsTo
\* Every box of g's stash is there afterwards.
<1>11. \A k \in DOMAIN g.stash : HasBox(r, k, g.stash[k])
  BY <1>6, <1>7, <1>8, <1>9 DEF HasBox
<1>12. ASSUME NEW k \in DOMAIN new, NEW c PROVE HasBox(r, k, c) <=> c = new[k]
  <2>1. HasBox(r, k, new[k])
    BY <1>3, <1>11
  <2>2. ASSUME HasBox(r, k, c) PROVE c = new[k]
    <3>1. CASE k \in DOMAIN r.stash /\ c = r.stash[k]
      BY <1>3, <1>7, <3>1
    <3>2. ASSUME NEW b \in Buckets, k \in DOMAIN r.store[b], c = r.store[b][k] PROVE c = new[k]
      <4>1. CASE b \in nodes
        BY <1>3, <1>8, <3>2, <4>1
      <4>2. CASE b \notin nodes
        BY <1>7, <1>10, <3>2, <4>2
      <4> QED BY <4>1, <4>2
    <3> QED BY <2>2, <3>1, <3>2 DEF HasBox
  <2> QED BY <2>1, <2>2
<1>13. ASSUME NEW k, k \notin DOMAIN new, NEW c, HasBox(r, k, c) PROVE HasBox(o, k, c)
  <2>1. Laid(o)
    BY DEF OK
  <2>2. FromOld(o, new, r)
    BY <1>1, <2>1, Rewrite
  <2> QED BY <1>13, <2>2 DEF FromOld
<1>14. ASSUME NEW k, k \notin DOMAIN new, NEW c, HasBox(o, k, c) PROVE HasBox(r, k, c)
  <2>1. CASE k \in DOMAIN f.stash
    <3>1. HasBox(o, k, f.stash[k]) /\ g.stash[k] = f.stash[k] /\ k \in DOMAIN g.stash
      BY <1>3, <1>5, <1>14, <2>1
    <3>2. c = g.stash[k]
      BY <1>14, <3>1 DEF OK, Agree
    <3> QED BY <1>11, <3>1, <3>2
  <2>2. CASE k \notin DOMAIN f.stash
    <3>1. PICK b \in Buckets : k \in DOMAIN o.store[b] /\ c = o.store[b][k]
      BY <1>5, <1>14, <2>2 DEF HasBox
    <3>2. b \notin nodes
      BY <1>5, <2>2, <3>1
    <3> QED BY <1>7, <3>1, <3>2 DEF HasBox
  <2> QED BY <2>1, <2>2
<1> QED BY <1>12, <1>13, <1>14 DEF Overwrites

\* What is overwritten still agrees, and its contents are known.
LEMMA OverwritesFacts ==
    ASSUME NEW o, OK(o), NEW r, Laid(r), NEW new, Overwrites(o, new, r)
    PROVE  OK(r) /\ Contents(r) = Overlay(new, Contents(o))
<1>1. OK(r)
  BY DEF OK, Agree, Overwrites
<1>2. /\ DOMAIN Contents(r) = Kept(r) /\ DOMAIN Contents(o) = Kept(o)
      /\ \A k, c : HasBox(r, k, c) <=> k \in Kept(r) /\ c = Contents(r)[k]
      /\ \A k, c : HasBox(o, k, c) <=> k \in Kept(o) /\ c = Contents(o)[k]
  BY <1>1, ContentsFacts
<1>3. Kept(r) = DOMAIN new \cup Kept(o)
  BY <1>2 DEF Overwrites
<1>4. \A k \in Kept(r) : Contents(r)[k] = IF k \in DOMAIN new THEN new[k] ELSE Contents(o)[k]
  BY <1>2 DEF Overwrites
<1>5. Contents(r) = [k \in Kept(r) |-> Contents(r)[k]]
  BY DEF Contents
<1> HIDE DEF Contents
<1>6. Contents(r) = [k \in DOMAIN new \cup Kept(o) |-> IF k \in DOMAIN new THEN new[k] ELSE Contents(o)[k]]
  BY <1>3, <1>4, <1>5
<1> QED BY <1>1, <1>2, <1>6 DEF Overlay

-----------------------------------------------------------------------------
\* The operations of the ORAM, by what they hold.
Room(o) == Cardinality(Kept(o)) + o.emptyNodes <= Z * BucketCount(Depth)
Sound(o) == Laid(o) /\ Room(o)

\* The room left after boxes were added.
LEMMA RoomLeft ==
    ASSUME NEW o, Sound(o), NEW r, Laid(r), NEW new, BoxMap(new), FromOld(o, new, r),
           r.emptyNodes = o.emptyNodes - Cardinality(DOMAIN new)
    PROVE  Sound(r)
<1>1. /\ IsFiniteSet(Kept(o)) /\ IsFiniteSet(Kept(r)) /\ IsFiniteSet(DOMAIN new) /\ Depth \in Nat
      /\ DOMAIN o.store = Buckets /\ DOMAIN r.store = Buckets
  BY KeptFinite, HorusAssumption DEF Sound, Laid, BoxMap, IsORAM
<1>2. Kept(r) \subseteq DOMAIN new \cup Kept(o)
  BY <1>1, KeptHas DEF FromOld
<1>3. Cardinality(Kept(r)) <= Cardinality(DOMAIN new) + Cardinality(Kept(o))
  <2> DEFINE D == DOMAIN new
             K == Kept(o)
  <2>1. IsFiniteSet(D \cap K) /\ IsFiniteSet(D \cup K)
    BY <1>1, FS_Intersection, FS_Union
  <2>2. Cardinality(D \cup K) = Cardinality(D) + Cardinality(K) - Cardinality(D \cap K)
    BY <1>1, FS_Union, Zenon
  <2>3. Cardinality(D) \in Nat /\ Cardinality(K) \in Nat /\ Cardinality(D \cap K) \in Nat
    BY <1>1, <2>1, FS_CardinalityType, Zenon
  <2>4. Cardinality(Kept(r)) <= Cardinality(D \cup K)
    BY <1>2, <2>1, FS_Subset
  <2>5. Cardinality(Kept(r)) \in Nat /\ Cardinality(D \cup K) \in Nat
    BY <1>1, <2>1, FS_CardinalityType
  <2> HIDE DEF D, K
  <2>6. Cardinality(Kept(r)) <= Cardinality(D) + Cardinality(K)
    BY <2>2, <2>3, <2>4, <2>5
  <2> QED BY <2>6 DEF D, K
<1>4. Cardinality(DOMAIN new) \in Nat /\ Cardinality(Kept(o)) \in Nat /\ Cardinality(Kept(r)) \in Nat
  BY <1>1, FS_CardinalityType
<1>5. o.emptyNodes \in Nat /\ BucketCount(Depth) \in Int /\ Z \in Nat
  BY <1>1, Powers, ZAssumption DEF Sound, Laid, IsORAM, BucketCount
<1>6. Z * BucketCount(Depth) \in Int
  BY <1>5
<1> QED BY <1>3, <1>4, <1>5, <1>6 DEF Sound, Room

\* The ORAM is sound at first, and empty.
LEMMA NewORAM ==
    LET o == NewPRFORAM(Depth) IN Sound(o) /\ Agree(o) /\ Kept(o) = {} /\ ~o.damaged
<1> DEFINE o == NewPRFORAM(Depth)
<1>1. Depth \in Nat /\ BucketCount(Depth) \in Nat /\ Z \in Nat
  BY HorusAssumption, Powers, ZAssumption DEF BucketCount
<1>2. Z * BucketCount(Depth) \in Nat
  BY <1>1
<1>3. /\ o.depth = Depth /\ o.threw = FALSE /\ o.emptyNodes = Z * BucketCount(Depth)
      /\ o.stash = NoBoxes /\ o.store = [b \in Buckets |-> NoBoxes] /\ ~o.damaged
  BY DEF NewPRFORAM, Buckets
<1> HIDE DEF o
<1>4. DOMAIN NoBoxes = {}
  BY DEF NoBoxes
<1>5. BoxMap(NoBoxes) /\ Cardinality(DOMAIN NoBoxes) <= Z
  BY <1>1, <1>4, FS_EmptySet DEF BoxMap
<1>6. IsORAM(o)
  BY <1>2, <1>3, <1>5 DEF IsORAM
<1>7. OnPath(o) /\ Agree(o) /\ Kept(o) = {}
  BY <1>3, <1>4 DEF OnPath, Agree, HasBox, Kept
<1>8. Room(o)
  BY <1>2, <1>3, <1>7, FS_EmptySet DEF Room
<1> QED BY <1>3, <1>6, <1>7, <1>8 DEF Sound, Laid, o

\* All boxes of an identifier are at the leaf pos.
AtLeaf(o, k, pos) == \A c : HasBox(o, k, c) => c.pos = pos

\* WriteBox.
One(bid, value, pos) == [b \in {bid} |-> [value |-> value, pos |-> pos]]

\* The ORAM r is o with the boxes new: it is well formed and has no other boxes; if it
\* is not damaged and the boxes of o agreed, at the same leaves, nothing else changed.
Updated(o, new, r) ==
    /\ Sound(r) /\ FromOld(o, new, r)
    /\ o.damaged => r.damaged
    /\ ~r.damaged /\ Agree(o) /\ (\A k \in DOMAIN new : AtLeaf(o, k, new[k].pos)) =>
          Agree(r) /\ Contents(r) = Overlay(new, Contents(o))

\* The levels may be written to leaves there are.
LEMMA TargetPlans ==
    ASSUME NEW w, IsORAM(w), NEW bid, NEW pos \in Leaves, NEW plan \in Targets(w, bid, pos)
    PROVE  plan \in Plans
<1> DEFINE kept == WriteBack(w, AllLevels(w, {pos}))
           freed == {d \in 0..w.depth :
                        \E e \in (d + 1)..w.depth : bid \in DOMAIN kept.store[GetBoxOnPath(w, pos, e)]}
<1>1. w.depth = Depth /\ \A k \in DOMAIN w.stash : w.stash[k].pos \in Leaves
  BY DEF IsORAM, BoxMap
<1>2. 0 \in Leaves
  BY Powers, HorusAssumption DEF Leaves
<1>3. FreedPos(w, pos) \subseteq Leaves
  BY <1>1, <1>2 DEF FreedPos
<1>4. PICK at \in [freed -> FreedPos(w, pos)] :
         plan = [d \in 0..w.depth |-> {IF d \in freed THEN at[d] ELSE pos}]
  BY DEF Targets
<1> HIDE DEF freed
<1>5. \A d \in 0..Depth : {IF d \in freed THEN at[d] ELSE pos} \in SUBSET Leaves
  BY <1>3, <1>4
<1> QED BY <1>1, <1>4, <1>5 DEF Plans

\* WriteBox that does not throw adds its box, or replaces it where it already is, unless
\* it does damage.
LEMMA WriteBoxFacts ==
    ASSUME NEW o, Sound(o), NEW bid \in Nat, NEW value, NEW pos \in Leaves,
           NEW r \in WriteBox(o, bid, value, pos), ~r.threw
    PROVE  Updated(o, One(bid, value, pos), r)
<1> DEFINE leafs == {pos}
           box == [value |-> value, pos |-> pos]
           f == FetchPath(o, leafs)
           new == One(bid, value, pos)
           g == WriteData(f, bid, box)
           all == AllLevels(g, {pos})
           kept == WriteBack(g, all)
           whole(q) == \A k \in Kept(o) \cup {bid} : Copies(q, k) = IF k = bid THEN {box} ELSE Copies(o, k)
<1>1. Fetched(o, f, leafs)
  BY FetchFacts DEF Sound, Laid
<1>2. r \in IF o.threw \/ g.threw THEN {Threw(o)}
            ELSE {Mark(q, o.damaged \/ (q # kept /\ ~whole(q))) :
                     q \in {WriteBack(g, plan) : plan \in Targets(g, bid, pos)}}
  BY DEF WriteBox
<1>3. /\ o.emptyNodes \in Nat /\ f.emptyNodes = o.emptyNodes /\ f.depth = Depth /\ f.store = o.store
      /\ f.damaged = o.damaged /\ Laid(o) /\ DOMAIN o.store = Buckets
  BY <1>1 DEF Sound, Laid, IsORAM, Fetched
<1>4. g = IF f.emptyNodes = 0 THEN Threw(f) ELSE With(f, f.store, Overlay(new, f.stash), f.emptyNodes - 1)
  BY DEF WriteData, One
<1> HIDE DEF f, g, new, kept, whole, all
<1>5. Threw(o).threw = TRUE /\ Threw(f).threw = TRUE
  BY DEF Threw
<1>6. ~g.threw /\ \E plan \in Targets(g, bid, pos) :
        r = Mark(WriteBack(g, plan), o.damaged \/ (WriteBack(g, plan) # kept /\ ~whole(WriteBack(g, plan))))
  BY <1>2, <1>5
<1>7. PICK plan, q : /\ plan \in Targets(g, bid, pos) /\ q = WriteBack(g, plan)
                      /\ r = Mark(q, o.damaged \/ (q # kept /\ ~whole(q)))
  BY <1>6
<1>8. f.emptyNodes # 0 /\ g = With(f, f.store, Overlay(new, f.stash), f.emptyNodes - 1)
  BY <1>4, <1>5, <1>6
<1>9. /\ g.depth = Depth /\ g.threw = FALSE /\ g.emptyNodes = o.emptyNodes - 1 /\ g.store = o.store
      /\ g.stash = Overlay(new, f.stash) /\ g.emptyNodes \in Nat /\ g.damaged = o.damaged
  BY <1>3, <1>8 DEF With
<1>10. DOMAIN new = {bid} /\ new[bid] = box /\ new[bid].pos = pos
  BY DEF new, One
<1>11. BoxMap(new) /\ Cardinality(DOMAIN new) = 1
  BY <1>10, FS_Singleton DEF BoxMap
<1>12. Joined(o, f, new, g) /\ leafs \in SUBSET Leaves
  BY <1>9 DEF Joined
<1> HIDE DEF leafs, box
<1>13. plan \in Plans
  <2>1. StashIs(o, f, new, g)
    BY <1>1, <1>3, <1>11, <1>12, JoinedFacts DEF Laid
  <2>2. IsORAM(g)
    BY <2>1, Zenon DEF StashIs
  <2> QED BY <1>7, <2>2, TargetPlans
<1>14. /\ Laid(q) /\ q.emptyNodes = g.emptyNodes /\ q.damaged = o.damaged
       /\ FromOld(o, new, q)
  BY <1>1, <1>3, <1>7, <1>11, <1>12, <1>13, Rewrite
<1>15. /\ r.depth = q.depth /\ r.store = q.store /\ r.emptyNodes = q.emptyNodes /\ r.stash = q.stash
       /\ r.threw = q.threw /\ r.damaged = (o.damaged \/ (q # kept /\ ~whole(q)))
  BY <1>7 DEF Mark
<1>16. \A k, c : HasBox(r, k, c) <=> HasBox(q, k, c)
  BY <1>15 DEF HasBox
<1>17. Laid(r) /\ FromOld(o, new, r)
  BY <1>14, <1>15, <1>16 DEF Laid, IsORAM, OnPath, FromOld
<1>18. Sound(r)
  BY <1>9, <1>11, <1>14, <1>15, <1>17, RoomLeft
<1>19. ASSUME ~r.damaged, Agree(o), \A k \in DOMAIN new : AtLeaf(o, k, new[k].pos)
       PROVE  Agree(r) /\ Contents(r) = Overlay(new, Contents(o))
  <2>1. q = kept \/ whole(q)
    BY <1>15, <1>19
  <2>2. OK(o)
    BY <1>3, <1>19 DEF OK
  <2>3. CASE q = kept
    <3>1. Fits(o, new, leafs)
      BY <1>10, <1>19 DEF Fits, AtLeaf, leafs
    <3>2. all = [d \in 0..Depth |-> leafs]
      BY <1>9 DEF all, leafs, AllLevels
    <3>3. q = WriteBack(g, all)
      BY <2>3 DEF kept
    <3>4. Overwrites(o, new, q)
      BY <1>1, <1>11, <1>12, <2>2, <3>1, <3>2, <3>3, CleanRewrite
    <3> QED BY <1>16, <1>17, <2>2, <3>4, OverwritesFacts DEF Overwrites, OK
  <2>4. CASE whole(q)
    <3>1. DOMAIN q.store = Buckets
      BY <1>14 DEF Laid, IsORAM
    <3>2. \A k \in Kept(o) \cup {bid} : Copies(q, k) = IF k = bid THEN {box} ELSE Copies(o, k)
      BY <2>4 DEF whole
    <3>3. ASSUME NEW k, NEW c PROVE HasBox(q, k, c) <=> IF k \in DOMAIN new THEN c = new[k] ELSE HasBox(o, k, c)
      <4>1. /\ c \in Copies(q, k) <=> HasBox(q, k, c)
            /\ c \in Copies(o, k) <=> HasBox(o, k, c)
        BY <1>3, <3>1, CopiesAre
      <4>2. CASE k = bid
        BY <1>10, <3>2, <4>1, <4>2
      <4>3. CASE k # bid /\ k \in Kept(o)
        BY <1>10, <3>2, <4>1, <4>3
      <4>4. CASE k # bid /\ k \notin Kept(o)
        <5>1. ~HasBox(o, k, c)
          BY <1>3, <4>4, KeptHas
        <5>2. ~HasBox(q, k, c)
          BY <1>10, <1>14, <4>4, <5>1 DEF FromOld
        <5> QED BY <1>10, <4>4, <5>1, <5>2
      <4> QED BY <4>2, <4>3, <4>4
    <3>4. Overwrites(o, new, r)
      BY <1>16, <3>3 DEF Overwrites
    <3> QED BY <1>17, <2>2, <3>4, OverwritesFacts DEF OK
  <2> QED BY <2>1, <2>3, <2>4
<1>20. o.damaged => r.damaged
  BY <1>15
<1> QED BY <1>17, <1>18, <1>19, <1>20 DEF Updated, new

\* batchRead.  What it finds is a box of that identifier; where the boxes agree and are
\* looked for at their leaf, it finds what is there.
LEMMA BatchReadFacts ==
    ASSUME NEW o, Sound(o), NEW pos, DOMAIN pos \subseteq Nat, \A k \in DOMAIN pos : pos[k] \in Leaves,
           NEW r, r = batchRead(o, pos)
    PROVE  /\ Updated(o, NoBoxes, r[2]) /\ r[2].damaged = o.damaged
           /\ \A k \in DOMAIN pos : r[1][k] = << >> \/ \E c : HasBox(o, k, c) /\ r[1][k] = c.value
           /\ Agree(o) => Agree(r[2]) /\ Contents(r[2]) = Contents(o)
           /\ Agree(o) => \A k \in DOMAIN pos : AtLeaf(o, k, pos[k]) =>
                 r[1][k] = IF k \in Kept(o) THEN Contents(o)[k].value ELSE << >>
<1> DEFINE leafs == Range(pos)
           f == FetchPath(o, leafs)
           new == NoBoxes
           s == WriteBack(f, AllLevels(f, leafs))
<1>0. Laid(o) /\ IsORAM(o) /\ DOMAIN o.store = Buckets
  BY DEF Sound, Laid, IsORAM
<1>1. leafs \in SUBSET Leaves /\ \A k \in DOMAIN pos : pos[k] \in leafs
  BY DEF Range
<1>2. Fetched(o, f, leafs)
  BY <1>0, <1>1, FetchFacts
<1>3. r[1] = [k \in DOMAIN pos |-> ReadData(f, k)] /\ r[2] = s
  BY DEF batchRead
<1> HIDE DEF leafs, f, s
<1>4. DOMAIN new = {}
  BY DEF NoBoxes
<1>5. /\ f.depth = Depth /\ f.threw = FALSE /\ f.emptyNodes = o.emptyNodes /\ f.store = o.store
      /\ f.emptyNodes \in Nat /\ f.damaged = o.damaged
  BY <1>0, <1>2 DEF Fetched, IsORAM
<1>6. f.stash = [k \in DOMAIN f.stash |-> f.stash[k]]
  BY <1>2, Zenon DEF Fetched
<1>7. f.stash = Overlay(new, f.stash)
  BY <1>4, <1>6 DEF Overlay
<1>8. BoxMap(new) /\ Cardinality(DOMAIN new) = 0
  BY <1>4, FS_EmptySet DEF BoxMap
<1>9. Joined(o, f, new, f)
  BY <1>5, <1>7 DEF Joined
<1> DEFINE plan == [d \in 0..Depth |-> leafs]
<1>10. plan \in Plans /\ s = WriteBack(f, plan)
  BY <1>1, <1>5 DEF Plans, s, AllLevels
<1> HIDE DEF plan
<1>11. Laid(s) /\ s.emptyNodes = f.emptyNodes /\ s.damaged = o.damaged /\ FromOld(o, new, s)
  BY <1>0, <1>1, <1>2, <1>8, <1>9, <1>10, Rewrite
<1>12. Sound(s)
  BY <1>5, <1>8, <1>11, RoomLeft
<1>13. Overlay(new, Contents(o)) = Contents(o)
  BY <1>4 DEF Overlay, Contents
<1>14. ASSUME Agree(o) PROVE Agree(s) /\ Contents(s) = Contents(o)
  <2>1. OK(o)
    BY <1>0, <1>14 DEF OK
  <2>2. Fits(o, new, leafs)
    BY <1>4 DEF Fits
  <2>3. Overwrites(o, new, s)
    BY <1>1, <1>2, <1>8, <1>9, <1>10, <2>1, <2>2, CleanRewrite DEF plan
  <2> QED BY <1>11, <1>13, <2>1, <2>3, OverwritesFacts DEF OK
<1>15. ASSUME NEW k \in DOMAIN pos
       PROVE  ReadData(f, k) = << >> \/ \E c : HasBox(o, k, c) /\ ReadData(f, k) = c.value
  BY <1>2 DEF ReadData, Fetched
<1>16. ASSUME Agree(o), NEW k \in DOMAIN pos, AtLeaf(o, k, pos[k])
       PROVE  ReadData(f, k) = IF k \in Kept(o) THEN Contents(o)[k].value ELSE << >>
  <2>1. \A c : HasBox(o, k, c) <=> k \in Kept(o) /\ c = Contents(o)[k]
    BY <1>0, <1>16, ContentsFacts DEF OK
  <2>2. CASE k \in DOMAIN f.stash
    <3>1. HasBox(o, k, f.stash[k])
      BY <1>2, <2>2 DEF Fetched
    <3> QED BY <2>1, <2>2, <3>1 DEF ReadData
  <2>3. CASE k \notin DOMAIN f.stash
    <3>1. ASSUME k \in Kept(o) PROVE FALSE
      <4>1. k \notin DOMAIN o.stash
        BY <1>2, <2>3 DEF Fetched
      <4>2. PICK b \in Buckets : k \in DOMAIN o.store[b]
        BY <1>0, <3>1, <4>1, KeptHas DEF HasBox
      <4>3. HasBox(o, k, o.store[b][k]) /\ b \in Path(o.store[b][k].pos)
        BY <1>0, <4>2 DEF HasBox, Laid, OnPath
      <4>4. b \in Path(pos[k]) /\ pos[k] \in leafs
        BY <1>1, <1>16, <4>3 DEF AtLeaf
      <4>5. b \in PathsTo(leafs)
        BY <4>4 DEF Path, PathsTo
      <4> QED BY <1>2, <2>3, <4>2, <4>5 DEF Fetched
    <3> QED BY <2>3, <3>1 DEF ReadData
  <2> QED BY <2>2, <2>3
<1>17. Updated(o, new, s)
  BY <1>11, <1>12, <1>13, <1>14 DEF Updated
<1>18. r[1][1] = r[1][1] /\ \A k \in DOMAIN pos : r[1][k] = ReadData(f, k)
  BY <1>3
<1>19. Agree(o) => \A k \in DOMAIN pos : AtLeaf(o, k, pos[k]) =>
          r[1][k] = IF k \in Kept(o) THEN Contents(o)[k].value ELSE << >>
  BY <1>16, <1>18
<1> HIDE DEF new
<1>20. \A k \in DOMAIN pos : r[1][k] = << >> \/ \E c : HasBox(o, k, c) /\ r[1][k] = c.value
  BY <1>15, <1>18
<1> QED BY <1>3, <1>11, <1>14, <1>17, <1>19, <1>20, Zenon DEF new

\* batchWrite.
Boxes(values, pos) == [bid \in DOMAIN values |-> [value |-> values[bid], pos |-> pos[bid]]]

\* batchWrite that does not throw adds or replaces all its boxes.
LEMMA BatchWriteFacts ==
    ASSUME NEW o, Sound(o), NEW values, NEW pos, DOMAIN pos = DOMAIN values,
           DOMAIN pos \subseteq Nat, IsFiniteSet(DOMAIN pos), \A k \in DOMAIN pos : pos[k] \in Leaves,
           NEW r, r = batchWrite(o, values, pos), ~r.threw
    PROVE  Updated(o, Boxes(values, pos), r) /\ r.damaged = o.damaged
<1> DEFINE leafs == Range(pos)
           f == FetchPath(o, leafs)
           new == Boxes(values, pos)
           n == Cardinality(DOMAIN values)
           g == With(f, f.store, Overlay(new, f.stash), f.emptyNodes - n)
<1>0. Laid(o) /\ IsORAM(o)
  BY DEF Sound, Laid
<1>1. leafs \in SUBSET Leaves /\ \A k \in DOMAIN pos : pos[k] \in leafs
  BY DEF Range
<1>2. Fetched(o, f, leafs)
  BY <1>0, <1>1, FetchFacts
<1>3. r = IF ~(n <= f.emptyNodes) THEN Threw(o) ELSE WriteBack(g, AllLevels(f, leafs))
  BY DEF batchWrite, Boxes
<1> HIDE DEF leafs, f, new, n
<1>5. /\ f.depth = Depth /\ f.emptyNodes = o.emptyNodes /\ f.store = o.store /\ o.emptyNodes \in Nat /\ n \in Nat
      /\ f.damaged = o.damaged
  BY <1>0, <1>2, FS_CardinalityType DEF Fetched, IsORAM, n
<1> DEFINE plan == [d \in 0..Depth |-> leafs]
<1>4. n <= f.emptyNodes /\ r = WriteBack(g, plan) /\ plan \in Plans
  <2>1. Threw(o).threw = TRUE
    BY DEF Threw
  <2>2. AllLevels(f, leafs) = plan /\ plan \in Plans
    BY <1>1, <1>5 DEF AllLevels, Plans
  <2> HIDE DEF g, plan
  <2> QED BY <1>3, <2>1, <2>2
<1>6. /\ g.depth = Depth /\ g.threw = FALSE /\ g.emptyNodes = o.emptyNodes - n /\ g.store = o.store
      /\ g.stash = Overlay(new, f.stash) /\ g.emptyNodes \in Nat /\ g.damaged = o.damaged
  BY <1>4, <1>5 DEF With
<1> HIDE DEF g, plan
<1>7. DOMAIN new = DOMAIN pos /\ \A k \in DOMAIN new : new[k].pos = pos[k]
  BY DEF new, Boxes
<1>8. BoxMap(new) /\ Cardinality(DOMAIN new) = n
  BY <1>7 DEF BoxMap, n
<1>9. Joined(o, f, new, g)
  BY <1>6 DEF Joined
<1>10. Laid(r) /\ r.emptyNodes = g.emptyNodes /\ r.damaged = o.damaged /\ FromOld(o, new, r)
  BY <1>0, <1>1, <1>2, <1>4, <1>8, <1>9, Rewrite
<1>11. Sound(r)
  BY <1>6, <1>8, <1>10, RoomLeft
<1>12. ASSUME Agree(o), \A k \in DOMAIN new : AtLeaf(o, k, new[k].pos)
       PROVE  Agree(r) /\ Contents(r) = Overlay(new, Contents(o))
  <2>1. OK(o)
    BY <1>0, <1>12 DEF OK
  <2>2. Fits(o, new, leafs)
    BY <1>1, <1>7, <1>12 DEF Fits, AtLeaf
  <2>3. Overwrites(o, new, r)
    BY <1>1, <1>2, <1>4, <1>8, <1>9, <2>1, <2>2, CleanRewrite DEF plan
  <2> QED BY <1>10, <2>1, <2>3, OverwritesFacts DEF OK
<1> QED BY <1>10, <1>11, <1>12 DEF Updated, new

-----------------------------------------------------------------------------
\* One keyword.  c documents are listed, s searches are over, L is the value of
\* latestUpdatedCounter, A the access bound, last the last document.  A document d
\* has slot D[d] under access count DA[d]; slot i has document S[i] under access
\* count SA[i], 0 if it was never used; R[i][t][k] is the box for search number t
\* and access count k, << >> if there is none.
N == Cardinality(Docs)
Accesses == 1..(MaxAccess + 1)
IsDoc(v) == \E d \in Docs : v = Doc(d)
Readable(top, row) ==
    \E st \in 1..top : /\ \A k \in st..top : IsDoc(row[k])
                       /\ st = 1 \/ row[1] = At(st)
Good(c, s, L, A, last, D, DA, S, SA, R) ==
    /\ c \in 0..N /\ s \in 0..MaxSearches /\ L \in 0..N /\ A \in 0..MaxAccess
    /\ \A d \in Docs : D[d] \in (-1)..c /\ (D[d] > 0 => S[D[d]] = d)
    /\ \A i \in 1..N : SA[i] \in 0..A
    /\ \A i \in 1..c : /\ S[i] \in Docs /\ D[S[i]] = i /\ DA[S[i]] = SA[i]
                       /\ SA[i] > 0 /\ R[i][s][SA[i]] = Doc(S[i])
    /\ \A i \in 1..N : i <= c \/ i <= L => Readable(SA[i], R[i][s])
    /\ \A i \in 1..N : \A k \in Accesses : k > SA[i] => R[i][s][k] = << >>
    /\ \A i \in 1..N : \A t \in 0..MaxSearches : t > s => \A k \in Accesses : R[i][t][k] = << >>
    /\ c > 0 => last = S[c]

\* The facts about the constants.
LEMMA Constants ==
    /\ N \in Nat /\ MaxAccess \in Nat /\ MaxSearches \in Nat /\ Radix \in Nat /\ 1 \in 1..MaxAccess
    /\ N < Radix /\ MaxAccess + 1 < Radix /\ MaxSearches < Radix
    /\ \A d \in Docs : d \in Nat /\ d > 0
    /\ \A w \in Keywords : w \in 1..(Radix - 1)
    /\ IsFiniteSet(Docs)
BY HorusAssumption, FS_CardinalityType DEF N

\* A box holds one of three kinds of values.
LEMMA Values ==
    /\ \A v : IsDoc(v) => v # << >> /\ v[1] = "doc" /\ v[2] \in Docs
    /\ \A k : At(k) # << >> /\ At(k)[1] = "at" /\ At(k)[2] = k /\ ~IsDoc(At(k))
    /\ \A d \in Docs : IsDoc(Doc(d)) /\ Doc(d)[2] = d
    /\ ~IsDoc(<< >>)
BY DEF IsDoc, Doc, At

\* A document that is not listed leaves room for a slot.
LEMMA RoomForDoc ==
    ASSUME NEW c, NEW s, NEW L, NEW A, NEW last, NEW D, NEW DA, NEW S, NEW SA, NEW R,
           Good(c, s, L, A, last, D, DA, S, SA, R), NEW d \in Docs, D[d] <= 0
    PROVE  c + 1 \in 1..N
<1> USE Constants
<1>1. c \in 0..N /\ \A i \in 1..c : S[i] \in Docs /\ D[S[i]] = i
  BY DEF Good
<1> DEFINE f == [i \in 1..c |-> S[i]]
           T == Docs \ {d}
<1>2. \A i \in 1..c : S[i] \in T
  BY <1>1
<1>3. f \in [1..c -> T]
  BY <1>2
<1>4. \A i, j \in 1..c : f[i] = f[j] => i = j
  BY <1>1
<1>5. f \in Injection(1..c, T)
  BY <1>3, <1>4 DEF Injection, IsInjective
<1>6. IsFiniteSet(T) /\ Cardinality(T) = N - 1
  BY FS_RemoveElement DEF N
<1>7. Cardinality(1..c) = c
  BY <1>1, FS_Interval
<1> HIDE DEF f, T
<1>8. Cardinality(1..c) <= Cardinality(T)
  BY <1>5, <1>6, FS_Injection, Zenon
<1> QED BY <1>1, <1>6, <1>7, <1>8

\* A keyword without documents.
LEMMA GoodEmpty ==
    ASSUME NEW last, NEW D, NEW DA, NEW S, NEW SA, NEW R,
           \A d \in Docs : D[d] = 0, \A i \in 1..N : SA[i] = 0,
           \A i \in 1..N : \A t \in 0..MaxSearches : \A k \in Accesses : R[i][t][k] = << >>
    PROVE  Good(0, 0, 0, 0, last, D, DA, S, SA, R)
<1> USE Constants
<1>1. \A i \in 1..N : ~(i <= 0) /\ 0 \in 0..0 /\ 0 \in 0..MaxSearches
  OBVIOUS
<1>2. \A d \in Docs : D[d] \in (-1)..0 /\ ~(D[d] > 0)
  OBVIOUS
<1> QED BY <1>1, <1>2 DEF Good

\* A document is added in the next slot.
Added(d, a, c, s, L, D, DA, S, SA, R, D2, DA2, S2, SA2, R2) ==
    /\ \A e \in Docs : D2[e] = IF e = d THEN c + 1 ELSE D[e]
    /\ \A e \in Docs : DA2[e] = IF e = d THEN a ELSE DA[e]
    /\ \A i \in 1..N : S2[i] = IF i = c + 1 THEN d ELSE S[i]
    /\ \A i \in 1..N : SA2[i] = IF i = c + 1 THEN a ELSE SA[i]
    /\ \A i \in 1..N : \A t \in 0..MaxSearches : \A k \in Accesses :
          R2[i][t][k] = IF i = c + 1 /\ t = s /\ k = a THEN Doc(d)
                        ELSE IF i = c + 1 /\ t = s /\ k = 1 /\ L < c + 1 /\ a > 1 THEN At(a)
                        ELSE R[i][t][k]

\* insert keeps the index of the keyword good: the new slot can be read from box 1 on.
LEMMA GoodAdd ==
    ASSUME NEW c, NEW s, NEW L, NEW A, NEW last, NEW D, NEW DA, NEW S, NEW SA, NEW R,
           Good(c, s, L, A, last, D, DA, S, SA, R), NEW d \in Docs, D[d] <= 0,
           NEW a, a = SA[c + 1] + 1, a <= MaxAccess,
           NEW L2 \in 0..N, L2 <= L \/ L2 <= c + 1,
           NEW D2, NEW DA2, NEW S2, NEW SA2, NEW R2,
           Added(d, a, c, s, L, D, DA, S, SA, R, D2, DA2, S2, SA2, R2)
    PROVE  Good(c + 1, s, L2, Larger(A, a), d, D2, DA2, S2, SA2, R2)
<1> DEFINE A2 == Larger(A, a)
<1> USE DEF Added
<1> USE Constants
<1>1. c + 1 \in 1..N
  BY RoomForDoc
<1>2. /\ c \in 0..N /\ s \in 0..MaxSearches /\ L \in 0..N /\ A \in 0..MaxAccess
      /\ \A e \in Docs : D[e] \in (-1)..c /\ (D[e] > 0 => S[D[e]] = e)
      /\ \A i \in 1..N : SA[i] \in 0..A
      /\ \A i \in 1..c : /\ S[i] \in Docs /\ D[S[i]] = i /\ DA[S[i]] = SA[i]
                         /\ SA[i] > 0 /\ R[i][s][SA[i]] = Doc(S[i])
      /\ \A i \in 1..N : i <= c \/ i <= L => Readable(SA[i], R[i][s])
      /\ \A i \in 1..N : \A k \in Accesses : k > SA[i] => R[i][s][k] = << >>
      /\ \A i \in 1..N : \A t \in 0..MaxSearches : t > s => \A k \in Accesses : R[i][t][k] = << >>
  BY Zenon DEF Good
<1>3. a \in 1..MaxAccess /\ A2 \in 0..MaxAccess /\ A <= A2 /\ a <= A2 /\ a \in Accesses
  BY <1>1, <1>2 DEF Larger, Accesses
<1> HIDE DEF A2
<1>31. S2[c + 1] = d /\ SA2[c + 1] = a /\ D2[d] = c + 1 /\ DA2[d] = a
  BY <1>1
<1>32. \A k \in Accesses : R2[c + 1][s][k] = IF k = a THEN Doc(d)
                                             ELSE IF k = 1 /\ L < c + 1 /\ a > 1 THEN At(a)
                                             ELSE R[c + 1][s][k]
  BY <1>1, <1>2
<1>4. \A e \in Docs : D2[e] \in (-1)..(c + 1) /\ (D2[e] > 0 => S2[D2[e]] = e)
  <2> SUFFICES ASSUME NEW e \in Docs PROVE D2[e] \in (-1)..(c + 1) /\ (D2[e] > 0 => S2[D2[e]] = e)
    OBVIOUS
  <2>1. CASE e = d
    BY <1>1, <2>1
  <2>2. CASE e # d
    <3>1. D2[e] = D[e] /\ D[e] \in (-1)..c
      BY <1>2, <2>2
    <3>2. D[e] > 0 => D[e] \in 1..N /\ D[e] # c + 1
      BY <1>2, <3>1
    <3> QED BY <1>2, <3>1, <3>2, SMTT(40)
  <2> QED BY <2>1, <2>2
<1>5. ASSUME NEW i \in 1..N PROVE SA2[i] \in 0..A2
  <2>1. CASE i = c + 1
    BY <1>3, <2>1
  <2>2. CASE i # c + 1
    <3>1. SA2[i] = SA[i] /\ SA[i] \in 0..A
      BY <1>2, <2>2
    <3> QED BY <1>2, <1>3, <3>1
  <2> QED BY <2>1, <2>2
<1>6. \A i \in 1..N : \A k \in Accesses : i # c + 1 => R2[i][s][k] = R[i][s][k]
  BY <1>2
<1>7. ASSUME NEW i \in 1..(c + 1)
      PROVE  /\ S2[i] \in Docs /\ D2[S2[i]] = i /\ DA2[S2[i]] = SA2[i]
             /\ SA2[i] > 0 /\ R2[i][s][SA2[i]] = Doc(S2[i])
  <2>1. CASE i = c + 1
    <3>1. R2[c + 1][s][a] = Doc(d)
      BY <1>3, <1>32
    <3> QED BY <1>3, <1>31, <2>1, <3>1
  <2>2. CASE i # c + 1
    <3>1. i \in 1..c /\ i \in 1..N /\ SA[i] \in Accesses
      BY <1>1, <1>2, <2>2 DEF Accesses
    <3>2. S[i] # d
      BY <1>2, <3>1
    <3>3. /\ S[i] \in Docs /\ D[S[i]] = i /\ DA[S[i]] = SA[i]
          /\ SA[i] > 0 /\ R[i][s][SA[i]] = Doc(S[i])
      BY <1>2, <3>1
    <3>4. S2[i] = S[i] /\ SA2[i] = SA[i] /\ D2[S[i]] = D[S[i]] /\ DA2[S[i]] = DA[S[i]]
      BY <2>2, <3>1, <3>2, <3>3
    <3>5. R2[i][s][SA[i]] = R[i][s][SA[i]]
      BY <1>6, <2>2, <3>1
    <3> QED BY <3>3, <3>4, <3>5
  <2> QED BY <2>1, <2>2
<1>8. ASSUME NEW i \in 1..N, i <= c + 1 \/ i <= L2
      PROVE  Readable(SA2[i], R2[i][s])
  <2>1. CASE i = c + 1
    <3>0. /\ SA2[i] = a /\ R2[i][s][a] = Doc(d) /\ IsDoc(R2[i][s][a])
          /\ \A k \in Accesses : R2[i][s][k] = IF k = a THEN Doc(d)
                                              ELSE IF k = 1 /\ L < c + 1 /\ a > 1 THEN At(a)
                                              ELSE R[i][s][k]
      BY <1>3, <1>31, <1>32, <2>1, Values
    <3>1. CASE a = 1
      <4>1. \A k \in 1..a : k = a
        BY <3>1
      <4> QED BY <1>3, <3>0, <3>1, <4>1 DEF Readable
    <3>2. CASE a > 1 /\ L < c + 1
      <4>1. R2[i][s][1] = At(a) /\ \A k \in a..a : k = a
        BY <1>3, <3>0, <3>2 DEF Accesses
      <4> QED BY <1>3, <3>0, <4>1 DEF Readable
    <3>3. CASE a > 1 /\ ~(L < c + 1)
      <4>1. Readable(SA[i], R[i][s]) /\ SA[i] = a - 1
        BY <1>2, <1>3, <2>1, <3>3
      <4>2. PICK st \in 1..(a - 1) : /\ \A k \in st..(a - 1) : IsDoc(R[i][s][k])
                                     /\ st = 1 \/ R[i][s][1] = At(st)
        BY <4>1 DEF Readable
      <4>3. \A k \in st..a : k \in Accesses /\ IsDoc(R2[i][s][k])
        BY <1>3, <3>0, <3>3, <4>2 DEF Accesses
      <4>4. st = 1 \/ R2[i][s][1] = At(st)
        BY <1>3, <3>0, <3>3, <4>2 DEF Accesses
      <4>5. st \in 1..a
        BY <1>3
      <4> QED BY <3>0, <4>3, <4>4, <4>5 DEF Readable
    <3> QED BY <1>3, <3>1, <3>2, <3>3
  <2>2. CASE i # c + 1
    <3>1. i <= c \/ i <= L
      BY <1>2, <1>8, <2>2
    <3>2. SA2[i] = SA[i] /\ SA[i] \in 0..MaxAccess /\ Readable(SA[i], R[i][s])
      BY <1>2, <2>2, <3>1
    <3>3. \A k \in 1..SA[i] : R2[i][s][k] = R[i][s][k]
      BY <1>6, <2>2, <3>2 DEF Accesses
    <3>4. PICK st \in 1..SA[i] : /\ \A k \in st..SA[i] : IsDoc(R[i][s][k])
                                 /\ st = 1 \/ R[i][s][1] = At(st)
      BY <3>2 DEF Readable
    <3>5. (\A k \in st..SA[i] : k \in 1..SA[i]) /\ 1 \in 1..SA[i]
      BY <3>2
    <3> QED BY <3>2, <3>3, <3>4, <3>5 DEF Readable
  <2> QED BY <2>1, <2>2
<1>9. ASSUME NEW i \in 1..N, NEW k \in Accesses, k > SA2[i] PROVE R2[i][s][k] = << >>
  <2>1. CASE i = c + 1
    <3>1. SA2[i] = a /\ k > a
      BY <1>9, <1>31, <2>1
    <3>2. k # a /\ k # 1 /\ k > SA[i]
      BY <1>2, <1>3, <2>1, <3>1 DEF Accesses
    <3>3. R2[i][s][k] = R[i][s][k]
      BY <1>32, <2>1, <3>2
    <3> QED BY <1>2, <3>2, <3>3
  <2>2. CASE i # c + 1
    <3>1. SA2[i] = SA[i] /\ R2[i][s][k] = R[i][s][k]
      BY <1>6, <2>2
    <3>2. k > SA[i]
      BY <1>9, <3>1
    <3>3. \A j \in Accesses : j > SA[i] => R[i][s][j] = << >>
      BY <1>2
    <3> QED BY <3>1, <3>2, <3>3
  <2> QED BY <2>1, <2>2
<1>10. ASSUME NEW i \in 1..N, NEW t \in 0..MaxSearches, t > s, NEW k \in Accesses PROVE R2[i][t][k] = << >>
  <2>1. t # s /\ R2[i][t][k] = R[i][t][k]
    BY <1>2, <1>10
  <2>2. \A j \in Accesses : R[i][t][j] = << >>
    BY <1>2, <1>10
  <2> QED BY <2>1, <2>2
<1>11. S2[c + 1] = d
  BY <1>1
<1> QED BY <1>1, <1>2, <1>3, <1>4, <1>5, <1>7, <1>8, <1>9, <1>10, <1>11 DEF Good, A2

\* The facts that make up Good, for use in proofs.
LEMMA GoodFacts ==
    ASSUME NEW c, NEW s, NEW L, NEW A, NEW last, NEW D, NEW DA, NEW S, NEW SA, NEW R,
           Good(c, s, L, A, last, D, DA, S, SA, R)
    PROVE  /\ c \in 0..N /\ s \in 0..MaxSearches /\ L \in 0..N /\ A \in 0..MaxAccess
           /\ \A e \in Docs : D[e] \in (-1)..c /\ (D[e] > 0 => S[D[e]] = e)
           /\ \A i \in 1..N : SA[i] \in 0..A /\ SA[i] \in 0..MaxAccess
           /\ \A i \in 1..c : /\ S[i] \in Docs /\ D[S[i]] = i /\ DA[S[i]] = SA[i]
                              /\ SA[i] > 0 /\ R[i][s][SA[i]] = Doc(S[i])
                              /\ i \in 1..N /\ SA[i] \in Accesses
           /\ \A i \in 1..N : i <= c \/ i <= L => Readable(SA[i], R[i][s])
           /\ \A i \in 1..N : \A k \in Accesses : k > SA[i] => R[i][s][k] = << >>
           /\ \A i \in 1..N : \A t \in 0..MaxSearches : t > s => \A k \in Accesses : R[i][t][k] = << >>
           /\ c > 0 => last = S[c]
<1> USE Constants
<1>1. c \in 0..N /\ s \in 0..MaxSearches /\ L \in 0..N /\ A \in 0..MaxAccess
  BY DEF Good
<1>2. \A i \in 1..c : i \in 1..N
  BY <1>1
<1>3. \A i \in 1..N : SA[i] \in 0..A /\ SA[i] \in 0..MaxAccess
  BY <1>1 DEF Good
<1>4. \A i \in 1..c : SA[i] \in Accesses
  BY <1>2, <1>3 DEF Good, Accesses
<1> QED BY <1>1, <1>2, <1>3, <1>4, Zenon DEF Good

\* A row of boxes that does not change below the top stays readable.
LEMMA ReadableSame ==
    ASSUME NEW top \in 0..MaxAccess, NEW row, NEW row2, Readable(top, row),
           \A k \in Accesses : k <= top => row2[k] = row[k]
    PROVE  Readable(top, row2)
<1> USE Constants
<1>1. PICK st \in 1..top : /\ \A k \in st..top : IsDoc(row[k])
                           /\ st = 1 \/ row[1] = At(st)
  BY DEF Readable
<1>2. (\A k \in st..top : row2[k] = row[k]) /\ row2[1] = row[1]
  BY DEF Accesses
<1> QED BY <1>1, <1>2 DEF Readable

\* One more document box on top keeps a row readable.
LEMMA ReadableMore ==
    ASSUME NEW top \in 0..MaxAccess, NEW row, NEW row2, Readable(top, row), IsDoc(row2[top + 1]),
           \A k \in Accesses : k <= top => row2[k] = row[k]
    PROVE  Readable(top + 1, row2)
<1> USE Constants
<1>1. PICK st \in 1..top : /\ \A k \in st..top : IsDoc(row[k])
                           /\ st = 1 \/ row[1] = At(st)
  BY DEF Readable
<1>2. (\A k \in st..top : row2[k] = row[k]) /\ row2[1] = row[1]
  BY DEF Accesses
<1>3. \A k \in st..(top + 1) : k \in st..top \/ k = top + 1
  OBVIOUS
<1>4. st \in 1..(top + 1)
  OBVIOUS
<1> QED BY <1>1, <1>2, <1>3, <1>4 DEF Readable

\* The last document is taken out.
Dropped(d, D, DA, S, SA, R, D2, DA2, S2, SA2, R2) ==
    /\ \A e \in Docs : D2[e] = IF e = d THEN -1 ELSE D[e]
    /\ \A e \in Docs : e # d => DA2[e] = DA[e]
    /\ \A i \in 1..N : S2[i] = S[i]
    /\ \A i \in 1..N : SA2[i] = SA[i]
    /\ \A i \in 1..N : \A t \in 0..MaxSearches : \A k \in Accesses : R2[i][t][k] = R[i][t][k]

\* Removing the last document of the list keeps it good.
LEMMA GoodDrop ==
    ASSUME NEW c, NEW s, NEW L, NEW A, NEW last, NEW D, NEW DA, NEW S, NEW SA, NEW R,
           Good(c, s, L, A, last, D, DA, S, SA, R), NEW d \in Docs, D[d] > 0, D[d] = c,
           NEW D2, NEW DA2, NEW S2, NEW SA2, NEW R2,
           Dropped(d, D, DA, S, SA, R, D2, DA2, S2, SA2, R2),
           NEW last2, c > 1 => last2 = S2[c - 1]
    PROVE  Good(c - 1, s, L, A, last2, D2, DA2, S2, SA2, R2)
<1> USE DEF Dropped
<1> USE Constants
<1>1. /\ c \in 0..N /\ s \in 0..MaxSearches /\ L \in 0..N /\ A \in 0..MaxAccess
      /\ \A e \in Docs : D[e] \in (-1)..c /\ (D[e] > 0 => S[D[e]] = e)
  BY GoodFacts, SMT
<1>2. \A i \in 1..N : SA[i] \in 0..A /\ SA[i] \in 0..MaxAccess
  BY GoodFacts, SMT
<1>3. \A i \in 1..c : /\ S[i] \in Docs /\ D[S[i]] = i /\ DA[S[i]] = SA[i]
                      /\ SA[i] > 0 /\ R[i][s][SA[i]] = Doc(S[i])
                      /\ i \in 1..N /\ SA[i] \in Accesses
  BY GoodFacts, SMT
<1>4. c - 1 \in 0..N /\ c \in 1..N
  BY <1>1
<1>5. ASSUME NEW e \in Docs PROVE D2[e] \in (-1)..(c - 1) /\ (D2[e] > 0 => S2[D2[e]] = e)
  <2>1. CASE e = d
    BY <1>4, <2>1
  <2>2. CASE e # d
    <3>1. D2[e] = D[e] /\ D[e] \in (-1)..c /\ D[e] # c
      BY <1>1, <2>2
    <3>2. D[e] > 0 => D[e] \in 1..N
      BY <1>1, <3>1
    <3> QED BY <1>1, <3>1, <3>2
  <2> QED BY <2>1, <2>2
<1>6. ASSUME NEW i \in 1..(c - 1)
      PROVE  /\ S2[i] \in Docs /\ D2[S2[i]] = i /\ DA2[S2[i]] = SA2[i]
             /\ SA2[i] > 0 /\ R2[i][s][SA2[i]] = Doc(S2[i])
  <2>1. i \in 1..c /\ i # c
    BY <1>1
  <2>2. S[i] \in Docs /\ S[i] # d /\ i \in 1..N /\ SA[i] \in Accesses
    BY <1>3, <2>1
  <2>3. R2[i][s][SA[i]] = R[i][s][SA[i]]
    BY <1>1, <2>2
  <2> QED BY <1>3, <2>1, <2>2, <2>3
<1>7. ASSUME NEW i \in 1..N, i <= c - 1 \/ i <= L PROVE Readable(SA2[i], R2[i][s])
  <2>1. i <= c \/ i <= L
    BY <1>1, <1>7
  <2>2. Readable(SA[i], R[i][s])
    BY <2>1, GoodFacts
  <2>3. \A k \in Accesses : R2[i][s][k] = R[i][s][k]
    BY <1>1
  <2>4. Readable(SA[i], R2[i][s])
    BY <1>2, <2>2, <2>3, ReadableSame
  <2> QED BY <2>4
<1>8. ASSUME NEW i \in 1..N, NEW k \in Accesses, k > SA2[i] PROVE R2[i][s][k] = << >>
  <2>1. R2[i][s][k] = R[i][s][k] /\ SA2[i] = SA[i]
    BY <1>1
  <2>2. \A j \in Accesses : j > SA[i] => R[i][s][j] = << >>
    BY GoodFacts
  <2> QED BY <1>8, <2>1, <2>2
<1>9. ASSUME NEW i \in 1..N, NEW t \in 0..MaxSearches, t > s, NEW k \in Accesses PROVE R2[i][t][k] = << >>
  <2>1. \A j \in Accesses : R[i][t][j] = << >>
    BY <1>9, GoodFacts
  <2> QED BY <2>1
<1>10. c - 1 > 0 => last2 = S2[c - 1]
  BY <1>4
<1>11. \A i \in 1..N : SA2[i] \in 0..A
  BY <1>2
<1> QED BY <1>1, <1>4, <1>5, <1>6, <1>7, <1>8, <1>9, <1>10, <1>11 DEF Good

\* Another document is taken out, and the last one moves into its slot.
Moved(d, a, s, last, D, DA, S, SA, R, D2, DA2, S2, SA2, R2) ==
    /\ \A e \in Docs : D2[e] = IF e = last THEN D[d] ELSE IF e = d THEN -1 ELSE D[e]
    /\ \A e \in Docs : DA2[e] = IF e = last THEN a ELSE IF e = d THEN a ELSE DA[e]
    /\ \A i \in 1..N : S2[i] = IF i = D[d] THEN last ELSE S[i]
    /\ \A i \in 1..N : SA2[i] = IF i = D[d] THEN a ELSE SA[i]
    /\ \A i \in 1..N : \A t \in 0..MaxSearches : \A k \in Accesses :
          R2[i][t][k] = IF i = D[d] /\ t = s /\ k = a THEN Doc(last) ELSE R[i][t][k]

\* Removing another one keeps it good: the last document has moved into its slot under
\* the next access count, and the box for it follows the earlier ones.
LEMMA GoodMove ==
    ASSUME NEW c, NEW s, NEW L, NEW A, NEW last, NEW D, NEW DA, NEW S, NEW SA, NEW R,
           Good(c, s, L, A, last, D, DA, S, SA, R), NEW d \in Docs, D[d] > 0, D[d] # c,
           NEW a, a = DA[d] + 1, Larger(A, a) <= MaxAccess,
           NEW D2, NEW DA2, NEW S2, NEW SA2, NEW R2,
           Moved(d, a, s, last, D, DA, S, SA, R, D2, DA2, S2, SA2, R2),
           NEW last2, last2 = S2[c - 1]
    PROVE  Good(c - 1, s, L, Larger(A, a), last2, D2, DA2, S2, SA2, R2)
<1> DEFINE A2 == Larger(A, a)
<1> USE DEF Moved
<1> USE Constants
<1>1. /\ c \in 0..N /\ s \in 0..MaxSearches /\ L \in 0..N /\ A \in 0..MaxAccess
      /\ \A e \in Docs : D[e] \in (-1)..c /\ (D[e] > 0 => S[D[e]] = e)
  BY GoodFacts, SMT
<1>2. \A i \in 1..N : SA[i] \in 0..A /\ SA[i] \in 0..MaxAccess
  BY GoodFacts, SMT
<1>3. \A i \in 1..c : /\ S[i] \in Docs /\ D[S[i]] = i /\ DA[S[i]] = SA[i]
                      /\ SA[i] > 0 /\ R[i][s][SA[i]] = Doc(S[i])
                      /\ i \in 1..N /\ SA[i] \in Accesses
  BY GoodFacts, SMT
<1> DEFINE j == D[d]
<1>4. j \in 1..(c - 1) /\ j \in 1..N /\ c \in 1..N /\ c - 1 \in 1..N /\ S[j] = d /\ j \in 1..c /\ c \in 1..c
  BY <1>1
<1>5. last \in Docs /\ D[last] = c /\ last # d /\ S[c] = last
  <2>1. last = S[c]
    BY <1>4, GoodFacts
  <2> QED BY <1>3, <1>4, <2>1
<1>6. a = SA[j] + 1 /\ a \in 1..MaxAccess /\ A2 \in 0..MaxAccess /\ A <= A2 /\ a <= A2 /\ a \in Accesses
  <2>1. DA[d] = SA[j]
    BY <1>3, <1>4
  <2> QED BY <1>1, <1>2, <1>4, <2>1 DEF Larger, Accesses
<1> HIDE DEF j
<1>7. ASSUME NEW e \in Docs PROVE D2[e] \in (-1)..(c - 1) /\ (D2[e] > 0 => S2[D2[e]] = e)
  <2>1. CASE e = last
    <3>1. D2[e] = j
      BY <2>1 DEF j
    <3> QED BY <1>4, <2>1, <3>1 DEF j
  <2>2. CASE e = d
    BY <1>4, <1>5, <2>2
  <2>3. CASE e # last /\ e # d
    <3>1. D2[e] = D[e] /\ D[e] \in (-1)..c
      BY <1>1, <2>3
    <3>2. D[e] # c /\ D[e] # j
      BY <1>1, <1>4, <1>5, <2>3
    <3>3. D[e] > 0 => D[e] \in 1..N
      BY <1>1, <3>1
    <3>4. D[e] > 0 => S2[D[e]] = S[D[e]]
      BY <3>2, <3>3 DEF j
    <3> QED BY <1>1, <3>1, <3>2, <3>4
  <2> QED BY <2>1, <2>2, <2>3
<1>8. ASSUME NEW i \in 1..N PROVE SA2[i] \in 0..A2
  <2>1. CASE i = j
    BY <1>6, <2>1 DEF j
  <2>2. CASE i # j
    <3>1. SA2[i] = SA[i] /\ SA[i] \in 0..A
      BY <1>2, <2>2 DEF j
    <3> QED BY <1>1, <1>6, <3>1
  <2> QED BY <2>1, <2>2
<1>9. ASSUME NEW i \in 1..N, i # j PROVE \A k \in Accesses : R2[i][s][k] = R[i][s][k]
  BY <1>1, <1>9 DEF j
<1>10. /\ S2[j] = last /\ SA2[j] = a /\ R2[j][s][a] = Doc(last)
       /\ \A k \in Accesses : k # a => R2[j][s][k] = R[j][s][k]
  BY <1>1, <1>4, <1>6 DEF j
<1>11. ASSUME NEW i \in 1..(c - 1)
       PROVE  /\ S2[i] \in Docs /\ D2[S2[i]] = i /\ DA2[S2[i]] = SA2[i]
              /\ SA2[i] > 0 /\ R2[i][s][SA2[i]] = Doc(S2[i])
  <2>1. CASE i = j
    <3>1. D2[last] = j /\ DA2[last] = a
      BY <1>5 DEF j
    <3> QED BY <1>5, <1>6, <1>10, <2>1, <3>1
  <2>2. CASE i # j
    <3>1. i \in 1..c /\ i # c
      BY <1>1
    <3>2. /\ S[i] \in Docs /\ D[S[i]] = i /\ DA[S[i]] = SA[i]
          /\ SA[i] > 0 /\ R[i][s][SA[i]] = Doc(S[i])
          /\ i \in 1..N /\ SA[i] \in Accesses
      BY <1>3, <3>1
    <3>3. S[i] # last /\ S[i] # d
      BY <1>5, <2>2, <3>1, <3>2 DEF j
    <3>4. S2[i] = S[i] /\ SA2[i] = SA[i] /\ D2[S[i]] = D[S[i]] /\ DA2[S[i]] = DA[S[i]]
      BY <2>2, <3>2, <3>3 DEF j
    <3>5. R2[i][s][SA[i]] = R[i][s][SA[i]]
      BY <1>9, <2>2, <3>2
    <3> QED BY <3>2, <3>4, <3>5
  <2> QED BY <2>1, <2>2
<1>12. ASSUME NEW i \in 1..N, i <= c - 1 \/ i <= L PROVE Readable(SA2[i], R2[i][s])
  <2>1. i <= c \/ i <= L
    BY <1>1, <1>12
  <2>2. Readable(SA[i], R[i][s])
    BY <2>1, GoodFacts
  <2>3. CASE i = j
    <3>1. IsDoc(R2[j][s][SA[j] + 1])
      BY <1>5, <1>6, <1>10, Values
    <3>2. \A k \in Accesses : k <= SA[j] => R2[j][s][k] = R[j][s][k]
      BY <1>2, <1>4, <1>6, <1>10 DEF Accesses
    <3>3. Readable(SA[j], R[j][s]) /\ SA[j] \in 0..MaxAccess
      BY <1>2, <2>2, <2>3
    <3>4. Readable(SA[j] + 1, R2[j][s])
      BY <3>1, <3>2, <3>3, ReadableMore
    <3> QED BY <1>6, <1>10, <2>3, <3>4
  <2>4. CASE i # j
    <3>1. SA2[i] = SA[i]
      BY <2>4 DEF j
    <3>2. Readable(SA[i], R2[i][s])
      BY <1>2, <1>9, <2>2, <2>4, ReadableSame
    <3> QED BY <3>1, <3>2
  <2> QED BY <2>3, <2>4
<1>13. ASSUME NEW i \in 1..N, NEW k \in Accesses, k > SA2[i] PROVE R2[i][s][k] = << >>
  <2>1. \A x \in Accesses : x > SA[i] => R[i][s][x] = << >>
    BY GoodFacts
  <2>2. CASE i = j
    <3>1. k > SA[i] /\ k # a
      BY <1>2, <1>4, <1>6, <1>10, <1>13, <2>2 DEF Accesses
    <3> QED BY <1>10, <2>1, <2>2, <3>1
  <2>3. CASE i # j
    <3>1. SA2[i] = SA[i]
      BY <2>3 DEF j
    <3> QED BY <1>9, <1>13, <2>1, <2>3, <3>1
  <2> QED BY <2>2, <2>3
<1>14. ASSUME NEW i \in 1..N, NEW t \in 0..MaxSearches, t > s, NEW k \in Accesses PROVE R2[i][t][k] = << >>
  <2>1. \A x \in Accesses : R[i][t][x] = << >>
    BY <1>14, GoodFacts
  <2>2. t # s
    BY <1>1, <1>14
  <2> QED BY <2>1, <2>2
<1>15. c - 1 \in 0..N
  BY <1>4
<1> QED BY <1>1, <1>6, <1>7, <1>8, <1>11, <1>12, <1>13, <1>14, <1>15 DEF Good

\* The slots are written anew under the next search number.
Ended(c, s, S, SA, R, R2) ==
    \A i \in 1..N : \A t \in 0..MaxSearches : \A k \in Accesses :
        R2[i][t][k] = IF t = s + 1 /\ i <= c /\ k = SA[i] THEN Doc(S[i])
                      ELSE IF t = s + 1 /\ i <= c /\ k = 1 THEN At(SA[i])
                      ELSE R[i][t][k]

\* The end of a search keeps it good: under the next search number every slot has its
\* document, and box 1 says where to start.
LEMMA GoodEnd ==
    ASSUME NEW c, NEW s, NEW L, NEW A, NEW last, NEW D, NEW DA, NEW S, NEW SA, NEW R,
           Good(c, s, L, A, last, D, DA, S, SA, R), s < MaxSearches, NEW R2,
           Ended(c, s, S, SA, R, R2)
    PROVE  Good(c, s + 1, c, A, last, D, DA, S, SA, R2)
<1> USE DEF Ended
<1> USE Constants
<1>1. /\ c \in 0..N /\ s \in 0..MaxSearches /\ L \in 0..N /\ A \in 0..MaxAccess
      /\ \A e \in Docs : D[e] \in (-1)..c /\ (D[e] > 0 => S[D[e]] = e)
  BY GoodFacts, SMT
<1>2. \A i \in 1..N : SA[i] \in 0..A /\ SA[i] \in 0..MaxAccess
  BY GoodFacts, SMT
<1>3. \A i \in 1..c : /\ S[i] \in Docs /\ D[S[i]] = i /\ DA[S[i]] = SA[i]
                      /\ SA[i] > 0 /\ R[i][s][SA[i]] = Doc(S[i])
                      /\ i \in 1..N /\ SA[i] \in Accesses
  BY GoodFacts, SMT
<1>4. s + 1 \in 0..MaxSearches
  BY <1>1
<1>5. ASSUME NEW i \in 1..N, NEW t \in 0..MaxSearches, t > s, NEW k \in Accesses PROVE R[i][t][k] = << >>
  BY <1>5, GoodFacts
<1>6. ASSUME NEW i \in 1..c PROVE R2[i][s + 1][SA[i]] = Doc(S[i])
  BY <1>1, <1>3, <1>4
<1>7. ASSUME NEW i \in 1..N, i <= c PROVE Readable(SA[i], R2[i][s + 1])
  <2>1. i \in 1..c
    BY <1>1, <1>7
  <2>2. IsDoc(R2[i][s + 1][SA[i]]) /\ SA[i] \in 1..SA[i]
    BY <1>2, <1>3, <1>6, <2>1, Values
  <2>3. SA[i] = 1 \/ R2[i][s + 1][1] = At(SA[i])
    BY <1>1, <1>4, <1>7 DEF Accesses
  <2>4. \A k \in SA[i]..SA[i] : k = SA[i]
    BY <1>2
  <2> QED BY <2>2, <2>3, <2>4 DEF Readable
<1>8. ASSUME NEW i \in 1..N, NEW k \in Accesses, k > SA[i] PROVE R2[i][s + 1][k] = << >>
  <2>1. k # SA[i] /\ s + 1 > s
    BY <1>1, <1>2, <1>8 DEF Accesses
  <2>2. R[i][s + 1][k] = << >>
    BY <1>4, <1>5, <2>1
  <2>3. i <= c => k # 1
    BY <1>1, <1>2, <1>3, <1>8 DEF Accesses
  <2>4. R2[i][s + 1][k] = R[i][s + 1][k]
    BY <1>4, <2>1, <2>3
  <2> QED BY <2>2, <2>4
<1>9. ASSUME NEW i \in 1..N, NEW t \in 0..MaxSearches, t > s + 1, NEW k \in Accesses PROVE R2[i][t][k] = << >>
  <2>1. t > s /\ t # s + 1
    BY <1>1, <1>9
  <2> QED BY <1>5, <2>1
<1>10. c > 0 => last = S[c]
  BY GoodFacts
<1> QED BY <1>1, <1>2, <1>3, <1>4, <1>6, <1>7, <1>8, <1>9, <1>10 DEF Good

-----------------------------------------------------------------------------
\* Identifiers and positions.

\* The position that belongs to an identifier.
PosOf(b) ==
    LET p == b \div Radix
        q == p \div Radix
    IN  generatePosition(b % Radix, q \div Radix, q % Radix, p % Radix)
Parts(b) ==
    LET p == b \div Radix
        q == p \div Radix
    IN  <<b % Radix, q \div Radix, q % Radix, p % Radix>>
Placed(C) == \A b \in DOMAIN C : C[b].pos = PosOf(b)
Digits == 0..(Radix - 1)

\* An identifier is a number that tells its parts.
LEMMA BidFacts ==
    ASSUME NEW w \in Digits, NEW i \in Nat, NEW s \in Digits, NEW a \in Digits
    PROVE  /\ createBid(w, i, s, a) \in Nat
           /\ PosOf(createBid(w, i, s, a)) = generatePosition(w, i, s, a)
           /\ Parts(createBid(w, i, s, a)) = <<w, i, s, a>>
<1> USE Constants
<1> DEFINE u == i * Radix + s
           v == u * Radix + a
           b == v * Radix + w
<1>1. u \in Nat /\ u \div Radix = i /\ u % Radix = s
  BY DropDigit DEF Digits
<1> HIDE DEF u
<1>2. v \in Nat /\ v \div Radix = u /\ v % Radix = a
  BY <1>1, DropDigit DEF Digits
<1> HIDE DEF v
<1>3. b \in Nat /\ b \div Radix = v /\ b % Radix = w
  BY <1>2, DropDigit DEF Digits
<1>4. createBid(w, i, s, a) = b
  BY DEF createBid, u, v
<1> HIDE DEF b
<1>5. PosOf(b) = generatePosition(w, i, s, a)
  BY <1>1, <1>2, <1>3 DEF PosOf
<1>6. Parts(b) = <<w, i, s, a>>
  BY <1>1, <1>2, <1>3 DEF Parts
<1> QED BY <1>3, <1>4, <1>5, <1>6

\* The counters in use are digits.
LEMMA InRange ==
    /\ \A w \in Keywords : w \in Digits
    /\ \A i \in 1..N : i \in Nat
    /\ \A s \in 0..MaxSearches : s \in Digits
    /\ \A a \in Accesses : a \in Digits
    /\ \A a \in 1..MaxAccess : a \in Accesses
BY Constants DEF Digits, Accesses

\* Different parts have different identifiers.
LEMMA BoxApart ==
    ASSUME NEW w \in Keywords, NEW i \in 1..N, NEW s \in 0..MaxSearches, NEW a \in Accesses,
           NEW x \in Keywords, NEW j \in 1..N, NEW t \in 0..MaxSearches, NEW c \in Accesses,
           createBid(w, i, s, a) = createBid(x, j, t, c)
    PROVE  w = x /\ i = j /\ s = t /\ a = c
<1>1. w \in Digits /\ i \in Nat /\ s \in Digits /\ a \in Digits
  BY InRange
<1>2. x \in Digits /\ j \in Nat /\ t \in Digits /\ c \in Digits
  BY InRange
<1>3. Parts(createBid(w, i, s, a)) = <<w, i, s, a>> /\ Parts(createBid(x, j, t, c)) = <<x, j, t, c>>
  BY <1>1, <1>2, BidFacts
<1>4. <<w, i, s, a>> = <<x, j, t, c>>
  BY <1>3
<1> QED BY <1>4

\* Positions are leaves.
LEMMA PosLeaf ==
    ASSUME NEW w \in Keywords, NEW i \in 1..N, NEW s \in 0..MaxSearches, NEW a \in 1..MaxAccess
    PROVE  generatePosition(w, i, s, a) \in Leaves
<1>1. PRF(w, i, s, a) \in Nat
  BY HorusAssumption DEF N
<1>2. Depth \in Nat /\ Depth - 1 \in 0..Depth /\ (Depth - 1) + 1 = Depth
  BY HorusAssumption
<1>3. 2^(Depth - 1) \in Nat \ {0} /\ 2^Depth = 2 * 2^(Depth - 1)
  BY <1>2, Powers
<1>4. 2^Depth - 1 \in Nat /\ 2^Depth - 1 > 0
  BY <1>3
<1>5. generatePosition(w, i, s, a) \in 0..(2^Depth - 2)
  <2>1. PICK p, t : p = PRF(w, i, s, a) /\ t = 2^Depth - 1
    OBVIOUS
  <2>2. p % t \in 0..(t - 1)
    BY <1>1, <1>4, <2>1
  <2>3. generatePosition(w, i, s, a) = p % t
    BY <2>1 DEF generatePosition
  <2> QED BY <1>3, <2>1, <2>2, <2>3
<1> QED BY <1>3, <1>5 DEF Leaves

-----------------------------------------------------------------------------
\* The boxes of a keyword.
Look(C, w, i, s, a) ==
    IF createBid(w, i, s, a) \in DOMAIN C THEN C[createBid(w, i, s, a)].value ELSE << >>
Rows(C, w) == [i \in 1..N |-> [s \in 0..MaxSearches |-> [a \in Accesses |-> Look(C, w, i, s, a)]]]

\* The boxes of a keyword, one by one.
LEMMA RowsAt ==
    ASSUME NEW C, NEW w, NEW i \in 1..N, NEW s \in 0..MaxSearches, NEW a \in Accesses
    PROVE  Rows(C, w)[i][s][a] = Look(C, w, i, s, a)
BY DEF Rows

-----------------------------------------------------------------------------
\* What the boxes hold in a damaged ORAM too: every copy is at the leaf that belongs to
\* its identifier, and holds a document or a start within the access bound A.
Value(v, top) == IsDoc(v) \/ \E j \in 1..top : v = At(j)
Lawful(o, A) ==
    \A k, c : HasBox(o, k, c) => /\ c.pos = PosOf(k) /\ k % Radix \in Keywords
                                 /\ Value(c.value, A[k % Radix])
Fine(o, A) == Sound(o) /\ Lawful(o, A) /\ (~o.damaged => Agree(o))
Bounds(A) == \A w \in Keywords : A[w] \in 0..MaxAccess

\* A larger access bound allows more.
LEMMA FineMore ==
    ASSUME NEW o, NEW A, NEW B, Fine(o, A), Bounds(A), Bounds(B), \A w \in Keywords : A[w] <= B[w]
    PROVE  Fine(o, B)
<1> USE Constants
<1>1. ASSUME NEW k, NEW c, HasBox(o, k, c)
      PROVE  c.pos = PosOf(k) /\ k % Radix \in Keywords /\ Value(c.value, B[k % Radix])
  <2>1. PICK w : w = k % Radix
    OBVIOUS
  <2>2. c.pos = PosOf(k) /\ w \in Keywords /\ Value(c.value, A[w])
    BY <1>1, <2>1 DEF Fine, Lawful
  <2>3. A[w] \in 0..MaxAccess /\ B[w] \in 0..MaxAccess /\ A[w] <= B[w]
    BY <2>2 DEF Bounds
  <2>4. Value(c.value, B[w])
    BY <2>2, <2>3 DEF Value
  <2> QED BY <2>1, <2>2, <2>4
<1> QED BY <1>1 DEF Fine, Lawful

\* A fine ORAM that is not damaged has its boxes in place.
LEMMA FinePlaced ==
    ASSUME NEW o, NEW A, Fine(o, A), ~o.damaged
    PROVE  OK(o) /\ Placed(Contents(o)) /\ DOMAIN Contents(o) = Kept(o)
<1>1. OK(o)
  BY DEF Fine, OK, Sound
<1>2. /\ DOMAIN Contents(o) = Kept(o)
      /\ \A k, c : HasBox(o, k, c) <=> k \in Kept(o) /\ c = Contents(o)[k]
  BY <1>1, ContentsFacts
<1> QED BY <1>1, <1>2 DEF Placed, Fine, Lawful

\* The boxes new are lawful.
LawfulNew(new, A) ==
    \A k \in DOMAIN new : /\ new[k].pos = PosOf(k) /\ k % Radix \in Keywords
                          /\ Value(new[k].value, A[k % Radix])

\* An update with lawful boxes.
LEMMA FineUpdate ==
    ASSUME NEW o, NEW A, Fine(o, A), NEW new, LawfulNew(new, A), NEW r, Updated(o, new, r)
    PROVE  /\ Fine(r, A) /\ (o.damaged => r.damaged)
           /\ ~r.damaged => Contents(r) = Overlay(new, Contents(o))
<1>1. Sound(r) /\ FromOld(o, new, r) /\ (o.damaged => r.damaged)
  BY DEF Updated
<1>2. Lawful(r, A)
  BY <1>1 DEF Lawful, LawfulNew, FromOld, Fine
<1>3. \A k \in DOMAIN new : AtLeaf(o, k, new[k].pos)
  BY DEF AtLeaf, LawfulNew, Fine, Lawful
<1>4. ~r.damaged => Agree(r) /\ Contents(r) = Overlay(new, Contents(o))
  BY <1>1, <1>3 DEF Fine, Updated
<1> QED BY <1>1, <1>2, <1>4 DEF Fine

\* WriteBox writes one box.
WroteBox(o, A, w, i, s, a, v, r) ==
    /\ Fine(r, A) /\ (o.damaged => r.damaged)
    /\ ~r.damaged =>
          \A x \in Keywords : \A j \in 1..N : \A t \in 0..MaxSearches : \A k \in Accesses :
             Rows(Contents(r), x)[j][t][k] =
                IF x = w /\ j = i /\ t = s /\ k = a THEN v ELSE Rows(Contents(o), x)[j][t][k]

\* WriteBox changes one box, or does damage.
LEMMA WriteStep ==
    ASSUME NEW o, NEW A, Fine(o, A),
           NEW w \in Keywords, NEW i \in 1..N, NEW s \in 0..MaxSearches, NEW a \in 1..MaxAccess,
           NEW v, Value(v, A[w]),
           NEW r \in WriteBox(o, createBid(w, i, s, a), v, generatePosition(w, i, s, a)), ~r.threw
    PROVE  WroteBox(o, A, w, i, s, a, v, r)
<1> DEFINE b == createBid(w, i, s, a)
           p == generatePosition(w, i, s, a)
           C == Contents(o)
           E == Contents(r)
<1>1. w \in Digits /\ i \in Nat /\ s \in Digits /\ a \in Digits /\ a \in Accesses
  BY InRange
<1>2. b \in Nat /\ PosOf(b) = p /\ p \in Leaves /\ b % Radix = w
  BY <1>1, BidFacts, PosLeaf DEF Parts
<1>3. Updated(o, One(b, v, p), r)
  BY <1>2, WriteBoxFacts DEF Fine
<1> HIDE DEF b, p, C, E
<1>4. LawfulNew(One(b, v, p), A)
  BY <1>2 DEF LawfulNew, One
<1>5. /\ Fine(r, A) /\ (o.damaged => r.damaged)
      /\ ~r.damaged => E = Overlay(One(b, v, p), C)
  BY <1>3, <1>4, FineUpdate DEF C, E
<1>6. ASSUME ~r.damaged
      PROVE  /\ DOMAIN E = {b} \cup DOMAIN C
             /\ E[b].pos = p /\ E[b].value = v
             /\ \A k \in DOMAIN C : k # b => E[k] = C[k]
  BY <1>5, <1>6 DEF Overlay, One
<1>7. ASSUME ~r.damaged, NEW x \in Keywords, NEW j \in 1..N, NEW t \in 0..MaxSearches, NEW k \in Accesses
      PROVE  Rows(E, x)[j][t][k] =
                IF x = w /\ j = i /\ t = s /\ k = a THEN v ELSE Rows(C, x)[j][t][k]
  <2>1. Rows(E, x)[j][t][k] = Look(E, x, j, t, k) /\ Rows(C, x)[j][t][k] = Look(C, x, j, t, k)
    BY RowsAt
  <2>3. CASE x = w /\ j = i /\ t = s /\ k = a
    <3>1. createBid(x, j, t, k) = b
      BY <2>3 DEF b
    <3> QED BY <1>6, <1>7, <2>1, <2>3, <3>1 DEF Look
  <2>4. CASE ~(x = w /\ j = i /\ t = s /\ k = a)
    <3>1. ASSUME createBid(x, j, t, k) = b PROVE FALSE
      <4>1. createBid(x, j, t, k) = createBid(w, i, s, a)
        BY <3>1 DEF b
      <4>2. x = w /\ j = i /\ t = s /\ k = a
        BY <1>1, <4>1, BoxApart
      <4> QED BY <2>4, <4>2
    <3> QED BY <1>6, <1>7, <2>1, <2>4, <3>1 DEF Look
  <2> QED BY <2>3, <2>4
<1> QED BY <1>5, <1>7, Zenon DEF WroteBox, C, E

\* batchWrite changes the boxes it is given.
WroteAll(o, A, values, r) ==
    /\ Fine(r, A) /\ r.damaged = o.damaged
    /\ ~r.damaged =>
          \A x, j, t, k : Look(Contents(r), x, j, t, k) =
             IF createBid(x, j, t, k) \in DOMAIN values THEN values[createBid(x, j, t, k)]
             ELSE Look(Contents(o), x, j, t, k)

\* A batch of writes keeps what holds of the ORAM, and changes the boxes written and no other.
LEMMA WriteAll ==
    ASSUME NEW o, NEW A, Fine(o, A),
           NEW values, NEW pos, DOMAIN pos = DOMAIN values, DOMAIN pos \subseteq Nat,
           IsFiniteSet(DOMAIN pos), \A b \in DOMAIN pos : pos[b] \in Leaves /\ pos[b] = PosOf(b),
           \A b \in DOMAIN values : b % Radix \in Keywords /\ Value(values[b], A[b % Radix]),
           NEW r, r = batchWrite(o, values, pos), ~r.threw
    PROVE  WroteAll(o, A, values, r)
<1> DEFINE C == Contents(o)
           E == Contents(r)
           new == Boxes(values, pos)
<1>1. Sound(o)
  BY DEF Fine
<1>2. Updated(o, new, r) /\ r.damaged = o.damaged
  BY <1>1, BatchWriteFacts
<1>3. DOMAIN new = DOMAIN values /\ \A b \in DOMAIN values : new[b].value = values[b] /\ new[b].pos = pos[b]
  BY DEF Boxes
<1> HIDE DEF C, E, new
<1>4. LawfulNew(new, A)
  BY <1>3 DEF LawfulNew
<1>5. /\ Fine(r, A)
      /\ ~r.damaged => E = Overlay(new, C)
  BY <1>2, <1>4, FineUpdate DEF C, E
<1>6. ASSUME ~r.damaged, NEW x, NEW j, NEW t, NEW k
      PROVE  Look(E, x, j, t, k) =
                IF createBid(x, j, t, k) \in DOMAIN values THEN values[createBid(x, j, t, k)]
                ELSE Look(C, x, j, t, k)
  <2>1. /\ DOMAIN E = DOMAIN values \cup DOMAIN C
        /\ \A b \in DOMAIN values : E[b] = new[b]
        /\ \A b \in DOMAIN C : b \notin DOMAIN values => E[b] = C[b]
    BY <1>3, <1>5, <1>6 DEF Overlay
  <2> QED BY <1>3, <2>1 DEF Look
<1> QED BY <1>2, <1>5, <1>6, Zenon DEF WroteAll, C, E

-----------------------------------------------------------------------------
\* The maps of a keyword, by document and by slot.
DV(m, w) == [d \in Docs |-> Slot(m, w, d)]
DAV(m, w) == [d \in Docs |-> IF Has(m, Bid0(w, d)) THEN m[Bid0(w, d)][2] ELSE 0]
SV(m, w) == [i \in 1..N |-> IF Has(m, Bid1(w, i)) THEN m[Bid1(w, i)][1] ELSE 0]
SAV(m, w) == [i \in 1..N |-> IF Has(m, Bid1(w, i)) THEN m[Bid1(w, i)][2] ELSE 0]

\* An entry for a document.
LEMMA InsertDoc ==
    ASSUME NEW m, NEW w, NEW d, NEW i, NEW a, NEW x
    PROVE  LET n == insert(m, Bid0(w, d), <<i, a>>)
           IN  /\ \A e \in Docs : DV(n, x)[e] = IF x = w /\ e = d THEN i ELSE DV(m, x)[e]
               /\ \A e \in Docs : DAV(n, x)[e] = IF x = w /\ e = d THEN a ELSE DAV(m, x)[e]
               /\ \A j \in 1..N : SV(n, x)[j] = SV(m, x)[j] /\ SAV(n, x)[j] = SAV(m, x)[j]
<1> DEFINE key == Bid0(w, d)
           n == insert(m, key, <<i, a>>)
<1>1. /\ DOMAIN n = DOMAIN m \cup {key} /\ n[key] = <<i, a>>
      /\ \A k \in DOMAIN m : k # key => n[k] = m[k]
  BY DEF insert
<1>2. \A e : Bid0(x, e) = key <=> x = w /\ e = d
  BY DEF Bid0
<1>3. \A j : Bid1(x, j) # key
  BY DEF Bid0, Bid1
<1> HIDE DEF key, n
<1>4. ASSUME NEW e \in Docs
      PROVE  /\ DV(n, x)[e] = IF x = w /\ e = d THEN i ELSE DV(m, x)[e]
             /\ DAV(n, x)[e] = IF x = w /\ e = d THEN a ELSE DAV(m, x)[e]
  <2>1. CASE x = w /\ e = d
    <3>1. Bid0(x, e) = key
      BY <1>2, <2>1
    <3> QED BY <1>1, <2>1, <3>1 DEF DV, DAV, Slot, Has
  <2>2. CASE ~(x = w /\ e = d)
    <3>1. Bid0(x, e) # key
      BY <1>2, <2>2
    <3> QED BY <1>1, <2>2, <3>1 DEF DV, DAV, Slot, Has
  <2> QED BY <2>1, <2>2
<1>5. ASSUME NEW j \in 1..N PROVE SV(n, x)[j] = SV(m, x)[j] /\ SAV(n, x)[j] = SAV(m, x)[j]
  BY <1>1, <1>3 DEF SV, SAV, Has
<1> QED BY <1>4, <1>5 DEF key, n

\* An entry for a slot.
LEMMA InsertSlot ==
    ASSUME NEW m, NEW w, NEW i, NEW d, NEW a, NEW x
    PROVE  LET n == insert(m, Bid1(w, i), <<d, a>>)
           IN  /\ \A e \in Docs : DV(n, x)[e] = DV(m, x)[e] /\ DAV(n, x)[e] = DAV(m, x)[e]
               /\ \A j \in 1..N : SV(n, x)[j] = IF x = w /\ j = i THEN d ELSE SV(m, x)[j]
               /\ \A j \in 1..N : SAV(n, x)[j] = IF x = w /\ j = i THEN a ELSE SAV(m, x)[j]
<1> DEFINE key == Bid1(w, i)
           n == insert(m, key, <<d, a>>)
<1>1. /\ DOMAIN n = DOMAIN m \cup {key} /\ n[key] = <<d, a>>
      /\ \A k \in DOMAIN m : k # key => n[k] = m[k]
  BY DEF insert
<1>2. \A j : Bid1(x, j) = key <=> x = w /\ j = i
  BY DEF Bid1
<1>3. \A e : Bid0(x, e) # key
  BY DEF Bid0, Bid1
<1> HIDE DEF key, n
<1>4. ASSUME NEW j \in 1..N
      PROVE  /\ SV(n, x)[j] = IF x = w /\ j = i THEN d ELSE SV(m, x)[j]
             /\ SAV(n, x)[j] = IF x = w /\ j = i THEN a ELSE SAV(m, x)[j]
  <2>1. CASE x = w /\ j = i
    <3>1. Bid1(x, j) = key
      BY <1>2, <2>1
    <3> QED BY <1>1, <2>1, <3>1 DEF SV, SAV, Has
  <2>2. CASE ~(x = w /\ j = i)
    <3>1. Bid1(x, j) # key
      BY <1>2, <2>2
    <3> QED BY <1>1, <2>2, <3>1 DEF SV, SAV, Has
  <2> QED BY <2>1, <2>2
<1>5. ASSUME NEW e \in Docs PROVE DV(n, x)[e] = DV(m, x)[e] /\ DAV(n, x)[e] = DAV(m, x)[e]
  BY <1>1, <1>3 DEF DV, DAV, Slot, Has
<1> QED BY <1>4, <1>5 DEF key, n

\* Filled makes both entries.
LEMMA FilledViews ==
    ASSUME NEW m, NEW w, NEW i, NEW d, NEW a, NEW x
    PROVE  LET n == Filled(m, w, i, d, a)
           IN  /\ \A e \in Docs : DV(n, x)[e] = IF x = w /\ e = d THEN i ELSE DV(m, x)[e]
               /\ \A e \in Docs : DAV(n, x)[e] = IF x = w /\ e = d THEN a ELSE DAV(m, x)[e]
               /\ \A j \in 1..N : SV(n, x)[j] = IF x = w /\ j = i THEN d ELSE SV(m, x)[j]
               /\ \A j \in 1..N : SAV(n, x)[j] = IF x = w /\ j = i THEN a ELSE SAV(m, x)[j]
<1> DEFINE l == insert(m, Bid0(w, d), <<i, a>>)
           n == insert(l, Bid1(w, i), <<d, a>>)
<1>1. Filled(m, w, i, d, a) = n
  BY DEF Filled
<1>2. /\ \A e \in Docs : DV(l, x)[e] = IF x = w /\ e = d THEN i ELSE DV(m, x)[e]
      /\ \A e \in Docs : DAV(l, x)[e] = IF x = w /\ e = d THEN a ELSE DAV(m, x)[e]
      /\ \A j \in 1..N : SV(l, x)[j] = SV(m, x)[j] /\ SAV(l, x)[j] = SAV(m, x)[j]
  BY InsertDoc
<1> HIDE DEF l
<1>3. /\ \A e \in Docs : DV(n, x)[e] = DV(l, x)[e] /\ DAV(n, x)[e] = DAV(l, x)[e]
      /\ \A j \in 1..N : SV(n, x)[j] = IF x = w /\ j = i THEN d ELSE SV(l, x)[j]
      /\ \A j \in 1..N : SAV(n, x)[j] = IF x = w /\ j = i THEN a ELSE SAV(l, x)[j]
  BY InsertSlot
<1> HIDE DEF n
<1> QED BY <1>1, <1>2, <1>3

-----------------------------------------------------------------------------
\* The invariant.

\* The boxes staged by a setup, as rows.
StagedLook(p, w, i, s, a) == IF s = 0 /\ Has(p, <<w, i, a>>) THEN p[<<w, i, a>>] ELSE << >>
StagedRows(p, w) ==
    [i \in 1..N |-> [s \in 0..MaxSearches |-> [a \in Accesses |-> StagedLook(p, w, i, s, a)]]]

Fn(f) == f = [w \in Keywords |-> f[w]]

\* Good for keyword w, with its slots in map m and its boxes in R.
GoodOf(w, m, R) ==
    Good(UpdtCnt[w], SrchCnt[w], latestUpdatedCounter[w], Access[w], LastIND[w],
         DV(m, w), DAV(m, w), SV(m, w), SAV(m, w), R)

\* What a search in progress knows of a slot: the access count it looks for is in
\* the interval, the last box it read is the one at the left end.
Record(it) ==
    it = [left |-> it.left, right |-> it.right, cur |-> it.cur,
          lastAcc |-> it.lastAcc, lastID |-> it.lastID, found |-> it.found]
ItemOK(it, A, d, a, row) ==
    /\ Record(it) /\ it.found \in BOOLEAN
    /\ it.left \in 1..a /\ it.right \in a..A /\ it.cur \in it.left..it.right
    /\ it.cur = it.right => it.right <= it.left + 1
    /\ \A k \in it.left..a : IsDoc(row[k])
    /\ it.lastID # << >> => it.lastAcc = it.left /\ it.lastID = row[it.left]
    /\ it.found => it.lastAcc = a /\ it.lastID = Doc(d)

\* What it knows in a damaged ORAM too: the interval is one, and what was read last
\* was a box.
Sane(it, A) ==
    /\ Record(it) /\ it.found \in BOOLEAN
    /\ it.left \in 1..A /\ it.right \in 1..A /\ it.cur \in it.left..it.right
    /\ it.cur = it.right => it.right <= it.left + 1
    /\ it.lastID # << >> => it.lastAcc \in 1..A /\ Value(it.lastID, A)

\* Map m and boxes R of keyword w agree; R are the boxes of the ORAM, unless that is
\* damaged: then they are what it should hold.
InOrder(w, m, R) == GoodOf(w, m, R) /\ (~srch.damaged => R = Rows(Contents(srch), w))

\* The parts: the tree holds every box on its path, and one copy of it unless it is
\* damaged; before the first call and during a setup the map and the tree are empty;
\* outside a setup map and boxes of every keyword agree; during one the staged pairs
\* agree, and as long as nothing was removed no slot beyond the list was ever used; a
\* search in progress has a proper interval for every slot, which contains the access
\* count it looks for unless the tree is damaged.
Counters == Fn(UpdtCnt) /\ Fn(SrchCnt) /\ Fn(Access) /\ Fn(LastIND) /\ Fn(latestUpdatedCounter)
Phases == phase \in {"new", "setup", "run", "dead"}
Stored == Fine(srch, Access)
Unused ==
    phase \in {"new", "setup"} =>
        /\ updt = EmptyMap /\ Kept(srch) = {} /\ ~srch.damaged /\ scan = Idle
        /\ \A w \in Keywords : SrchCnt[w] = 0 /\ latestUpdatedCounter[w] = 0
Untouched == phase = "new" => \A w \in Keywords : UpdtCnt[w] = 0 /\ Access[w] = 0
Running == phase \in {"new", "run"} => \A w \in Keywords : \E R : InOrder(w, updt, R)
Loading ==
    phase = "setup" =>
        /\ DOMAIN setupPairs2 \subseteq Keywords \X (1..N) \X (1..MaxAccess)
        /\ IsFiniteSet(DOMAIN setupPairs2)
        /\ \A k \in DOMAIN setupPairs2 : IsDoc(setupPairs2[k])
        /\ \A w \in Keywords :
              /\ GoodOf(w, setupPairs1, StagedRows(setupPairs2, w))
              /\ (\A e \in Docs : Slot(setupPairs1, w, e) >= 0) =>
                    \A i \in 1..N : i > UpdtCnt[w] => SAV(setupPairs1, w)[i] = 0
Scanning ==
    scan # Idle =>
        LET w == scan.keyword
        IN  /\ phase = "run" /\ w \in Keywords /\ SrchCnt[w] < MaxSearches
            /\ scan = [keyword |-> w, first |-> scan.first, items |-> scan.items]
            /\ scan.first \in BOOLEAN
            /\ DOMAIN scan.items = 1..UpdtCnt[w]
            /\ \A i \in 1..UpdtCnt[w] :
                  IF scan.first THEN scan.items[i] = NewItem(w)
                  ELSE /\ Sane(scan.items[i], Access[w])
                       /\ ~srch.damaged =>
                             ItemOK(scan.items[i], Access[w], SV(updt, w)[i], SAV(updt, w)[i],
                                    Rows(Contents(srch), w)[i][SrchCnt[w]])
IInv ==
    Counters /\ Phases /\ Stored /\ Unused /\ Untouched /\ Running /\ Loading /\ Scanning

\* The views of an empty map, and the boxes of an empty ORAM.
LEMMA EmptyViews ==
    ASSUME NEW w
    PROVE  /\ \A d \in Docs : DV(EmptyMap, w)[d] = 0
           /\ \A i \in 1..N : SAV(EmptyMap, w)[i] = 0
           /\ \A i \in 1..N : \A t \in 0..MaxSearches : \A k \in Accesses :
                 StagedRows(EmptyMap, w)[i][t][k] = << >>
<1>1. DOMAIN EmptyMap = {}
  BY DEF EmptyMap
<1> QED BY <1>1 DEF DV, SAV, Slot, Has, StagedRows, StagedLook

\* An ORAM without boxes has no box of any keyword, whatever the bounds.
LEMMA EmptyRows ==
    ASSUME NEW o, Sound(o), Kept(o) = {}, ~o.damaged
    PROVE  /\ \A A : Fine(o, A)
           /\ \A w : \A i \in 1..N : \A t \in 0..MaxSearches : \A k \in Accesses :
                 Rows(Contents(o), w)[i][t][k] = << >>
<1>1. \A k, c : ~HasBox(o, k, c)
  BY KeptHas DEF Sound, Laid, IsORAM
<1>2. \A A : Fine(o, A)
  BY <1>1 DEF Fine, Lawful, Agree
<1>3. DOMAIN Contents(o) = {}
  BY DEF Contents
<1>4. \A w : \A i \in 1..N : \A t \in 0..MaxSearches : \A k \in Accesses : Look(Contents(o), w, i, t, k) = << >>
  BY <1>3 DEF Look
<1> QED BY <1>2, <1>4, RowsAt

\* The initial states satisfy the inductive invariant.
LEMMA InitIInv == Init => IInv
<1> SUFFICES ASSUME Init PROVE IInv
  OBVIOUS
<1>1. Sound(srch) /\ Kept(srch) = {} /\ ~srch.damaged
  BY NewORAM DEF Init
<1>3. Counters
  BY DEF Init, Counters, Fn
<1>4. Stored
  BY <1>1, EmptyRows DEF Stored
<1>5. ASSUME NEW w \in Keywords PROVE GoodOf(w, updt, Rows(Contents(srch), w))
  <2>1. UpdtCnt[w] = 0 /\ SrchCnt[w] = 0 /\ latestUpdatedCounter[w] = 0 /\ Access[w] = 0 /\ updt = EmptyMap
    BY DEF Init
  <2>2. Good(0, 0, 0, 0, LastIND[w], DV(EmptyMap, w), DAV(EmptyMap, w), SV(EmptyMap, w), SAV(EmptyMap, w),
             Rows(Contents(srch), w))
    BY <1>1, EmptyViews, EmptyRows, GoodEmpty
  <2> QED BY <2>1, <2>2 DEF GoodOf
<1>6. Running
  BY <1>5 DEF Running, InOrder
<1>7. Phases /\ Unused /\ Untouched /\ Loading /\ Scanning
  BY <1>1 DEF Init, Phases, Unused, Untouched, Loading, Scanning
<1> QED BY <1>3, <1>4, <1>6, <1>7 DEF IInv

\* Views and rows that agree everywhere are equal.
LEMMA SameViews ==
    ASSUME NEW m, NEW n, NEW w,
           \A e \in Docs : DV(n, w)[e] = DV(m, w)[e], \A e \in Docs : DAV(n, w)[e] = DAV(m, w)[e],
           \A i \in 1..N : SV(n, w)[i] = SV(m, w)[i], \A i \in 1..N : SAV(n, w)[i] = SAV(m, w)[i]
    PROVE  DV(n, w) = DV(m, w) /\ DAV(n, w) = DAV(m, w) /\ SV(n, w) = SV(m, w) /\ SAV(n, w) = SAV(m, w)
<1>1. ASSUME NEW e \in Docs
      PROVE  /\ Slot(n, w, e) = Slot(m, w, e)
             /\ DAV(n, w)[e] = DAV(m, w)[e]
  BY DEF DV
<1>2. DV(n, w) = DV(m, w)
  BY <1>1 DEF DV
<1>3. DAV(n, w) = [e \in Docs |-> DAV(n, w)[e]] /\ DAV(m, w) = [e \in Docs |-> DAV(m, w)[e]]
  BY DEF DAV
<1>4. SV(n, w) = [i \in 1..N |-> SV(n, w)[i]] /\ SV(m, w) = [i \in 1..N |-> SV(m, w)[i]]
  BY DEF SV
<1>5. SAV(n, w) = [i \in 1..N |-> SAV(n, w)[i]] /\ SAV(m, w) = [i \in 1..N |-> SAV(m, w)[i]]
  BY DEF SAV
<1>6. DAV(n, w) = DAV(m, w)
  BY <1>3
<1>7. SV(n, w) = SV(m, w)
  BY <1>4
<1>8. SAV(n, w) = SAV(m, w)
  BY <1>5
<1> QED BY <1>2, <1>6, <1>7, <1>8

\* R is a table of boxes by slot, search number and access count.
Shape(R) == R = [i \in 1..N |-> [t \in 0..MaxSearches |-> [k \in Accesses |-> R[i][t][k]]]]

\* Boxes that agree one by one are the same boxes.
LEMMA SameRows ==
    ASSUME NEW C, NEW w, NEW R, Shape(R),
           \A i \in 1..N : \A t \in 0..MaxSearches : \A k \in Accesses : Rows(C, w)[i][t][k] = R[i][t][k]
    PROVE  R = Rows(C, w)
<1>1. \A i \in 1..N : \A t \in 0..MaxSearches : \A k \in Accesses : Look(C, w, i, t, k) = R[i][t][k]
  BY RowsAt
<1>2. Rows(C, w) = [i \in 1..N |-> [t \in 0..MaxSearches |-> [k \in Accesses |-> R[i][t][k]]]]
  BY <1>1 DEF Rows
<1> QED BY <1>2 DEF Shape

\* The boxes of a keyword have that shape.
LEMMA RowsShape == \A C, w : Shape(Rows(C, w))
BY DEF Shape, Rows

\* The staged boxes of a keyword, one by one.
LEMMA StagedAt ==
    ASSUME NEW p, NEW w, NEW i \in 1..N, NEW s \in 0..MaxSearches, NEW a \in Accesses
    PROVE  StagedRows(p, w)[i][s][a] = StagedLook(p, w, i, s, a)
BY DEF StagedRows

\* Staged boxes that agree one by one are the same.
LEMMA SameStaged ==
    ASSUME NEW p, NEW q, NEW w,
           \A i \in 1..N : \A t \in 0..MaxSearches : \A k \in Accesses :
              StagedRows(q, w)[i][t][k] = StagedRows(p, w)[i][t][k]
    PROVE  StagedRows(q, w) = StagedRows(p, w)
<1>1. \A i \in 1..N : \A t \in 0..MaxSearches : \A k \in Accesses :
         StagedLook(q, w, i, t, k) = StagedLook(p, w, i, t, k)
  BY StagedAt
<1> QED BY <1>1 DEF StagedRows

-----------------------------------------------------------------------------
\* The steps.

\* What Good says of a keyword, with the names of the state.
LEMMA GoodIn ==
    ASSUME NEW w, NEW m, NEW R, GoodOf(w, m, R)
    PROVE  /\ UpdtCnt[w] \in 0..N /\ SrchCnt[w] \in 0..MaxSearches
           /\ latestUpdatedCounter[w] \in 0..N /\ Access[w] \in 0..MaxAccess
           /\ \A e \in Docs : DV(m, w)[e] \in (-1)..UpdtCnt[w]
           /\ \A i \in 1..N : SAV(m, w)[i] \in 0..Access[w] /\ SAV(m, w)[i] \in 0..MaxAccess
BY GoodFacts DEF GoodOf

\* The bounds on the access counts while operations run.
LEMMA RunningBounds ==
    ASSUME IInv, phase \in {"new", "run"}
    PROVE  Bounds(Access)
<1> SUFFICES ASSUME NEW w \in Keywords PROVE Access[w] \in 0..MaxAccess
  BY DEF Bounds
<1>1. PICK R : GoodOf(w, updt, R)
  BY DEF IInv, Running, InOrder
<1> QED BY <1>1, GoodIn

\* A second box is written only if the first was.
LEMMA WriteThrew ==
    ASSUME NEW o, NEW b, NEW v, NEW p, o.threw, NEW r \in WriteBox(o, b, v, p)
    PROVE  r.threw = TRUE
<1>1. r = Threw(o)
  BY DEF WriteBox
<1> QED BY <1>1 DEF Threw

\* The boxes R with document d in slot i under access count a, and a start if st.
Extended(R, i, s, a, d, st) ==
    [j \in 1..N |-> [t \in 0..MaxSearches |-> [k \in Accesses |->
        IF j = i /\ t = s /\ k = a THEN Doc(d)
        ELSE IF j = i /\ t = s /\ k = 1 /\ st THEN At(a)
        ELSE R[j][t][k]]]]

\* What writing the boxes of keyword w in ORAM o makes of it.
NewBoxed(o, A, w, i, s, a, d, st) ==
    /\ Fine(o, A) /\ (srch.damaged => o.damaged)
    /\ ~o.damaged =>
          /\ \A x \in Keywords : x # w => Rows(Contents(o), x) = Rows(Contents(srch), x)
          /\ Rows(Contents(o), w) = Extended(Rows(Contents(srch), w), i, s, a, d, st)

\* The boxes that add writes.
LEMMA NewBoxesRows ==
    ASSUME NEW A, Fine(srch, A), NEW w \in Keywords, NEW d \in Docs,
           UpdtCnt[w] + 1 \in 1..N, SrchCnt[w] \in 0..MaxSearches,
           NextAccess(w) \in 1..MaxAccess, NextAccess(w) \in 1..A[w],
           NEW o \in NewBoxes(w, d), ~o.threw
    PROVE  NewBoxed(o, A, w, UpdtCnt[w] + 1, SrchCnt[w], NextAccess(w), d,
                    latestUpdatedCounter[w] < UpdtCnt[w] + 1 /\ NextAccess(w) > 1)
<1> DEFINE c == UpdtCnt[w]
           s == SrchCnt[w]
           a == NextAccess(w)
           two == latestUpdatedCounter[w] < c + 1 /\ a > 1
           first == WriteBox(srch, createBid(w, c + 1, s, a), Doc(d), generatePosition(w, c + 1, s, a))
           second(p) == WriteBox(p, createBid(w, c + 1, s, 1), At(a), generatePosition(w, c + 1, s, 1))
<1> USE Constants
<1>1. /\ two => \E p \in first : o \in second(p)
      /\ ~two => o \in first
  BY DEF NewBoxes, Write
<1>4. /\ c + 1 \in 1..N /\ s \in 0..MaxSearches /\ a \in 1..MaxAccess /\ 1 \in 1..MaxAccess /\ a \in 1..A[w]
  OBVIOUS
<1> HIDE DEF c, s, a
<1>5. Value(Doc(d), A[w]) /\ Value(At(a), A[w])
  BY <1>4, Values DEF Value
<1>6. ASSUME NEW p \in first, ~p.threw PROVE WroteBox(srch, A, w, c + 1, s, a, Doc(d), p)
  BY <1>4, <1>5, <1>6, WriteStep
<1>7. ASSUME NEW p \in first, o \in second(p)
      PROVE  ~p.threw /\ WroteBox(p, A, w, c + 1, s, 1, At(a), o)
  <2>1. ~p.threw
    BY <1>7, WriteThrew
  <2>2. Fine(p, A)
    BY <1>6, <2>1 DEF WroteBox
  <2> QED BY <1>4, <1>5, <1>7, <2>1, <2>2, WriteStep
<1> HIDE DEF first, second, two
<1>8. /\ Fine(o, A) /\ (srch.damaged => o.damaged)
      /\ ~o.damaged =>
            \A x \in Keywords : \A j \in 1..N : \A t \in 0..MaxSearches : \A k \in Accesses :
               Rows(Contents(o), x)[j][t][k] =
                  IF x = w /\ j = c + 1 /\ t = s /\ k = a THEN Doc(d)
                  ELSE IF x = w /\ j = c + 1 /\ t = s /\ k = 1 /\ two THEN At(a)
                  ELSE Rows(Contents(srch), x)[j][t][k]
  <2>1. CASE two
    <3>1. PICK p \in first : o \in second(p)
      BY <1>1, <2>1
    <3>2. WroteBox(srch, A, w, c + 1, s, a, Doc(d), p) /\ WroteBox(p, A, w, c + 1, s, 1, At(a), o)
      BY <1>6, <1>7, <3>1
    <3>3. a # 1
      BY <1>4, <2>1 DEF two
    <3>4. Fine(o, A) /\ (srch.damaged => o.damaged)
      BY <3>2 DEF WroteBox
    <3>5. ASSUME ~o.damaged, NEW x \in Keywords, NEW j \in 1..N, NEW t \in 0..MaxSearches, NEW k \in Accesses
          PROVE  Rows(Contents(o), x)[j][t][k] =
                    IF x = w /\ j = c + 1 /\ t = s /\ k = a THEN Doc(d)
                    ELSE IF x = w /\ j = c + 1 /\ t = s /\ k = 1 /\ two THEN At(a)
                    ELSE Rows(Contents(srch), x)[j][t][k]
      <4>1. ~p.damaged
        BY <3>2, <3>5 DEF WroteBox
      <4>2. Rows(Contents(o), x)[j][t][k] =
               IF x = w /\ j = c + 1 /\ t = s /\ k = 1 THEN At(a) ELSE Rows(Contents(p), x)[j][t][k]
        BY <3>2, <3>5 DEF WroteBox
      <4>3. Rows(Contents(p), x)[j][t][k] =
               IF x = w /\ j = c + 1 /\ t = s /\ k = a THEN Doc(d) ELSE Rows(Contents(srch), x)[j][t][k]
        BY <3>2, <4>1 DEF WroteBox
      <4> QED BY <2>1, <3>3, <4>2, <4>3
    <3> QED BY <3>4, <3>5
  <2>2. CASE ~two
    <3>1. ~o.threw /\ o \in first
      BY <1>1, <2>2
    <3>2. WroteBox(srch, A, w, c + 1, s, a, Doc(d), o)
      BY <1>6, <3>1
    <3> QED BY <2>2, <3>2 DEF WroteBox
  <2> QED BY <2>1, <2>2
<1>9. ASSUME ~o.damaged, NEW x \in Keywords, x # w PROVE Rows(Contents(o), x) = Rows(Contents(srch), x)
  <2>1. \A j \in 1..N : \A t \in 0..MaxSearches : \A k \in Accesses :
           Rows(Contents(o), x)[j][t][k] = Rows(Contents(srch), x)[j][t][k]
    BY <1>8, <1>9
  <2> QED BY <2>1, SameRows, RowsShape
<1>10. ASSUME ~o.damaged PROVE Rows(Contents(o), w) = Extended(Rows(Contents(srch), w), c + 1, s, a, d, two)
  <2> DEFINE R2 == Extended(Rows(Contents(srch), w), c + 1, s, a, d, two)
  <2>1. Shape(R2)
    BY DEF Shape, Extended
  <2>2. \A j \in 1..N : \A t \in 0..MaxSearches : \A k \in Accesses : Rows(Contents(o), w)[j][t][k] = R2[j][t][k]
    BY <1>8, <1>10 DEF Extended
  <2> HIDE DEF R2
  <2>3. R2 = Rows(Contents(o), w)
    BY <2>1, <2>2, SameRows
  <2> QED BY <2>3 DEF R2
<1> QED BY <1>8, <1>9, <1>10 DEF NewBoxed, c, s, a, two

\* A step that leaves the maps, the counters and the ORAM alone leaves the keywords in
\* order.
LEMMA OrderKept ==
    ASSUME IInv, phase \in {"new", "run"},
           UNCHANGED <<UpdtCnt, SrchCnt, Access, LastIND, latestUpdatedCounter>>, updt' = updt,
           srch'.damaged = srch.damaged, ~srch.damaged => Contents(srch') = Contents(srch)
    PROVE  Running'
<1> SUFFICES ASSUME NEW w \in Keywords PROVE \E R : InOrder(w, updt, R)'
  BY DEF Running
<1>1. PICK R : InOrder(w, updt, R)
  BY DEF IInv, Running
<1>2. InOrder(w, updt, R)'
  BY <1>1 DEF InOrder, GoodOf
<1> QED BY <1>2

\* add.
LEMMA AddKeeps ==
    ASSUME IInv, NEW w \in Keywords, NEW d \in Docs, add(w, d)
    PROVE  IInv'
<1> USE Constants
<1> DEFINE c == UpdtCnt[w]
           s == SrchCnt[w]
           a == NextAccess(w)
           L == latestUpdatedCounter[w]
           st == L < c + 1 /\ a > 1
           m == Filled(updt, w, c + 1, d, a)
           L2 == IF L < c + 1 THEN L + 1 ELSE L
<1>1. scan = Idle /\ phase \in {"new", "run"} /\ \A x \in Keywords : \E R : InOrder(x, updt, R)
  BY DEF add, Ready, IInv, Running
<1>2. CASE /\ phase' = "run"
           /\ UNCHANGED <<counters, updt, srch, staged, scan, answer>>
  <2>1. /\ UNCHANGED <<UpdtCnt, SrchCnt, Access, LastIND, latestUpdatedCounter>>
        /\ UNCHANGED <<updt, srch, scan>> /\ phase' = "run"
    BY <1>2 DEF counters
  <2>2. Counters' /\ Phases' /\ Stored' /\ Unused' /\ Untouched' /\ Loading' /\ Scanning'
    BY <1>1, <2>1 DEF IInv, Counters, Phases, Stored, Unused, Untouched, Loading, Scanning
  <2>3. Running'
    BY <1>1, <2>1, OrderKept
  <2> QED BY <2>2, <2>3 DEF IInv
<1>3. CASE /\ Slot(updt, w, d) <= 0 /\ a <= MaxAccess
           /\ \E o \in NewBoxes(w, d) : Survives(o)
           /\ UpdtCnt' = [UpdtCnt EXCEPT ![w] = c + 1]
           /\ Access' = [Access EXCEPT ![w] = Larger(@, a)]
           /\ updt' = m
           /\ latestUpdatedCounter' = [latestUpdatedCounter EXCEPT ![w] = L2]
           /\ LastIND' = [LastIND EXCEPT ![w] = d]
           /\ UNCHANGED <<SrchCnt, staged, scan, answer>>
  <2>0. PICK o \in NewBoxes(w, d) : Survives(o)
    BY <1>3
  <2>1. /\ Slot(updt, w, d) <= 0 /\ a <= MaxAccess /\ ~o.threw /\ phase' = "run" /\ srch' = o
        /\ updt' = m /\ SrchCnt' = SrchCnt /\ scan' = scan
    BY <1>3, <2>0 DEF Survives
  <2>2. PICK R : InOrder(w, updt, R)
    BY <1>1
  <2>21. GoodOf(w, updt, R) /\ DV(updt, w)[d] <= 0
    BY <2>1, <2>2 DEF DV, InOrder
  <2>3. c + 1 \in 1..N
    BY <2>21, RoomForDoc DEF GoodOf
  <2>4. a = SAV(updt, w)[c + 1] + 1
    <3>1. Bid1(w, c + 1) = Bid1(w, UpdtCnt[w] + 1)
      OBVIOUS
    <3> QED BY <2>3 DEF NextAccess, SAV
  <2>5. a \in 1..MaxAccess /\ s \in 0..MaxSearches /\ L \in 0..N /\ Access[w] \in 0..MaxAccess
    BY <2>1, <2>21, <2>3, <2>4, GoodIn
  <2>11. /\ Fn(UpdtCnt) /\ Fn(Access) /\ Fn(LastIND) /\ Fn(latestUpdatedCounter) /\ Fn(SrchCnt)
    BY DEF IInv, Counters
  <2>12. /\ UpdtCnt'[w] = c + 1 /\ Access'[w] = Larger(Access[w], a) /\ LastIND'[w] = d
         /\ latestUpdatedCounter'[w] = L2
         /\ \A x \in Keywords : x # w =>
               /\ UpdtCnt'[x] = UpdtCnt[x] /\ Access'[x] = Access[x] /\ LastIND'[x] = LastIND[x]
               /\ latestUpdatedCounter'[x] = latestUpdatedCounter[x]
    BY <1>3, <2>11 DEF Fn
  <2>13. Counters'
    BY <1>3, <2>11 DEF Counters, Fn
  <2> HIDE DEF a
  <2>60. Fine(srch, Access') /\ a \in 1..Access'[w]
    <3>1. Bounds(Access)
      BY <1>1, RunningBounds
    <3>2. Access'[w] \in 0..MaxAccess /\ Access[w] <= Access'[w] /\ a <= Access'[w]
      BY <2>5, <2>12 DEF Larger
    <3>3. Bounds(Access') /\ \A x \in Keywords : Access[x] <= Access'[x]
      BY <2>12, <3>1, <3>2 DEF Bounds
    <3>4. Fine(srch, Access)
      BY DEF IInv, Stored
    <3> QED BY <2>5, <3>1, <3>2, <3>3, <3>4, FineMore
  <2>6. NewBoxed(o, Access', w, c + 1, s, a, d, st)
    BY <2>1, <2>3, <2>5, <2>60, NewBoxesRows DEF a
  <2>7. /\ \A x : \A e \in Docs : DV(m, x)[e] = IF x = w /\ e = d THEN c + 1 ELSE DV(updt, x)[e]
        /\ \A x : \A e \in Docs : DAV(m, x)[e] = IF x = w /\ e = d THEN a ELSE DAV(updt, x)[e]
        /\ \A x : \A j \in 1..N : SV(m, x)[j] = IF x = w /\ j = c + 1 THEN d ELSE SV(updt, x)[j]
        /\ \A x : \A j \in 1..N : SAV(m, x)[j] = IF x = w /\ j = c + 1 THEN a ELSE SAV(updt, x)[j]
    BY FilledViews
  <2> HIDE DEF m
  <2>69. PICK R2 : R2 = Extended(R, c + 1, s, a, d, st)
    OBVIOUS
  <2>70. \A j \in 1..N : \A t \in 0..MaxSearches : \A k \in Accesses :
            R2[j][t][k] = IF j = c + 1 /\ t = s /\ k = a THEN Doc(d)
                          ELSE IF j = c + 1 /\ t = s /\ k = 1 /\ L < c + 1 /\ a > 1 THEN At(a)
                          ELSE R[j][t][k]
    BY <2>69 DEF Extended
  <2>8. Added(d, a, c, s, L, DV(updt, w), DAV(updt, w), SV(updt, w), SAV(updt, w), R,
              DV(m, w), DAV(m, w), SV(m, w), SAV(m, w), R2)
    BY <2>70, <2>7 DEF Added
  <2>9. L2 \in 0..N /\ (L2 <= L \/ L2 <= c + 1)
    BY <2>3, <2>5
  <2> HIDE DEF L2
  <2>10. Good(c + 1, s, L2, Larger(Access[w], a), d, DV(m, w), DAV(m, w), SV(m, w), SAV(m, w), R2)
    BY <2>1, <2>21, <2>4, <2>8, <2>9, GoodAdd DEF GoodOf
  <2>14. ASSUME NEW x \in Keywords PROVE \E Q : InOrder(x, updt, Q)'
    <3>1. CASE x = w
      <4>1. ~o.damaged => R2 = Rows(Contents(o), w)
        BY <2>2, <2>6, <2>69 DEF InOrder, NewBoxed
      <4>2. GoodOf(w, updt, R2)'
        BY <2>1, <2>10, <2>12 DEF GoodOf
      <4> QED BY <2>1, <3>1, <4>1, <4>2 DEF InOrder
    <3>2. CASE x # w
      <4>1. DV(m, x) = DV(updt, x) /\ DAV(m, x) = DAV(updt, x) /\ SV(m, x) = SV(updt, x) /\ SAV(m, x) = SAV(updt, x)
        BY <2>7, <3>2, SameViews
      <4>2. PICK Q : InOrder(x, updt, Q)
        BY <1>1
      <4>3. GoodOf(x, updt, Q)'
        BY <2>1, <2>12, <3>2, <4>1, <4>2 DEF GoodOf, InOrder
      <4>4. ~o.damaged => Q = Rows(Contents(o), x)
        BY <2>6, <3>2, <4>2 DEF NewBoxed, InOrder
      <4> QED BY <2>1, <4>3, <4>4 DEF InOrder
    <3> QED BY <3>1, <3>2
  <2>15. Phases' /\ Stored' /\ Unused' /\ Untouched' /\ Loading' /\ Scanning'
    BY <1>1, <2>1, <2>6 DEF Phases, Stored, Unused, Untouched, Loading, Scanning, NewBoxed
  <2> QED BY <2>13, <2>14, <2>15 DEF IInv, Running
<1>4. CASE Die
  <2>1. /\ UNCHANGED <<UpdtCnt, SrchCnt, Access, LastIND, latestUpdatedCounter>>
        /\ UNCHANGED <<srch, scan>> /\ phase' = "dead"
    BY <1>4 DEF Die, counters
  <2> QED BY <1>1, <2>1 DEF IInv, Counters, Phases, Stored, Unused, Untouched, Running, Loading, Scanning
<1> QED BY <1>2, <1>3, <1>4 DEF add

\* The entry of a listed document.
LEMMA EntryOf ==
    ASSUME NEW m, NEW w, NEW d \in Docs, DV(m, w)[d] > 0
    PROVE  m[Bid0(w, d)][1] = DV(m, w)[d] /\ m[Bid0(w, d)][2] = DAV(m, w)[d]
BY DEF DV, DAV, Slot

\* The entry of a slot that has a document.
LEMMA EntryAt ==
    ASSUME NEW m, NEW w, NEW i \in 1..N, SV(m, w)[i] \in Docs
    PROVE  m[Bid1(w, i)][1] = SV(m, w)[i] /\ m[Bid1(w, i)][2] = SAV(m, w)[i]
<1>1. SV(m, w)[i] # 0
  BY Constants
<1> QED BY <1>1 DEF SV, SAV

\* The maps without document d of w.
LEMMA UnlistedViews ==
    ASSUME NEW m, NEW w, NEW d \in Docs, DV(m, w)[d] > 0, NEW x
    PROVE  LET n == Unlisted(m, w, d)
               i == DV(m, w)[d]
               a == DAV(m, w)[d] + 1
               l == LastIND[w]
           IN  /\ ~Moves(w, i) =>
                     /\ \A e \in Docs : DV(n, x)[e] = IF x = w /\ e = d THEN -1 ELSE DV(m, x)[e]
                     /\ \A e \in Docs : DAV(n, x)[e] = IF x = w /\ e = d THEN a ELSE DAV(m, x)[e]
                     /\ \A j \in 1..N : SV(n, x)[j] = SV(m, x)[j] /\ SAV(n, x)[j] = SAV(m, x)[j]
               /\ Moves(w, i) =>
                     /\ \A e \in Docs : DV(n, x)[e] = IF x = w /\ e = l THEN i
                                                      ELSE IF x = w /\ e = d THEN -1 ELSE DV(m, x)[e]
                     /\ \A e \in Docs : DAV(n, x)[e] = IF x = w /\ e = l THEN a
                                                       ELSE IF x = w /\ e = d THEN a ELSE DAV(m, x)[e]
                     /\ \A j \in 1..N : SV(n, x)[j] = IF x = w /\ j = i THEN l ELSE SV(m, x)[j]
                     /\ \A j \in 1..N : SAV(n, x)[j] = IF x = w /\ j = i THEN a ELSE SAV(m, x)[j]
<1> DEFINE n == Unlisted(m, w, d)
           i == DV(m, w)[d]
           a == DAV(m, w)[d] + 1
           l == LastIND[w]
           gone == insert(m, Bid0(w, d), <<-1, a>>)
           full == Filled(gone, w, i, l, a)
<1>1. n = IF Moves(w, i) THEN full ELSE gone
  BY EntryOf DEF Unlisted
<1>2. /\ \A e \in Docs : DV(gone, x)[e] = IF x = w /\ e = d THEN -1 ELSE DV(m, x)[e]
      /\ \A e \in Docs : DAV(gone, x)[e] = IF x = w /\ e = d THEN a ELSE DAV(m, x)[e]
      /\ \A j \in 1..N : SV(gone, x)[j] = SV(m, x)[j] /\ SAV(gone, x)[j] = SAV(m, x)[j]
  BY InsertDoc
<1> HIDE DEF gone, a, i, l
<1>3. /\ \A e \in Docs : DV(full, x)[e] = IF x = w /\ e = l THEN i ELSE DV(gone, x)[e]
      /\ \A e \in Docs : DAV(full, x)[e] = IF x = w /\ e = l THEN a ELSE DAV(gone, x)[e]
      /\ \A j \in 1..N : SV(full, x)[j] = IF x = w /\ j = i THEN l ELSE SV(gone, x)[j]
      /\ \A j \in 1..N : SAV(full, x)[j] = IF x = w /\ j = i THEN a ELSE SAV(gone, x)[j]
  BY FilledViews
<1> HIDE DEF n, full
<1>4. ASSUME ~Moves(w, i)
      PROVE  /\ \A e \in Docs : DV(n, x)[e] = IF x = w /\ e = d THEN -1 ELSE DV(m, x)[e]
             /\ \A e \in Docs : DAV(n, x)[e] = IF x = w /\ e = d THEN a ELSE DAV(m, x)[e]
             /\ \A j \in 1..N : SV(n, x)[j] = SV(m, x)[j] /\ SAV(n, x)[j] = SAV(m, x)[j]
  <2>1. n = gone
    BY <1>1, <1>4
  <2> QED BY <1>2, <2>1
<1>5. ASSUME Moves(w, i)
      PROVE  /\ \A e \in Docs : DV(n, x)[e] = IF x = w /\ e = l THEN i
                                              ELSE IF x = w /\ e = d THEN -1 ELSE DV(m, x)[e]
             /\ \A e \in Docs : DAV(n, x)[e] = IF x = w /\ e = l THEN a
                                               ELSE IF x = w /\ e = d THEN a ELSE DAV(m, x)[e]
             /\ \A j \in 1..N : SV(n, x)[j] = IF x = w /\ j = i THEN l ELSE SV(m, x)[j]
             /\ \A j \in 1..N : SAV(n, x)[j] = IF x = w /\ j = i THEN a ELSE SAV(m, x)[j]
  <2>1. n = full
    BY <1>1, <1>5
  <2> QED BY <1>2, <1>3, <2>1
<1> QED BY <1>4, <1>5 DEF n, i, a, l

\* The boxes after a document is taken out: the moved one has a new box.
Shifted(w, i, a, R, R2) ==
    /\ ~Moves(w, i) => \A j \in 1..N : \A t \in 0..MaxSearches : \A k \in Accesses : R2[j][t][k] = R[j][t][k]
    /\ Moves(w, i) => \A j \in 1..N : \A t \in 0..MaxSearches : \A k \in Accesses :
          R2[j][t][k] = IF j = i /\ t = SrchCnt[w] /\ k = a THEN Doc(LastIND[w]) ELSE R[j][t][k]

\* Taking a document out keeps the keyword in order.
LEMMA GoodUnlist ==
    ASSUME NEW m, NEW w, NEW d \in Docs, DV(m, w)[d] > 0, NEW R, GoodOf(w, m, R),
           UnlistedAccess(m, w, d) <= MaxAccess,
           NEW R2, Shifted(w, DV(m, w)[d], DAV(m, w)[d] + 1, R, R2)
    PROVE  LET n == Unlisted(m, w, d)
           IN  Good(UpdtCnt[w] - 1, SrchCnt[w], latestUpdatedCounter[w], UnlistedAccess(m, w, d), NewLast(n, w),
                    DV(n, w), DAV(n, w), SV(n, w), SAV(n, w), R2)
<1> DEFINE n == Unlisted(m, w, d)
           i == DV(m, w)[d]
           a == DAV(m, w)[d] + 1
           l == LastIND[w]
           c == UpdtCnt[w]
           last2 == NewLast(n, w)
<1> USE Constants
<1>1. /\ c \in 0..N /\ i \in 1..c /\ i \in 1..N
      /\ \A j \in 1..c : SV(m, w)[j] \in Docs /\ j \in 1..N
      /\ c > 0 => l = SV(m, w)[c]
  <2>1. c \in 0..N /\ i \in (-1)..c
    BY GoodIn
  <2>2. \A j \in 1..c : SV(m, w)[j] \in Docs
    BY GoodFacts DEF GoodOf
  <2>3. c > 0 => l = SV(m, w)[c]
    BY GoodFacts DEF GoodOf
  <2> QED BY <2>1, <2>2, <2>3
<1>2. UnlistedAccess(m, w, d) = IF Moves(w, i) THEN Larger(Access[w], a) ELSE Access[w]
  BY EntryOf DEF UnlistedAccess
<1>3. Moves(w, i) <=> i # c
  BY <1>1 DEF Moves
<1>4. /\ ~Moves(w, i) =>
            /\ \A e \in Docs : DV(n, w)[e] = IF e = d THEN -1 ELSE DV(m, w)[e]
            /\ \A e \in Docs : DAV(n, w)[e] = IF e = d THEN a ELSE DAV(m, w)[e]
            /\ \A j \in 1..N : SV(n, w)[j] = SV(m, w)[j] /\ SAV(n, w)[j] = SAV(m, w)[j]
      /\ Moves(w, i) =>
            /\ \A e \in Docs : DV(n, w)[e] = IF e = l THEN i ELSE IF e = d THEN -1 ELSE DV(m, w)[e]
            /\ \A e \in Docs : DAV(n, w)[e] = IF e = l THEN a ELSE IF e = d THEN a ELSE DAV(m, w)[e]
            /\ \A j \in 1..N : SV(n, w)[j] = IF j = i THEN l ELSE SV(m, w)[j]
            /\ \A j \in 1..N : SAV(n, w)[j] = IF j = i THEN a ELSE SAV(m, w)[j]
  BY UnlistedViews
<1> HIDE DEF n
<1>5. ASSUME c > 1 PROVE last2 = SV(n, w)[c - 1]
  <2>1. c - 1 \in 1..N /\ c - 1 \in 1..c /\ c \in 1..c
    BY <1>1, <1>5
  <2>2. SV(n, w)[c - 1] \in Docs
    BY <1>1, <1>4, <2>1
  <2>3. n[Bid1(w, c - 1)][1] = SV(n, w)[c - 1]
    BY <2>1, <2>2, EntryAt
  <2> QED BY <1>5, <2>3 DEF NewLast
<1> HIDE DEF last2
<1>6. CASE i = c
  <2>1. Dropped(d, DV(m, w), DAV(m, w), SV(m, w), SAV(m, w), R, DV(n, w), DAV(n, w), SV(n, w), SAV(n, w), R2)
    BY <1>3, <1>4, <1>6 DEF Dropped, Shifted
  <2>2. Good(c - 1, SrchCnt[w], latestUpdatedCounter[w], Access[w], last2, DV(n, w), DAV(n, w), SV(n, w), SAV(n, w), R2)
    BY <1>5, <1>6, <2>1, GoodDrop DEF GoodOf
  <2> QED BY <1>2, <1>3, <1>6, <2>2 DEF n, last2
<1>7. CASE i # c
  <2>1. Moved(d, a, SrchCnt[w], l, DV(m, w), DAV(m, w), SV(m, w), SAV(m, w), R,
              DV(n, w), DAV(n, w), SV(n, w), SAV(n, w), R2)
    BY <1>3, <1>4, <1>7 DEF Moved, Shifted
  <2>2. c > 1
    BY <1>1, <1>7
  <2>3. Larger(Access[w], a) <= MaxAccess
    BY <1>2, <1>3, <1>7
  <2>4. Good(c - 1, SrchCnt[w], latestUpdatedCounter[w], Larger(Access[w], a), last2,
             DV(n, w), DAV(n, w), SV(n, w), SAV(n, w), R2)
    BY <1>5, <1>7, <2>1, <2>2, <2>3, GoodMove DEF GoodOf
  <2> QED BY <1>2, <1>3, <1>7, <2>4 DEF n, last2
<1> QED BY <1>6, <1>7

\* The counters after a document is taken out.
LEMMA UnlistCounters ==
    ASSUME Counters, NEW w \in Keywords, NEW m, NEW d, Unlist(m, w, d), SrchCnt' = SrchCnt,
           latestUpdatedCounter' = latestUpdatedCounter
    PROVE  /\ Counters'
           /\ UpdtCnt'[w] = UpdtCnt[w] - 1 /\ Access'[w] = UnlistedAccess(m, w, d)
           /\ LastIND'[w] = NewLast(Unlisted(m, w, d), w)
           /\ \A x \in Keywords : x # w =>
                 UpdtCnt'[x] = UpdtCnt[x] /\ Access'[x] = Access[x] /\ LastIND'[x] = LastIND[x]
<1> DEFINE A2 == UnlistedAccess(m, w, d)
           l2 == NewLast(Unlisted(m, w, d), w)
<1>1. /\ UpdtCnt' = [UpdtCnt EXCEPT ![w] = @ - 1] /\ Access' = [Access EXCEPT ![w] = A2]
      /\ LastIND' = [LastIND EXCEPT ![w] = l2]
  BY DEF Unlist
<1> HIDE DEF A2, l2
<1>2. Counters'
  BY <1>1 DEF Counters, Fn
<1>3. /\ UpdtCnt'[w] = UpdtCnt[w] - 1 /\ Access'[w] = A2 /\ LastIND'[w] = l2
      /\ \A x \in Keywords : x # w =>
            UpdtCnt'[x] = UpdtCnt[x] /\ Access'[x] = Access[x] /\ LastIND'[x] = LastIND[x]
  BY <1>1 DEF Counters, Fn
<1> QED BY <1>2, <1>3 DEF A2, l2

\* The boxes R with a document moved to slot i under access count a.
Relocated(R, w, i, s, a, l) ==
    [j \in 1..N |-> [t \in 0..MaxSearches |-> [k \in Accesses |->
        IF Moves(w, i) /\ j = i /\ t = s /\ k = a THEN Doc(l) ELSE R[j][t][k]]]]

\* What remove makes of the ORAM.
MovedBoxed(o, A, w, i, s, a, l) ==
    /\ Fine(o, A) /\ (srch.damaged => o.damaged)
    /\ ~o.damaged =>
          /\ \A x \in Keywords : x # w => Rows(Contents(o), x) = Rows(Contents(srch), x)
          /\ Rows(Contents(o), w) = Relocated(Rows(Contents(srch), w), w, i, s, a, l)

\* The box that remove writes.
LEMMA MovedBoxRows ==
    ASSUME NEW A, Fine(srch, A), NEW w \in Keywords, NEW d \in Docs, DV(updt, w)[d] > 0,
           NEW i, i = DV(updt, w)[d], i \in 1..N, NEW s, s = SrchCnt[w], s \in 0..MaxSearches,
           NEW a, a = DAV(updt, w)[d] + 1, NEW l, l = LastIND[w],
           Moves(w, i) => a \in 1..MaxAccess /\ l \in Docs,
           NEW o \in MovedBox(w, d), ~o.threw
    PROVE  MovedBoxed(o, A, w, i, s, a, l)
<1>1. o \in IF Moves(w, i) THEN WriteBox(srch, createBid(w, i, s, a), Doc(l), generatePosition(w, i, s, a)) ELSE {srch}
  BY EntryOf DEF MovedBox, Write
<1>2. /\ Fine(o, A) /\ (srch.damaged => o.damaged)
      /\ ~o.damaged =>
            \A x \in Keywords : \A j \in 1..N : \A t \in 0..MaxSearches : \A k \in Accesses :
               Rows(Contents(o), x)[j][t][k] =
                  IF Moves(w, i) /\ x = w /\ j = i /\ t = s /\ k = a THEN Doc(l)
                  ELSE Rows(Contents(srch), x)[j][t][k]
  <2>1. CASE Moves(w, i)
    <3>1. o \in WriteBox(srch, createBid(w, i, s, a), Doc(l), generatePosition(w, i, s, a))
      BY <1>1, <2>1
    <3>2. Value(Doc(l), A[w])
      BY <2>1, Values DEF Value
    <3>3. WroteBox(srch, A, w, i, s, a, Doc(l), o)
      BY <2>1, <3>1, <3>2, WriteStep
    <3> QED BY <2>1, <3>3 DEF WroteBox
  <2>2. CASE ~Moves(w, i)
    <3>1. o = srch
      BY <1>1, <2>2
    <3> QED BY <2>2, <3>1
  <2> QED BY <2>1, <2>2
<1>3. ASSUME ~o.damaged, NEW x \in Keywords, x # w PROVE Rows(Contents(o), x) = Rows(Contents(srch), x)
  <2>1. \A j \in 1..N : \A t \in 0..MaxSearches : \A k \in Accesses :
           Rows(Contents(o), x)[j][t][k] = Rows(Contents(srch), x)[j][t][k]
    BY <1>2, <1>3
  <2> QED BY <2>1, SameRows, RowsShape
<1>4. ASSUME ~o.damaged PROVE Rows(Contents(o), w) = Relocated(Rows(Contents(srch), w), w, i, s, a, l)
  <2> DEFINE R2 == Relocated(Rows(Contents(srch), w), w, i, s, a, l)
  <2>1. Shape(R2)
    BY DEF Shape, Relocated
  <2>2. \A j \in 1..N : \A t \in 0..MaxSearches : \A k \in Accesses : Rows(Contents(o), w)[j][t][k] = R2[j][t][k]
    BY <1>2, <1>4 DEF Relocated
  <2> HIDE DEF R2
  <2>3. R2 = Rows(Contents(o), w)
    BY <2>1, <2>2, SameRows
  <2> QED BY <2>3 DEF R2
<1> QED BY <1>2, <1>3, <1>4 DEF MovedBoxed

\* remove.
LEMMA RemoveKeeps ==
    ASSUME IInv, NEW w \in Keywords, NEW d \in Docs, remove(w, d)
    PROVE  IInv'
<1> USE Constants
<1>1. scan = Idle /\ phase \in {"new", "run"} /\ \A x \in Keywords : \E R : InOrder(x, updt, R)
  BY DEF remove, Ready, IInv, Running
<1>2. CASE /\ phase' = "run"
           /\ UNCHANGED <<counters, updt, srch, staged, scan>>
  <2>1. /\ UNCHANGED <<UpdtCnt, SrchCnt, Access, LastIND, latestUpdatedCounter>>
        /\ UNCHANGED <<updt, srch, scan>> /\ phase' = "run"
    BY <1>2 DEF counters
  <2>2. Counters' /\ Phases' /\ Stored' /\ Unused' /\ Untouched' /\ Loading' /\ Scanning'
    BY <1>1, <2>1 DEF IInv, Counters, Phases, Stored, Unused, Untouched, Loading, Scanning
  <2>3. Running'
    BY <1>1, <2>1, OrderKept
  <2> QED BY <2>2, <2>3 DEF IInv
<1> DEFINE i == DV(updt, w)[d]
           a == DAV(updt, w)[d] + 1
           s == SrchCnt[w]
           l == LastIND[w]
           n == Unlisted(updt, w, d)
           A2 == UnlistedAccess(updt, w, d)
<1>3. CASE /\ Slot(updt, w, d) > 0 /\ UnlistedAccess(updt, w, d) <= MaxAccess
           /\ \E o \in MovedBox(w, d) : Survives(o)
           /\ Unlist(updt, w, d)
           /\ updt' = Unlisted(updt, w, d)
           /\ UNCHANGED <<SrchCnt, latestUpdatedCounter, staged, scan, answer>>
  <2>0. PICK o \in MovedBox(w, d) : Survives(o)
    BY <1>3
  <2>1. /\ i > 0 /\ A2 <= MaxAccess /\ ~o.threw /\ phase' = "run" /\ srch' = o
        /\ updt' = n /\ SrchCnt' = SrchCnt /\ scan' = scan /\ latestUpdatedCounter' = latestUpdatedCounter
        /\ Unlist(updt, w, d)
    BY <1>3, <2>0 DEF Survives, DV
  <2>2. PICK R : InOrder(w, updt, R)
    BY <1>1
  <2>21. GoodOf(w, updt, R) /\ Counters
    BY <2>2 DEF IInv, InOrder
  <2>3. /\ i \in 1..N /\ s \in 0..MaxSearches /\ Access[w] \in 0..MaxAccess
        /\ A2 \in 0..MaxAccess /\ Access[w] <= A2
        /\ Moves(w, i) => a \in 1..MaxAccess /\ l \in Docs
    <3>1. i \in (-1)..UpdtCnt[w] /\ UpdtCnt[w] \in 0..N /\ s \in 0..MaxSearches /\ Access[w] \in 0..MaxAccess
      BY <2>21, GoodIn
    <3>2. SV(updt, w)[i] = d /\ i \in 1..UpdtCnt[w]
      BY <2>1, <2>21, <3>1, GoodFacts DEF GoodOf
    <3>3. DAV(updt, w)[d] = SAV(updt, w)[i] /\ SAV(updt, w)[i] > 0
      BY <2>21, <3>2, GoodFacts DEF GoodOf
    <3>4. SAV(updt, w)[i] \in 0..MaxAccess
      BY <2>21, <3>1, <3>2, GoodIn
    <3>5. A2 = IF Moves(w, i) THEN Larger(Access[w], a) ELSE Access[w]
      BY <2>1, EntryOf DEF UnlistedAccess
    <3>6. l \in Docs
      <4>1. UpdtCnt[w] \in 1..UpdtCnt[w]
        BY <3>1, <3>2
      <4>2. SV(updt, w)[UpdtCnt[w]] \in Docs /\ l = SV(updt, w)[UpdtCnt[w]]
        BY <2>21, <3>1, <4>1, GoodFacts DEF GoodOf
      <4> QED BY <4>2
    <3> HIDE DEF a, i, l, s, A2
    <3>7. a \in Nat /\ a > 0
      BY <3>3, <3>4 DEF a
    <3>8. CASE Moves(w, i)
      BY <2>1, <3>1, <3>2, <3>5, <3>6, <3>7, <3>8 DEF Larger
    <3>9. CASE ~Moves(w, i)
      BY <3>1, <3>2, <3>5, <3>9
    <3> QED BY <3>8, <3>9
  <2>7. /\ Counters'
        /\ UpdtCnt'[w] = UpdtCnt[w] - 1 /\ Access'[w] = A2
        /\ LastIND'[w] = NewLast(n, w)
        /\ \A x \in Keywords : x # w =>
              UpdtCnt'[x] = UpdtCnt[x] /\ Access'[x] = Access[x] /\ LastIND'[x] = LastIND[x]
    BY <2>1, <2>21, UnlistCounters
  <2>4. Fine(srch, Access')
    <3>1. Bounds(Access)
      BY <1>1, RunningBounds
    <3> HIDE DEF A2
    <3>3. Bounds(Access') /\ \A x \in Keywords : Access[x] <= Access'[x]
      BY <2>3, <2>7, <3>1 DEF Bounds
    <3>4. Fine(srch, Access)
      BY DEF IInv, Stored
    <3> QED BY <3>1, <3>3, <3>4, FineMore
  <2>5. MovedBoxed(o, Access', w, i, s, a, l)
    BY <2>1, <2>3, <2>4, MovedBoxRows
  <2>51. PICK R2 : R2 = Relocated(R, w, i, s, a, l)
    OBVIOUS
  <2>52. Shifted(w, i, a, R, R2)
    <3> HIDE DEF i, a
    <3> QED BY <2>51 DEF Shifted, Relocated
  <2>6. Good(UpdtCnt[w] - 1, s, latestUpdatedCounter[w], A2, NewLast(n, w),
             DV(n, w), DAV(n, w), SV(n, w), SAV(n, w), R2)
    BY <2>1, <2>21, <2>52, GoodUnlist
  <2>8. ASSUME NEW x \in Keywords PROVE \E Q : InOrder(x, updt, Q)'
    <3>1. CASE x = w
      <4>1. ~o.damaged => R2 = Rows(Contents(o), w)
        BY <2>2, <2>5, <2>51 DEF InOrder, MovedBoxed
      <4>2. GoodOf(w, updt, R2)'
        BY <2>1, <2>6, <2>7 DEF GoodOf
      <4> QED BY <2>1, <3>1, <4>1, <4>2 DEF InOrder
    <3>2. CASE x # w
      <4>1. DV(n, x) = DV(updt, x) /\ DAV(n, x) = DAV(updt, x) /\ SV(n, x) = SV(updt, x) /\ SAV(n, x) = SAV(updt, x)
        <5>1. /\ \A e \in Docs : DV(n, x)[e] = DV(updt, x)[e]
              /\ \A e \in Docs : DAV(n, x)[e] = DAV(updt, x)[e]
              /\ \A j \in 1..N : SV(n, x)[j] = SV(updt, x)[j]
              /\ \A j \in 1..N : SAV(n, x)[j] = SAV(updt, x)[j]
          BY <2>1, <3>2, UnlistedViews
        <5> HIDE DEF n
        <5> QED BY <5>1, SameViews
      <4>2. PICK Q : InOrder(x, updt, Q)
        BY <1>1
      <4> HIDE DEF n
      <4>3. GoodOf(x, updt, Q)'
        BY <2>1, <2>7, <3>2, <4>1, <4>2 DEF GoodOf, InOrder
      <4>4. ~o.damaged => Q = Rows(Contents(o), x)
        BY <2>5, <3>2, <4>2 DEF MovedBoxed, InOrder
      <4> QED BY <2>1, <4>3, <4>4 DEF InOrder
    <3> QED BY <3>1, <3>2
  <2>9. Phases' /\ Stored' /\ Unused' /\ Untouched' /\ Loading' /\ Scanning'
    BY <1>1, <2>1, <2>5 DEF Phases, Stored, Unused, Untouched, Loading, Scanning, MovedBoxed
  <2> QED BY <2>7, <2>8, <2>9 DEF IInv, Running
<1>4. CASE Die
  <2>1. /\ UNCHANGED <<UpdtCnt, SrchCnt, Access, LastIND, latestUpdatedCounter>>
        /\ UNCHANGED <<srch, scan>> /\ phase' = "dead"
    BY <1>4 DEF Die, counters
  <2> QED BY <1>1, <2>1 DEF IInv, Counters, Phases, Stored, Unused, Untouched, Running, Loading, Scanning
<1> QED BY <1>2, <1>3, <1>4 DEF remove

\* beginSetup.
LEMMA BeginKeeps ==
    ASSUME IInv, beginSetup
    PROVE  IInv'
<1>1. /\ UNCHANGED <<UpdtCnt, SrchCnt, Access, LastIND, latestUpdatedCounter>>
      /\ UNCHANGED <<updt, srch, scan>> /\ phase = "new" /\ scan = Idle /\ phase' = "setup"
      /\ setupPairs1' = EmptyMap /\ setupPairs2' = EmptyMap
  BY DEF beginSetup, counters
<1>2. Counters' /\ Phases' /\ Stored' /\ Unused' /\ Untouched' /\ Running' /\ Scanning'
  BY <1>1 DEF IInv, Counters, Phases, Stored, Unused, Untouched, Running, Scanning
<1>3. ASSUME NEW w \in Keywords
      PROVE  /\ GoodOf(w, setupPairs1, StagedRows(setupPairs2, w))'
             /\ \A i \in 1..N : SAV(setupPairs1', w)[i] = 0
  <2>1. UpdtCnt'[w] = 0 /\ SrchCnt'[w] = 0 /\ latestUpdatedCounter'[w] = 0 /\ Access'[w] = 0
    BY <1>1 DEF IInv, Unused, Untouched
  <2>2. Good(0, 0, 0, 0, LastIND'[w], DV(EmptyMap, w), DAV(EmptyMap, w), SV(EmptyMap, w), SAV(EmptyMap, w),
             StagedRows(EmptyMap, w))
    BY EmptyViews, GoodEmpty
  <2> QED BY <1>1, <2>1, <2>2, EmptyViews DEF GoodOf
<1>4. DOMAIN EmptyMap = {}
  BY DEF EmptyMap
<1>5. IsFiniteSet(DOMAIN EmptyMap)
  BY <1>4, FS_EmptySet
<1>6. Loading'
  BY <1>1, <1>3, <1>4, <1>5 DEF Loading
<1> QED BY <1>2, <1>6 DEF IInv

\* A staged box.
LEMMA StagedStep ==
    ASSUME NEW p, NEW w, NEW i, NEW a, NEW v, NEW x
    PROVE  LET q == insert(p, <<w, i, a>>, v)
           IN  \A j \in 1..N : \A t \in 0..MaxSearches : \A k \in Accesses :
                  StagedRows(q, x)[j][t][k] =
                     IF x = w /\ j = i /\ t = 0 /\ k = a THEN v ELSE StagedRows(p, x)[j][t][k]
<1> DEFINE key == <<w, i, a>>
           q == insert(p, key, v)
<1>1. DOMAIN q = DOMAIN p \cup {key} /\ q[key] = v /\ \A k \in DOMAIN p : k # key => q[k] = p[k]
  BY DEF insert
<1> SUFFICES ASSUME NEW j \in 1..N, NEW t \in 0..MaxSearches, NEW k \in Accesses
             PROVE  StagedRows(q, x)[j][t][k] =
                       IF x = w /\ j = i /\ t = 0 /\ k = a THEN v ELSE StagedRows(p, x)[j][t][k]
  OBVIOUS
<1>2. <<x, j, k>> = key <=> x = w /\ j = i /\ k = a
  OBVIOUS
<1> HIDE DEF key, q
<1>3. /\ StagedRows(q, x)[j][t][k] = StagedLook(q, x, j, t, k)
      /\ StagedRows(p, x)[j][t][k] = StagedLook(p, x, j, t, k)
  BY StagedAt
<1> QED BY <1>1, <1>2, <1>3 DEF StagedLook, Has

\* Staging one more document leaves finitely many, under keys of the right form.
LEMMA StagedKeys ==
    ASSUME NEW p, DOMAIN p \subseteq Keywords \X (1..N) \X (1..MaxAccess), IsFiniteSet(DOMAIN p),
           \A k \in DOMAIN p : IsDoc(p[k]),
           NEW w \in Keywords, NEW i \in 1..N, NEW a \in 1..MaxAccess, NEW v, IsDoc(v)
    PROVE  LET q == insert(p, <<w, i, a>>, v)
           IN  /\ DOMAIN q \subseteq Keywords \X (1..N) \X (1..MaxAccess) /\ IsFiniteSet(DOMAIN q)
               /\ \A k \in DOMAIN q : IsDoc(q[k])
<1> DEFINE key == <<w, i, a>>
           q == insert(p, key, v)
<1>1. DOMAIN q = DOMAIN p \cup {key} /\ q[key] = v /\ \A k \in DOMAIN p : k # key => q[k] = p[k]
  BY DEF insert
<1>2. key \in Keywords \X (1..N) \X (1..MaxAccess)
  OBVIOUS
<1> HIDE DEF key, q
<1>3. IsFiniteSet(DOMAIN p \cup {key})
  BY FS_AddElement
<1>4. DOMAIN q \subseteq Keywords \X (1..N) \X (1..MaxAccess)
  BY <1>1, <1>2
<1>5. IsFiniteSet(DOMAIN q)
  BY <1>1, <1>3
<1>6. \A k \in DOMAIN q : IsDoc(q[k])
  BY <1>1
<1> QED BY <1>4, <1>5, <1>6 DEF q, key

\* setupInsert.
LEMMA SetupInsertKeeps ==
    ASSUME IInv, ~SetupMixed, NEW w \in Keywords, NEW d \in Docs, setupInsert(w, d)
    PROVE  IInv'
<1> USE Constants
<1> DEFINE c == UpdtCnt[w]
           m == setupPairs1
           p == setupPairs2
           n == Filled(m, w, c + 1, d, 1)
           q == insert(p, <<w, c + 1, 1>>, Doc(d))
<1>1. /\ phase = "setup" /\ phase' = "setup" /\ setupPairs1' = n /\ setupPairs2' = q
      /\ Slot(m, w, d) = 0 /\ \A e \in Docs : Slot(m, w, e) >= 0
      /\ UpdtCnt' = [UpdtCnt EXCEPT ![w] = @ + 1]
      /\ Access' = [Access EXCEPT ![w] = Larger(@, 1)]
      /\ LastIND' = [LastIND EXCEPT ![w] = d]
      /\ UNCHANGED <<SrchCnt, latestUpdatedCounter, updt, srch, scan>>
  BY DEF setupInsert, Stage
<1>2. /\ updt = EmptyMap /\ Kept(srch) = {} /\ ~srch.damaged /\ Sound(srch) /\ scan = Idle
      /\ SrchCnt[w] = 0 /\ latestUpdatedCounter[w] = 0
      /\ DOMAIN p \subseteq Keywords \X (1..N) \X (1..MaxAccess) /\ IsFiniteSet(DOMAIN p)
      /\ \A k \in DOMAIN p : IsDoc(p[k])
      /\ \A x \in Keywords : GoodOf(x, m, StagedRows(p, x))
      /\ \A i \in 1..N : i > c => SAV(m, w)[i] = 0
  BY <1>1 DEF IInv, Unused, Loading, Stored, Fine
<1>3. DV(m, w)[d] <= 0
  BY <1>1 DEF DV
<1>4. c + 1 \in 1..N /\ c \in 0..N
  BY <1>2, <1>3, RoomForDoc, GoodIn DEF GoodOf
<1>5. SAV(m, w)[c + 1] = 0
  BY <1>2, <1>4
<1>6. /\ \A x : \A e \in Docs : DV(n, x)[e] = IF x = w /\ e = d THEN c + 1 ELSE DV(m, x)[e]
      /\ \A x : \A e \in Docs : DAV(n, x)[e] = IF x = w /\ e = d THEN 1 ELSE DAV(m, x)[e]
      /\ \A x : \A j \in 1..N : SV(n, x)[j] = IF x = w /\ j = c + 1 THEN d ELSE SV(m, x)[j]
      /\ \A x : \A j \in 1..N : SAV(n, x)[j] = IF x = w /\ j = c + 1 THEN 1 ELSE SAV(m, x)[j]
  BY FilledViews
<1>7. \A x : \A j \in 1..N : \A t \in 0..MaxSearches : \A k \in Accesses :
         StagedRows(q, x)[j][t][k] =
            IF x = w /\ j = c + 1 /\ t = 0 /\ k = 1 THEN Doc(d) ELSE StagedRows(p, x)[j][t][k]
  BY StagedStep
<1>8. /\ DOMAIN q \subseteq Keywords \X (1..N) \X (1..MaxAccess) /\ IsFiniteSet(DOMAIN q)
      /\ \A k \in DOMAIN q : IsDoc(q[k])
  <2>1. IsDoc(Doc(d)) /\ 1 \in 1..MaxAccess
    BY DEF IsDoc
  <2> QED BY <1>2, <1>4, <2>1, StagedKeys
<1> HIDE DEF n, q
<1>9. Added(d, 1, c, 0, 0, DV(m, w), DAV(m, w), SV(m, w), SAV(m, w), StagedRows(p, w),
            DV(n, w), DAV(n, w), SV(n, w), SAV(n, w), StagedRows(q, w))
  BY <1>6, <1>7 DEF Added
<1>10. Good(c + 1, 0, 0, Larger(Access[w], 1), d, DV(n, w), DAV(n, w), SV(n, w), SAV(n, w), StagedRows(q, w))
  <2>1. Good(c, 0, 0, Access[w], LastIND[w], DV(m, w), DAV(m, w), SV(m, w), SAV(m, w), StagedRows(p, w))
    BY <1>2 DEF GoodOf
  <2>2. 0 \in 0..N /\ 0 <= 0 /\ 1 = SAV(m, w)[c + 1] + 1 /\ 1 <= MaxAccess
    BY <1>5
  <2> QED BY <1>3, <1>9, <2>1, <2>2, GoodAdd
<1>11. Fn(UpdtCnt) /\ Fn(Access) /\ Fn(LastIND)
  BY DEF IInv, Counters
<1>12. Counters'
  BY <1>1, <1>11 DEF IInv, Counters, Fn
<1>13. /\ UpdtCnt'[w] = c + 1 /\ Access'[w] = Larger(Access[w], 1) /\ LastIND'[w] = d
       /\ \A x \in Keywords : x # w =>
             UpdtCnt'[x] = UpdtCnt[x] /\ Access'[x] = Access[x] /\ LastIND'[x] = LastIND[x]
  BY <1>1, <1>11 DEF Fn
<1>14. ASSUME NEW x \in Keywords, x # w
       PROVE  /\ DV(n, x) = DV(m, x) /\ DAV(n, x) = DAV(m, x) /\ SV(n, x) = SV(m, x) /\ SAV(n, x) = SAV(m, x)
              /\ StagedRows(q, x) = StagedRows(p, x)
  BY <1>6, <1>7, <1>14, SameViews, SameStaged
<1>15. ASSUME NEW x \in Keywords PROVE GoodOf(x, setupPairs1, StagedRows(setupPairs2, x))'
  <2>1. CASE x = w
    BY <1>1, <1>2, <1>10, <1>13, <2>1 DEF GoodOf
  <2>2. CASE x # w
    <3>1. GoodOf(x, m, StagedRows(p, x))
      BY <1>2
    <3> QED BY <1>1, <1>13, <1>14, <2>2, <3>1 DEF GoodOf
  <2> QED BY <2>1, <2>2
<1>16. ASSUME NEW x \in Keywords, \A e \in Docs : Slot(n, x, e) >= 0,
              NEW i \in 1..N, i > UpdtCnt'[x]
       PROVE  SAV(n, x)[i] = 0
  <2>1. CASE x = w
    <3>1. i > c + 1
      BY <1>13, <1>16, <2>1
    <3>2. SAV(m, w)[i] = 0
      BY <1>2, <1>4, <3>1
    <3> QED BY <1>4, <1>6, <2>1, <3>1, <3>2
  <2>2. CASE x # w
    <3>1. \A e \in Docs : DV(n, x)[e] = Slot(n, x, e) /\ DV(m, x)[e] = Slot(m, x, e)
      BY DEF DV
    <3>2. \A e \in Docs : Slot(m, x, e) >= 0
      BY <1>14, <1>16, <2>2, <3>1
    <3>3. SAV(m, x)[i] = 0
      BY <1>1, <1>13, <1>16, <2>2, <3>2 DEF IInv, Loading
    <3> QED BY <1>14, <2>2, <3>3
  <2> QED BY <2>1, <2>2
<1>17. Loading'
  <2>1. \A x \in Keywords : (\A e \in Docs : Slot(setupPairs1', x, e) >= 0) =>
           \A i \in 1..N : i > UpdtCnt'[x] => SAV(setupPairs1', x)[i] = 0
    BY <1>1, <1>16
  <2> QED BY <1>1, <1>8, <1>15, <2>1 DEF Loading
<1>18. Stored'
  BY <1>1, <1>2, EmptyRows DEF Stored
<1>19. Phases' /\ Unused' /\ Untouched' /\ Running' /\ Scanning'
  BY <1>1, <1>2 DEF IInv, Phases, Unused, Untouched, Running, Scanning
<1> QED BY <1>12, <1>17, <1>18, <1>19 DEF IInv

\* setupRemove.
LEMMA SetupRemoveKeeps ==
    ASSUME IInv, NEW w \in Keywords, NEW d \in Docs, setupRemove(w, d)
    PROVE  IInv'
<1> USE Constants
<1> DEFINE m == setupPairs1
           p == setupPairs2
           i == DV(m, w)[d]
           a == DAV(m, w)[d] + 1
           l == LastIND[w]
           c == UpdtCnt[w]
           n == Unlisted(m, w, d)
           q == setupPairs2'
<1>1. /\ phase = "setup" /\ phase' = "setup" /\ UNCHANGED <<updt, srch, scan>>
      /\ i = Slot(m, w, d)
  BY DEF setupRemove, DV
<1>2. /\ updt = EmptyMap /\ Kept(srch) = {} /\ ~srch.damaged /\ Sound(srch) /\ scan = Idle
      /\ SrchCnt[w] = 0 /\ latestUpdatedCounter[w] = 0
      /\ DOMAIN p \subseteq Keywords \X (1..N) \X (1..MaxAccess) /\ IsFiniteSet(DOMAIN p)
      /\ \A k \in DOMAIN p : IsDoc(p[k])
      /\ \A x \in Keywords : GoodOf(x, m, StagedRows(p, x))
      /\ Counters
  BY <1>1 DEF IInv, Unused, Loading, Stored, Fine
<1>3. CASE i <= 0
  <2>1. UNCHANGED <<UpdtCnt, SrchCnt, Access, LastIND, latestUpdatedCounter, setupPairs1, setupPairs2>>
    BY <1>1, <1>3 DEF setupRemove, counters, staged
  <2>2. Loading'
    BY <1>1, <2>1 DEF IInv, Loading, GoodOf
  <2>3. Counters' /\ Phases' /\ Stored' /\ Unused' /\ Untouched' /\ Running' /\ Scanning'
    BY <1>1, <1>2, <2>1 DEF IInv, Counters, Phases, Stored, Unused, Untouched, Running, Scanning
  <2> QED BY <2>2, <2>3 DEF IInv
<1>4. CASE i > 0
  <2>1. i \in (-1)..c /\ c \in 0..N /\ Access[w] \in 0..MaxAccess
    BY <1>2, GoodIn
  <2>2. ~(i <= 0)
    BY <1>4, <2>1
  <2>3. /\ UnlistedAccess(m, w, d) <= MaxAccess
        /\ Unlist(m, w, d) /\ setupPairs1' = n
        /\ UNCHANGED <<SrchCnt, latestUpdatedCounter>>
        /\ IF Moves(w, i) THEN q = insert(p, <<w, i, m[Bid0(w, d)][2] + 1>>, Doc(l)) ELSE q = p
    BY <1>1, <1>4, <2>2 DEF setupRemove, Stage
  <2>4. IF Moves(w, i) THEN q = insert(p, <<w, i, a>>, Doc(l)) ELSE q = p
    BY <1>4, <2>3, EntryOf
  <2>5. /\ i \in 1..N
        /\ Moves(w, i) => a \in 1..MaxAccess /\ l \in Docs /\ l # d
    <3>1. SV(m, w)[i] = d /\ i \in 1..c
      BY <1>2, <1>4, <2>1, GoodFacts DEF GoodOf
    <3>2. DAV(m, w)[d] = SAV(m, w)[i] /\ SAV(m, w)[i] > 0
      BY <1>2, <3>1, GoodFacts, SMTT(40) DEF GoodOf
    <3>3. SAV(m, w)[i] \in 0..MaxAccess
      BY <1>2, <2>1, <3>1, GoodIn
    <3>4. Moves(w, i) => Larger(Access[w], a) <= MaxAccess
      BY <1>4, <2>3, EntryOf DEF UnlistedAccess
    <3>5. Moves(w, i) => a \in 1..MaxAccess
      BY <2>1, <3>2, <3>3, <3>4 DEF Larger
    <3>6. Moves(w, i) => l \in Docs /\ l # d
      <4>1. c \in 1..c
        BY <2>1, <3>1
      <4>2. SV(m, w)[c] \in Docs /\ DV(m, w)[SV(m, w)[c]] = c /\ l = SV(m, w)[c]
        BY <1>2, <2>1, <4>1, GoodFacts DEF GoodOf
      <4>3. Moves(w, i) => i # c
        BY DEF Moves
      <4> QED BY <4>2, <4>3
    <3> QED BY <2>1, <3>1, <3>5, <3>6
  <2>6. /\ DOMAIN q \subseteq Keywords \X (1..N) \X (1..MaxAccess) /\ IsFiniteSet(DOMAIN q)
        /\ \A k \in DOMAIN q : IsDoc(q[k])
        /\ Shifted(w, i, a, StagedRows(p, w), StagedRows(q, w))
        /\ \A x \in Keywords : x # w => StagedRows(q, x) = StagedRows(p, x)
    <3> HIDE DEF i, a, l, q
    <3>1. CASE Moves(w, i)
      <4>1. q = insert(p, <<w, i, a>>, Doc(l)) /\ i \in 1..N /\ a \in 1..MaxAccess /\ IsDoc(Doc(l))
        BY <2>4, <2>5, <3>1 DEF IsDoc
      <4>2. /\ DOMAIN q \subseteq Keywords \X (1..N) \X (1..MaxAccess) /\ IsFiniteSet(DOMAIN q)
            /\ \A k \in DOMAIN q : IsDoc(q[k])
        BY <1>2, <4>1, StagedKeys
      <4>3. \A x : \A j \in 1..N : \A t \in 0..MaxSearches : \A k \in Accesses :
               StagedRows(q, x)[j][t][k] =
                  IF x = w /\ j = i /\ t = 0 /\ k = a THEN Doc(l) ELSE StagedRows(p, x)[j][t][k]
        BY <4>1, StagedStep
      <4>4. ASSUME NEW x \in Keywords, x # w PROVE StagedRows(q, x) = StagedRows(p, x)
        BY <4>3, <4>4, SameStaged
      <4>5. Shifted(w, i, a, StagedRows(p, w), StagedRows(q, w))
        BY <1>2, <3>1, <4>3 DEF Shifted, l
      <4> QED BY <4>2, <4>4, <4>5
    <3>2. CASE ~Moves(w, i)
      <4>1. q = p
        BY <2>4, <3>2
      <4> QED BY <1>2, <3>2, <4>1 DEF Shifted
    <3> QED BY <3>1, <3>2
  <2> HIDE DEF q
  <2>7. Good(UpdtCnt[w] - 1, SrchCnt[w], latestUpdatedCounter[w], UnlistedAccess(m, w, d), NewLast(n, w),
             DV(n, w), DAV(n, w), SV(n, w), SAV(n, w), StagedRows(q, w))
    BY <1>2, <1>4, <2>3, <2>6, GoodUnlist
  <2>8. /\ Counters'
        /\ UpdtCnt'[w] = UpdtCnt[w] - 1 /\ Access'[w] = UnlistedAccess(m, w, d)
        /\ LastIND'[w] = NewLast(n, w)
        /\ \A x \in Keywords : x # w =>
              UpdtCnt'[x] = UpdtCnt[x] /\ Access'[x] = Access[x] /\ LastIND'[x] = LastIND[x]
    BY <1>2, <2>3, UnlistCounters
  <2>9. DV(n, w)[d] = -1
    BY <1>4, <2>5, UnlistedViews
  <2>10. ASSUME NEW x \in Keywords, x # w
         PROVE  DV(n, x) = DV(m, x) /\ DAV(n, x) = DAV(m, x) /\ SV(n, x) = SV(m, x) /\ SAV(n, x) = SAV(m, x)
    <3>1. /\ \A e \in Docs : DV(n, x)[e] = DV(m, x)[e]
          /\ \A e \in Docs : DAV(n, x)[e] = DAV(m, x)[e]
          /\ \A j \in 1..N : SV(n, x)[j] = SV(m, x)[j]
          /\ \A j \in 1..N : SAV(n, x)[j] = SAV(m, x)[j]
      BY <1>4, <2>10, UnlistedViews
    <3> HIDE DEF n
    <3> QED BY <3>1, SameViews
  <2> HIDE DEF n
  <2>11. ASSUME NEW x \in Keywords PROVE GoodOf(x, setupPairs1, StagedRows(setupPairs2, x))'
    <3>1. CASE x = w
      BY <2>3, <2>7, <2>8, <3>1 DEF GoodOf, q
    <3>2. CASE x # w
      <4>1. GoodOf(x, m, StagedRows(p, x))
        BY <1>2
      <4> QED BY <2>3, <2>6, <2>8, <2>10, <3>2, <4>1 DEF GoodOf, q
    <3> QED BY <3>1, <3>2
  <2>12. ASSUME NEW x \in Keywords, \A e \in Docs : Slot(n, x, e) >= 0,
                NEW j \in 1..N, j > UpdtCnt'[x]
         PROVE  SAV(n, x)[j] = 0
    <3>1. \A e \in Docs : DV(n, x)[e] = Slot(n, x, e) /\ DV(m, x)[e] = Slot(m, x, e)
      BY DEF DV
    <3>2. x # w
      BY <2>9, <2>12, <3>1
    <3>3. \A e \in Docs : Slot(m, x, e) >= 0
      BY <2>10, <2>12, <3>1, <3>2
    <3>4. SAV(m, x)[j] = 0
      BY <1>1, <2>8, <2>12, <3>2, <3>3 DEF IInv, Loading
    <3> QED BY <2>10, <3>2, <3>4
  <2>13. Loading'
    <3>1. \A x \in Keywords : (\A e \in Docs : Slot(setupPairs1', x, e) >= 0) =>
             \A j \in 1..N : j > UpdtCnt'[x] => SAV(setupPairs1', x)[j] = 0
      BY <2>3, <2>12
    <3> QED BY <1>1, <2>6, <2>11, <3>1 DEF Loading, q
  <2>14. Stored'
    BY <1>1, <1>2, EmptyRows DEF Stored
  <2>15. Phases' /\ Unused' /\ Untouched' /\ Running' /\ Scanning'
    BY <1>1, <1>2, <2>3 DEF IInv, Phases, Unused, Untouched, Running, Scanning
  <2> QED BY <2>8, <2>13, <2>14, <2>15 DEF IInv
<1>5. i \in (-1)..c /\ c \in 0..N
  BY <1>2, GoodIn
<1> HIDE DEF i, c
<1>6. i <= 0 \/ i > 0
  BY <1>5
<1> QED BY <1>3, <1>4, <1>6

\* The map that endSetup stores.
LEMMA LoadedViews ==
    ASSUME NEW m, NEW w
    PROVE  LET n == batchInsert(EmptyMap, m)
           IN  DV(n, w) = DV(m, w) /\ DAV(n, w) = DAV(m, w) /\ SV(n, w) = SV(m, w) /\ SAV(n, w) = SAV(m, w)
<1> DEFINE n == batchInsert(EmptyMap, m)
<1>1. DOMAIN n = DOMAIN m /\ \A k \in DOMAIN m : n[k] = m[k]
  BY DEF batchInsert, EmptyMap
<1> HIDE DEF n
<1>2. ASSUME NEW e \in Docs PROVE DV(n, w)[e] = DV(m, w)[e] /\ DAV(n, w)[e] = DAV(m, w)[e]
  BY <1>1 DEF DV, DAV, Slot, Has
<1>3. ASSUME NEW i \in 1..N PROVE SV(n, w)[i] = SV(m, w)[i] /\ SAV(n, w)[i] = SAV(m, w)[i]
  BY <1>1 DEF SV, SAV, Has
<1>4. DV(n, w) = DV(m, w) /\ DAV(n, w) = DAV(m, w) /\ SV(n, w) = SV(m, w) /\ SAV(n, w) = SAV(m, w)
  BY <1>2, <1>3, SameViews
<1> QED BY <1>4 DEF n

\* endSetup.
LEMMA EndSetupKeeps ==
    ASSUME IInv, endSetup
    PROVE  IInv' /\ srch'.damaged = srch.damaged
<1> USE Constants
<1> DEFINE P == setupPairs2
           K == DOMAIN P
           bid(k) == createBid(k[1], k[2], 0, k[3])
           keyOf(b) == CHOOSE k \in K : bid(k) = b
           bids == {bid(k) : k \in K}
           values == [b \in bids |-> P[keyOf(b)]]
           pos == [b \in bids |-> generatePosition(keyOf(b)[1], keyOf(b)[2], 0, keyOf(b)[3])]
           o == batchWrite(srch, values, pos)
<1>1. /\ phase = "setup" /\ phase' = (IF o.threw THEN "dead" ELSE "run")
      /\ updt' = (IF o.threw THEN updt ELSE batchInsert(updt, setupPairs1))
      /\ srch' = (IF o.threw THEN srch ELSE o)
      /\ UNCHANGED <<UpdtCnt, SrchCnt, Access, LastIND, latestUpdatedCounter>> /\ scan' = scan
  BY DEF endSetup, counters
<1>2. /\ updt = EmptyMap /\ Kept(srch) = {} /\ ~srch.damaged /\ scan = Idle
      /\ \A k \in K : IsDoc(P[k])
      /\ K \subseteq Keywords \X (1..N) \X (1..MaxAccess) /\ IsFiniteSet(K)
      /\ \A x \in Keywords : GoodOf(x, setupPairs1, StagedRows(P, x))
      /\ Fine(srch, Access) /\ Sound(srch)
  BY <1>1 DEF IInv, Unused, Loading, Stored, Fine
<1>3. CASE o.threw
  <2>1. phase' = "dead" /\ srch' = srch
    BY <1>1, <1>3
  <2> HIDE DEF o
  <2> QED BY <1>1, <1>2, <2>1 DEF IInv, Counters, Phases, Stored, Unused, Untouched, Running, Loading, Scanning
<1>4. CASE ~o.threw
  <2>1. ASSUME NEW k \in K
        PROVE  /\ k[1] \in Keywords /\ k[2] \in 1..N /\ k[3] \in 1..MaxAccess /\ k[3] \in Accesses
               /\ k = <<k[1], k[2], k[3]>> /\ 0 \in 0..MaxSearches
    BY <1>2, InRange
  <2>2. ASSUME NEW k \in K, NEW l \in K, bid(k) = bid(l) PROVE k = l
    <3>1. k[1] = l[1] /\ k[2] = l[2] /\ k[3] = l[3]
      BY <2>1, <2>2, BoxApart
    <3>2. k = <<k[1], k[2], k[3]>> /\ l = <<l[1], l[2], l[3]>>
      BY <2>1
    <3> QED BY <3>1, <3>2, Zenon
  <2>3. ASSUME NEW b \in bids PROVE keyOf(b) \in K /\ bid(keyOf(b)) = b
    <3>1. \E k \in K : bid(k) = b
      OBVIOUS
    <3> HIDE DEF bid
    <3> QED BY <3>1, Zenon
  <2>4. ASSUME NEW k \in K PROVE bid(k) \in bids /\ keyOf(bid(k)) = k
    <3>1. bid(k) \in bids
      OBVIOUS
    <3>2. keyOf(bid(k)) \in K /\ bid(keyOf(bid(k))) = bid(k)
      BY <2>3, <3>1
    <3> HIDE DEF keyOf, bid
    <3> QED BY <2>2, <3>1, <3>2
  <2>5. ASSUME NEW k \in K
        PROVE  /\ bid(k) \in Nat /\ generatePosition(k[1], k[2], 0, k[3]) \in Leaves
               /\ generatePosition(k[1], k[2], 0, k[3]) = PosOf(bid(k))
               /\ bid(k) % Radix \in Keywords
    <3>1. k[1] \in Digits /\ k[2] \in Nat /\ 0 \in Digits /\ k[3] \in Digits
      BY <2>1, InRange
    <3>2. PICK x, j, a : x = k[1] /\ j = k[2] /\ a = k[3]
      OBVIOUS
    <3>3. Parts(createBid(x, j, 0, a)) = <<x, j, 0, a>>
      BY <3>1, <3>2, BidFacts
    <3>4. createBid(x, j, 0, a) % Radix = x
      BY <3>3 DEF Parts
    <3>5. bid(k) % Radix \in Keywords
      BY <2>1, <3>2, <3>4
    <3>6. /\ bid(k) \in Nat /\ generatePosition(k[1], k[2], 0, k[3]) \in Leaves
          /\ generatePosition(k[1], k[2], 0, k[3]) = PosOf(bid(k))
      BY <2>1, <3>1, BidFacts, PosLeaf
    <3> QED BY <3>5, <3>6
  <2>6. IsFiniteSet(bids)
    <3> DEFINE f == [k \in K |-> bid(k)]
    <3> HIDE DEF bid, K
    <3>1. f \in Surjection(K, bids)
      BY DEF Surjection
    <3> HIDE DEF f, bids
    <3> QED BY <1>2, <3>1, FS_Surjection
  <2> HIDE DEF keyOf, K
  <2>7. DOMAIN values = bids /\ DOMAIN pos = bids
    OBVIOUS
  <2>8. \A b \in bids : b \in Nat /\ pos[b] \in Leaves /\ pos[b] = PosOf(b)
    <3> SUFFICES ASSUME NEW b \in bids PROVE b \in Nat /\ pos[b] \in Leaves /\ pos[b] = PosOf(b)
      OBVIOUS
    <3>1. keyOf(b) \in K /\ bid(keyOf(b)) = b
      BY <2>3
    <3>2. pos[b] = generatePosition(keyOf(b)[1], keyOf(b)[2], 0, keyOf(b)[3])
      OBVIOUS
    <3>3. b \in Nat /\ generatePosition(keyOf(b)[1], keyOf(b)[2], 0, keyOf(b)[3]) \in Leaves
          /\ generatePosition(keyOf(b)[1], keyOf(b)[2], 0, keyOf(b)[3]) = PosOf(b)
      BY <2>5, <3>1
    <3> QED BY <3>2, <3>3
  <2>9. \A k \in K : bid(k) \in bids /\ values[bid(k)] = P[k]
    BY <2>4
  <2>10. \A b \in bids : keyOf(b) \in K /\ bid(keyOf(b)) = b
    BY <2>3
  <2>101. \A b \in bids : b % Radix \in Keywords /\ Value(values[b], Access[b % Radix])
    <3> SUFFICES ASSUME NEW b \in bids PROVE b % Radix \in Keywords /\ Value(values[b], Access[b % Radix])
      OBVIOUS
    <3>1. keyOf(b) \in K /\ bid(keyOf(b)) = b
      BY <2>3
    <3>2. values[b] = P[keyOf(b)]
      OBVIOUS
    <3>3. b % Radix \in Keywords
      BY <2>5, <3>1
    <3> HIDE DEF values, bids, bid
    <3> QED BY <1>2, <3>1, <3>2, <3>3 DEF Value, K
  <2> HIDE DEF bids, values, pos, bid
  <2>11. /\ Fine(o, Access) /\ ~o.damaged /\ o.damaged = srch.damaged
         /\ \A x, j, t, k : Look(Contents(o), x, j, t, k) =
               IF createBid(x, j, t, k) \in bids THEN values[createBid(x, j, t, k)]
               ELSE Look(Contents(srch), x, j, t, k)
    <3>1. DOMAIN pos = DOMAIN values /\ DOMAIN pos \subseteq Nat /\ IsFiniteSet(DOMAIN pos)
      BY <2>6, <2>7, <2>8
    <3>2. \A b \in DOMAIN pos : pos[b] \in Leaves /\ pos[b] = PosOf(b)
      BY <2>7, <2>8
    <3>3. o = batchWrite(srch, values, pos)
      OBVIOUS
    <3> HIDE DEF o
    <3>4. WroteAll(srch, Access, values, o)
      <4>1. \A b \in DOMAIN values : b % Radix \in Keywords /\ Value(values[b], Access[b % Radix])
        BY <2>7, <2>101
      <4> QED BY <1>2, <1>4, <3>1, <3>2, <3>3, <4>1, WriteAll
    <3> QED BY <1>2, <2>7, <3>4 DEF WroteAll
  <2> HIDE DEF o
  <2>12. ASSUME NEW x \in Keywords, NEW j \in 1..N, NEW t \in 0..MaxSearches, NEW k \in Accesses
         PROVE  Look(Contents(o), x, j, t, k) = StagedLook(P, x, j, t, k)
    <3> DEFINE b == createBid(x, j, t, k)
               key == <<x, j, k>>
    <3>1. Look(Contents(srch), x, j, t, k) = << >>
      <4>1. Rows(Contents(srch), x)[j][t][k] = << >>
        BY <1>2, EmptyRows
      <4> QED BY <4>1, RowsAt
    <3>2. CASE t = 0 /\ key \in K
      <4>1. bid(key) = b
        BY <3>2 DEF bid
      <4>2. b \in bids /\ values[b] = P[key]
        BY <2>9, <3>2, <4>1
      <4>3. Look(Contents(o), x, j, t, k) = P[key]
        BY <2>11, <4>2
      <4>4. StagedLook(P, x, j, t, k) = P[key]
        BY <3>2 DEF StagedLook, Has, K
      <4> QED BY <4>3, <4>4
    <3>3. CASE ~(t = 0 /\ key \in K)
      <4>1. ASSUME b \in bids PROVE FALSE
        <5>1. keyOf(b) \in K /\ bid(keyOf(b)) = b
          BY <2>10, <4>1
        <5>2. PICK z : z = keyOf(b)
          OBVIOUS
        <5>3. z \in K /\ createBid(z[1], z[2], 0, z[3]) = createBid(x, j, t, k)
          BY <5>1, <5>2 DEF bid
        <5>4. x = z[1] /\ j = z[2] /\ t = 0 /\ k = z[3]
          BY <2>1, <5>3, BoxApart
        <5>5. z = <<z[1], z[2], z[3]>>
          BY <2>1, <5>3
        <5> QED BY <3>3, <5>3, <5>4, <5>5
      <4>2. Look(Contents(o), x, j, t, k) = << >>
        BY <2>11, <3>1, <4>1
      <4>3. StagedLook(P, x, j, t, k) = << >>
        BY <3>3 DEF StagedLook, Has, K
      <4> QED BY <4>2, <4>3
    <3> QED BY <3>2, <3>3
  <2>13. \A x \in Keywords : Rows(Contents(o), x) = StagedRows(P, x)
    BY <2>12 DEF Rows, StagedRows
  <2>14. phase' = "run" /\ srch' = o /\ updt' = batchInsert(EmptyMap, setupPairs1)
    BY <1>1, <1>2, <1>4
  <2>15. ASSUME NEW x \in Keywords PROVE GoodOf(x, updt, Rows(Contents(srch), x))'
    <3>1. GoodOf(x, setupPairs1, StagedRows(P, x))
      BY <1>2
    <3>2. /\ DV(updt', x) = DV(setupPairs1, x) /\ DAV(updt', x) = DAV(setupPairs1, x)
          /\ SV(updt', x) = SV(setupPairs1, x) /\ SAV(updt', x) = SAV(setupPairs1, x)
      BY <2>14, LoadedViews
    <3> QED BY <1>1, <2>13, <2>14, <3>1, <3>2 DEF GoodOf
  <2>151. Running'
    BY <2>15 DEF Running, InOrder
  <2>16. Counters' /\ Phases' /\ Stored' /\ Unused' /\ Untouched' /\ Loading' /\ Scanning'
    BY <1>1, <1>2, <2>11, <2>14 DEF IInv, Counters, Phases, Stored, Unused, Untouched, Loading, Scanning
  <2> QED BY <2>11, <2>14, <2>151, <2>16 DEF IInv
<1> QED BY <1>3, <1>4

-----------------------------------------------------------------------------
\* The bisection.
LEMMA Halves ==
    ASSUME NEW n \in Nat
    PROVE  /\ Floor2(n) \in Nat /\ 2 * Floor2(n) <= n /\ n <= 2 * Floor2(n) + 1
           /\ Ceil2(n) \in Nat /\ n <= 2 * Ceil2(n) /\ 2 * Ceil2(n) <= n + 1
BY DEF Floor2, Ceil2

\* The first round sets the interval: it begins where box 1 of the slot says.
LEMMA FirstRoundOK ==
    ASSUME NEW A \in 0..MaxAccess, NEW a \in 1..A, NEW d, NEW row, Readable(a, row),
           NEW it, it = [left |-> 1, right |-> A, cur |-> 1, lastAcc |-> 0, lastID |-> << >>, found |-> FALSE]
    PROVE  ItemOK(FirstRound(it, row[1]), A, d, a, row)
<1> USE Constants
<1>1. PICK st \in 1..a : /\ \A k \in st..a : IsDoc(row[k])
                         /\ st = 1 \/ row[1] = At(st)
  BY DEF Readable
<1> DEFINE id == row[1]
           m == Floor2(st + A)
<1>2. /\ id # << >> /\ id[1] = "at" => row[1] = At(st) /\ id[2] = st
      /\ ~(id # << >> /\ id[1] = "at") => st = 1
  <2>1. CASE st = 1
    <3>1. IsDoc(row[1])
      BY <1>1, <2>1
    <3>2. id[1] = "doc"
      BY <3>1, Values
    <3> QED BY <2>1, <3>2
  <2>2. CASE row[1] = At(st)
    BY <2>2, Values
  <2> QED BY <1>1, <2>1, <2>2
<1>3. m \in st..A /\ (m = A => A <= st + 1)
  <2>1. st + A \in Nat
    OBVIOUS
  <2>2. m \in Nat /\ 2 * m <= st + A /\ st + A <= 2 * m + 1
    BY <2>1, Halves
  <2> HIDE DEF m
  <2> QED BY <2>2
<1>4. \E x : FirstRound(it, id) = [left |-> st, right |-> A, cur |-> m, lastAcc |-> x, lastID |-> << >>, found |-> FALSE]
  <2>1. CASE id # << >> /\ id[1] = "at"
    <3>1. id[2] = st
      BY <1>2, <2>1
    <3>2. FirstRound(it, id) = [it EXCEPT !.left = st, !.cur = m, !.lastAcc = m]
      BY <2>1, <3>1 DEF FirstRound
    <3> HIDE DEF m
    <3> QED BY <3>2
  <2>2. CASE ~(id # << >> /\ id[1] = "at")
    <3>1. st = 1
      BY <1>2, <2>2
    <3>2. FirstRound(it, id) = [it EXCEPT !.cur = m]
      BY <2>2, <3>1 DEF FirstRound
    <3> HIDE DEF m
    <3> QED BY <3>1, <3>2
  <2> QED BY <2>1, <2>2
<1> HIDE DEF m
<1>5. PICK x : FirstRound(it, id) = [left |-> st, right |-> A, cur |-> m, lastAcc |-> x, lastID |-> << >>, found |-> FALSE]
  BY <1>4
<1> DEFINE r == FirstRound(it, id)
<1>6. r.left = st /\ r.right = A /\ r.cur = m /\ r.lastAcc = x /\ r.lastID = << >> /\ r.found = FALSE /\ Record(r)
  BY <1>5 DEF Record
<1> HIDE DEF r
<1>7. ItemOK(r, A, d, a, row)
  <2>1. /\ r.left \in 1..a /\ r.right \in a..A /\ r.cur \in r.left..r.right
        /\ r.cur = r.right => r.right <= r.left + 1
    BY <1>3, <1>6
  <2>2. \A k \in r.left..a : IsDoc(row[k])
    BY <1>1, <1>6
  <2> QED BY <1>6, <2>1, <2>2 DEF ItemOK
<1> QED BY <1>7 DEF r

\* A later round keeps the access count looked for in the interval, and makes
\* progress.
LEMMA LaterRoundOK ==
    ASSUME NEW A \in 0..MaxAccess, NEW a \in 1..A, NEW d \in Docs, NEW row, row[a] = Doc(d),
           \A k \in Accesses : k > a => row[k] = << >>,
           NEW it, ItemOK(it, A, d, a, row), ~it.found
    PROVE  /\ ItemOK(LaterRound(it, row[it.cur]), A, d, a, row)
           /\ \/ LaterRound(it, row[it.cur]).found
              \/ Span(LaterRound(it, row[it.cur])) \in 0..(Span(it) - 1)
<1> USE Constants
<1> DEFINE l == it.left
           r == it.right
           c == it.cur
           id == row[c]
           n == LaterRound(it, id)
<1>1. /\ l \in 1..a /\ r \in a..A /\ c \in l..r
      /\ c = r => r <= l + 1
      /\ \A k \in l..a : IsDoc(row[k])
      /\ it.lastID # << >> => it.lastAcc = l /\ it.lastID = row[l]
  BY DEF ItemOK
<1>2. it = [left |-> l, right |-> r, cur |-> c, lastAcc |-> it.lastAcc, lastID |-> it.lastID, found |-> it.found]
  BY DEF ItemOK, Record
<1>3. id = << >> <=> c > a
  <2>1. CASE c > a
    <3>1. c \in Accesses
      BY <1>1, <2>1 DEF Accesses
    <3> QED BY <2>1, <3>1
  <2>2. CASE ~(c > a)
    <3>1. c \in l..a
      BY <1>1, <2>2
    <3>2. IsDoc(id)
      BY <1>1, <3>1
    <3> QED BY <2>2, <3>2, Values
  <2> QED BY <2>1, <2>2
<1>4. (c = l => Span(it) = 2 * (r - l) + 1) /\ (c # l => Span(it) = 2 * (r - l))
  BY <1>1 DEF Span
<1> DEFINE New(nl, nr, nc, la, li, f) ==
               n = [left |-> nl, right |-> nr, cur |-> nc, lastAcc |-> la, lastID |-> li, found |-> f]
<1>5. ASSUME NEW nl \in 1..a, NEW nr \in a..A, NEW nc \in nl..nr, NEW la, NEW li, NEW f \in BOOLEAN,
             New(nl, nr, nc, la, li, f), nc = nr => nr <= nl + 1, nl >= l,
             li # << >> => la = nl /\ li = row[nl], f => la = a /\ li = Doc(d)
      PROVE  ItemOK(n, A, d, a, row)
  <2> HIDE DEF n
  <2>1. n.left = nl /\ n.right = nr /\ n.cur = nc /\ n.lastAcc = la /\ n.lastID = li /\ n.found = f /\ Record(n)
    BY <1>5 DEF Record
  <2>2. \A k \in nl..a : k \in l..a
    BY <1>1, <1>5
  <2>3. \A k \in nl..a : IsDoc(row[k])
    BY <1>1, <2>2
  <2>4. /\ n.left \in 1..a /\ n.right \in a..A /\ n.cur \in n.left..n.right
        /\ n.cur = n.right => n.right <= n.left + 1
    BY <1>5, <2>1
  <2>5. /\ n.lastID # << >> => n.lastAcc = n.left /\ n.lastID = row[n.left]
        /\ n.found => n.lastAcc = a /\ n.lastID = Doc(d)
        /\ n.found \in BOOLEAN
    BY <1>5, <2>1
  <2> QED BY <2>1, <2>3, <2>4, <2>5 DEF ItemOK
<1>6. CASE (id = << >> \/ l >= r) /\ r <= l
  <2>1. l = a /\ r = a /\ c = a
    BY <1>1, <1>6
  <2>2. id = Doc(d) /\ IsDoc(id) /\ id # << >>
    BY <2>1, Values
  <2>3. New(l, r, c, a, Doc(d), TRUE)
    <3>1. CASE it.lastID = << >>
      <4>1. n = [it EXCEPT !.found = TRUE, !.lastID = id, !.lastAcc = c]
        BY <1>1, <1>6, <3>1 DEF LaterRound
      <4> QED BY <1>2, <2>1, <2>2, <4>1
    <3>2. CASE it.lastID # << >>
      <4>1. n = [it EXCEPT !.found = TRUE]
        BY <1>1, <1>6, <3>2 DEF LaterRound
      <4>2. it.lastAcc = a /\ it.lastID = Doc(d)
        BY <1>1, <2>1, <3>2
      <4> QED BY <1>2, <4>1, <4>2
    <3> QED BY <3>1, <3>2
  <2>4. n.found
    BY <2>3
  <2> HIDE DEF New
  <2>5. ItemOK(n, A, d, a, row)
    <3>1. /\ l \in 1..a /\ r \in a..A /\ c \in l..r /\ (c = r => r <= l + 1) /\ l >= l
          /\ a = l /\ Doc(d) = row[l] /\ TRUE \in BOOLEAN
      BY <1>1, <2>1
    <3> HIDE DEF n
    <3> QED BY <1>5, <2>3, <3>1
  <2> QED BY <2>4, <2>5
<1>7. CASE id = << >> /\ l < r
  <2>1. c > a
    BY <1>3, <1>7
  <2>2. ~((id = << >> \/ l >= r) /\ r <= l)
    BY <1>1, <1>7
  <2>3. n = IF c = r THEN [it EXCEPT !.cur = Floor2(l + r), !.right = Floor2(l + r)]
            ELSE [it EXCEPT !.right = c, !.cur = Ceil2(l + c)]
    BY <1>7, <2>2 DEF LaterRound
  <2>4. CASE c = r
    <3>1. r = l + 1 /\ a = l
      BY <1>1, <2>1, <2>4
    <3>2. Floor2(l + r) = l
      <4>1. l + r \in Nat
        BY <1>1
      <4>2. Floor2(l + r) \in Nat /\ 2 * Floor2(l + r) <= l + r /\ l + r <= 2 * Floor2(l + r) + 1
        BY <4>1, Halves
      <4> QED BY <1>1, <3>1, <4>2
    <3>3. n = [it EXCEPT !.cur = l, !.right = l]
      BY <2>3, <2>4, <3>2
    <3> HIDE DEF n
    <3>4. New(l, l, l, it.lastAcc, it.lastID, it.found)
      BY <1>2, <3>3
    <3>5. Span(n) = 1
      BY <1>1, <3>4 DEF Span
    <3>6. Span(it) = 2
      BY <1>1, <1>4, <2>4, <3>1
    <3> HIDE DEF New
    <3>7. ItemOK(n, A, d, a, row)
      <4>1. l \in 1..a /\ l \in a..A /\ l \in l..l /\ (l = l => l <= l + 1) /\ l >= l /\ it.found = FALSE
            /\ it.found \in BOOLEAN
        BY <1>1, <3>1 DEF ItemOK
      <4> QED BY <1>1, <1>5, <3>4, <4>1
    <3> QED BY <3>5, <3>6, <3>7 DEF n
  <2>5. CASE c # r
    <3> DEFINE h == Ceil2(l + c)
    <3>1. h \in l..c /\ (h = c => c <= l + 1) /\ c \in a..A /\ c < r
      <4>1. l + c \in Nat
        BY <1>1
      <4>2. h \in Nat /\ l + c <= 2 * h /\ 2 * h <= l + c + 1
        BY <4>1, Halves
      <4> HIDE DEF h
      <4> QED BY <1>1, <2>1, <2>5, <4>2, SMTT(40)
    <3>2. n = [it EXCEPT !.right = c, !.cur = h]
      BY <2>3, <2>5
    <3> HIDE DEF n, h
    <3>3. New(l, c, h, it.lastAcc, it.lastID, it.found)
      BY <1>2, <3>2
    <3>4. (h = l => Span(n) = 2 * (c - l) + 1) /\ (h # l => Span(n) = 2 * (c - l))
      BY <1>1, <3>3 DEF Span
    <3>5. Span(n) \in 0..(Span(it) - 1)
      <4>1. l \in Nat /\ c \in Nat /\ r \in Nat /\ l <= c /\ c < r
        BY <1>1, <3>1
      <4>2. Span(n) \in Int /\ Span(n) <= 2 * (c - l) + 1 /\ Span(n) >= 2 * (c - l)
        BY <3>4, <4>1
      <4>3. Span(it) \in Int /\ Span(it) >= 2 * (r - l)
        BY <1>4, <4>1
      <4> HIDE DEF l, r, c
      <4> QED BY <4>1, <4>2, <4>3
    <3> HIDE DEF New
    <3>6. ItemOK(n, A, d, a, row)
      <4>1. it.found = FALSE /\ it.found \in BOOLEAN /\ l >= l
        BY <1>1 DEF ItemOK
      <4> QED BY <1>1, <1>5, <3>1, <3>3, <4>1
    <3> QED BY <3>5, <3>6 DEF n
  <2> QED BY <2>4, <2>5
<1>8. CASE id # << >> /\ l < r
  <2>1. c <= a
    BY <1>1, <1>3, <1>8
  <2>2. ~((id = << >> \/ l >= r) /\ r <= l)
    BY <1>1, <1>8
  <2> DEFINE h == IF c = l THEN Ceil2(c + r) ELSE Floor2(c + r)
  <2>3. n = [it EXCEPT !.lastID = id, !.lastAcc = c, !.left = c, !.cur = h]
    BY <1>8, <2>2 DEF LaterRound
  <2>4. h \in c..r /\ (h = r => r <= c + 1) /\ (c = l => h > c) /\ c \in 1..a
    <3>1. c + r \in Nat
      BY <1>1
    <3>2. /\ Floor2(c + r) \in Nat /\ 2 * Floor2(c + r) <= c + r /\ c + r <= 2 * Floor2(c + r) + 1
          /\ Ceil2(c + r) \in Nat /\ c + r <= 2 * Ceil2(c + r) /\ 2 * Ceil2(c + r) <= c + r + 1
      BY <3>1, Halves
    <3>3. c \in 1..a
      BY <1>1, <2>1
    <3>4. CASE c = l
      BY <1>1, <1>8, <3>2, <3>3, <3>4
    <3>5. CASE c # l
      BY <1>1, <1>8, <3>2, <3>3, <3>5, SMTT(40)
    <3> QED BY <3>4, <3>5
  <2> HIDE DEF n, h
  <2>5. New(c, r, h, c, id, it.found)
    BY <1>2, <2>3
  <2>6. (h = c => Span(n) = 2 * (r - c) + 1) /\ (h # c => Span(n) = 2 * (r - c))
    BY <1>1, <2>5 DEF Span
  <2>7. Span(n) \in 0..(Span(it) - 1)
    BY <1>1, <1>4, <2>4, <2>6, SMTT(40)
  <2> HIDE DEF New
  <2>8. ItemOK(n, A, d, a, row)
    <3>1. it.found = FALSE /\ it.found \in BOOLEAN /\ c >= l
      BY <1>1 DEF ItemOK
    <3> QED BY <1>1, <1>5, <2>4, <2>5, <3>1
  <2> QED BY <2>7, <2>8 DEF n
<1>9. ((id = << >> \/ l >= r) /\ r <= l) \/ (id = << >> /\ l < r) \/ (id # << >> /\ l < r)
  BY <1>1
<1> QED BY <1>6, <1>7, <1>8, <1>9

\* Whatever box 1 holds, the first round sets an interval.
LEMMA FirstRoundSane ==
    ASSUME NEW A \in 1..MaxAccess, NEW id, id = << >> \/ Value(id, A),
           NEW it, it = [left |-> 1, right |-> A, cur |-> 1, lastAcc |-> 0, lastID |-> << >>, found |-> FALSE]
    PROVE  Sane(FirstRound(it, id), A)
<1> USE Constants
<1>1. PICK st \in 1..A : IF id # << >> /\ id[1] = "at" THEN id[2] = st ELSE st = 1
  <2>1. CASE id # << >> /\ id[1] = "at"
    <3>1. PICK j \in 1..A : id = At(j)
      BY <2>1, Values DEF Value
    <3>2. id[2] = j
      BY <3>1, Values
    <3> QED BY <2>1, <3>2
  <2>2. CASE ~(id # << >> /\ id[1] = "at")
    <3>1. 1 \in 1..A
      OBVIOUS
    <3> QED BY <2>2, <3>1
  <2> QED BY <2>1, <2>2
<1> DEFINE m == Floor2(st + A)
<1>3. m \in st..A /\ (m = A => A <= st + 1)
  <2>1. st + A \in Nat
    OBVIOUS
  <2>2. m \in Nat /\ 2 * m <= st + A /\ st + A <= 2 * m + 1
    BY <2>1, Halves
  <2> HIDE DEF m
  <2> QED BY <2>2
<1>4. \E x : FirstRound(it, id) = [left |-> st, right |-> A, cur |-> m, lastAcc |-> x, lastID |-> << >>, found |-> FALSE]
  <2>1. CASE id # << >> /\ id[1] = "at"
    <3>2. FirstRound(it, id) = [it EXCEPT !.left = st, !.cur = m, !.lastAcc = m]
      BY <1>1, <2>1 DEF FirstRound
    <3> HIDE DEF m
    <3> QED BY <3>2
  <2>2. CASE ~(id # << >> /\ id[1] = "at")
    <3>1. st = 1
      BY <1>1, <2>2
    <3>2. FirstRound(it, id) = [it EXCEPT !.cur = m]
      BY <2>2, <3>1 DEF FirstRound
    <3> HIDE DEF m
    <3> QED BY <3>1, <3>2
  <2> QED BY <2>1, <2>2
<1> HIDE DEF m
<1>5. PICK x : FirstRound(it, id) = [left |-> st, right |-> A, cur |-> m, lastAcc |-> x, lastID |-> << >>, found |-> FALSE]
  BY <1>4
<1> DEFINE r == FirstRound(it, id)
<1>6. r.left = st /\ r.right = A /\ r.cur = m /\ r.lastID = << >> /\ r.found = FALSE /\ Record(r)
  BY <1>5 DEF Record
<1> HIDE DEF r
<1>7. Sane(r, A)
  <2>1. r.left \in 1..A /\ r.right \in 1..A /\ r.cur \in r.left..r.right /\ (r.cur = r.right => r.right <= r.left + 1)
    BY <1>3, <1>6
  <2> QED BY <1>6, <2>1 DEF Sane
<1> QED BY <1>7 DEF r

\* Whatever a later round reads, it leaves an interval and makes progress.
LEMMA LaterRoundSane ==
    ASSUME NEW A \in 1..MaxAccess, NEW id, id = << >> \/ Value(id, A),
           NEW it, Sane(it, A), ~it.found
    PROVE  /\ Sane(LaterRound(it, id), A)
           /\ LaterRound(it, id).found \/ Span(LaterRound(it, id)) \in 0..(Span(it) - 1)
<1> USE Constants
<1> DEFINE l == it.left
           r == it.right
           c == it.cur
           n == LaterRound(it, id)
<1>1. /\ l \in 1..A /\ r \in 1..A /\ c \in l..r
      /\ c = r => r <= l + 1
      /\ it.lastID # << >> => it.lastAcc \in 1..A /\ Value(it.lastID, A)
      /\ it.found = FALSE
  BY DEF Sane
<1>2. it = [left |-> l, right |-> r, cur |-> c, lastAcc |-> it.lastAcc, lastID |-> it.lastID, found |-> it.found]
  BY DEF Sane, Record
<1>3. c \in 1..A
  BY <1>1
<1>4. (c = l => Span(it) = 2 * (r - l) + 1) /\ (c # l => Span(it) = 2 * (r - l))
  BY <1>1 DEF Span
<1> DEFINE New(nl, nr, nc, la, li, f) ==
               n = [left |-> nl, right |-> nr, cur |-> nc, lastAcc |-> la, lastID |-> li, found |-> f]
<1>5. ASSUME NEW nl \in 1..A, NEW nr \in 1..A, NEW nc \in nl..nr, NEW la, NEW li, NEW f \in BOOLEAN,
             New(nl, nr, nc, la, li, f), nc = nr => nr <= nl + 1,
             li # << >> => la \in 1..A /\ Value(li, A)
      PROVE  Sane(n, A)
  <2> HIDE DEF n
  <2>1. n.left = nl /\ n.right = nr /\ n.cur = nc /\ n.lastAcc = la /\ n.lastID = li /\ n.found = f /\ Record(n)
    BY <1>5 DEF Record
  <2>2. n.left \in 1..A /\ n.right \in 1..A /\ n.cur \in n.left..n.right /\ (n.cur = n.right => n.right <= n.left + 1)
    BY <1>5, <2>1
  <2>3. (n.lastID # << >> => n.lastAcc \in 1..A /\ Value(n.lastID, A)) /\ n.found \in BOOLEAN
    BY <1>5, <2>1
  <2> QED BY <2>1, <2>2, <2>3 DEF Sane
<1>6. CASE (id = << >> \/ l >= r) /\ r <= l
  <2>1. l = r /\ c = r
    BY <1>1, <1>6
  <2>2. \E la, li : New(l, r, c, la, li, TRUE) /\ (li # << >> => la \in 1..A /\ Value(li, A))
    <3>1. CASE it.lastID = << >>
      <4>1. n = [it EXCEPT !.found = TRUE, !.lastID = id, !.lastAcc = c]
        BY <1>1, <1>6, <3>1 DEF LaterRound
      <4>2. New(l, r, c, c, id, TRUE)
        BY <1>2, <4>1
      <4> HIDE DEF New
      <4> QED BY <1>3, <4>2
    <3>2. CASE it.lastID # << >>
      <4>1. n = [it EXCEPT !.found = TRUE]
        BY <1>1, <1>6, <3>2 DEF LaterRound
      <4>2. New(l, r, c, it.lastAcc, it.lastID, TRUE)
        BY <1>2, <4>1
      <4> HIDE DEF New
      <4> QED BY <1>1, <4>2
    <3> QED BY <3>1, <3>2
  <2>3. PICK la, li : New(l, r, c, la, li, TRUE) /\ (li # << >> => la \in 1..A /\ Value(li, A))
    BY <2>2
  <2>4. n.found
    BY <2>3
  <2> HIDE DEF New, n
  <2>5. l \in 1..A /\ r \in 1..A /\ c \in l..r /\ (c = r => r <= l + 1) /\ TRUE \in BOOLEAN
    BY <1>1
  <2>6. Sane(n, A)
    BY <1>5, <2>3, <2>5
  <2> QED BY <2>4, <2>6 DEF n
<1>7. CASE id = << >> /\ l < r
  <2>2. ~((id = << >> \/ l >= r) /\ r <= l)
    BY <1>1, <1>7
  <2>3. n = IF c = r THEN [it EXCEPT !.cur = Floor2(l + r), !.right = Floor2(l + r)]
            ELSE [it EXCEPT !.right = c, !.cur = Ceil2(l + c)]
    BY <1>7, <2>2 DEF LaterRound
  <2>4. CASE c = r
    <3>1. r = l + 1
      BY <1>1, <1>7, <2>4
    <3>2. Floor2(l + r) = l
      <4>1. l + r \in Nat
        BY <1>1
      <4>2. Floor2(l + r) \in Nat /\ 2 * Floor2(l + r) <= l + r /\ l + r <= 2 * Floor2(l + r) + 1
        BY <4>1, Halves
      <4> QED BY <1>1, <3>1, <4>2
    <3>3. n = [it EXCEPT !.cur = l, !.right = l]
      BY <2>3, <2>4, <3>2
    <3> HIDE DEF n
    <3>4. New(l, l, l, it.lastAcc, it.lastID, it.found)
      BY <1>2, <3>3
    <3>5. Span(n) = 1
      BY <1>1, <3>4 DEF Span
    <3>6. Span(it) = 2
      BY <1>1, <1>4, <2>4, <3>1
    <3> HIDE DEF New
    <3>7. Sane(n, A)
      <4>1. l \in l..l /\ (l = l => l <= l + 1)
        BY <1>1
      <4>2. it.found \in BOOLEAN
        BY <1>1
      <4> QED BY <1>1, <1>5, <3>4, <4>1, <4>2
    <3> QED BY <3>5, <3>6, <3>7 DEF n
  <2>5. CASE c # r
    <3> DEFINE h == Ceil2(l + c)
    <3>1. h \in l..c /\ (h = c => c <= l + 1) /\ c < r
      <4>1. l + c \in Nat
        BY <1>1
      <4>2. h \in Nat /\ l + c <= 2 * h /\ 2 * h <= l + c + 1
        BY <4>1, Halves
      <4> HIDE DEF h
      <4> QED BY <1>1, <2>5, <4>2, SMTT(40)
    <3>2. n = [it EXCEPT !.right = c, !.cur = h]
      BY <2>3, <2>5
    <3> HIDE DEF n, h
    <3>3. New(l, c, h, it.lastAcc, it.lastID, it.found)
      BY <1>2, <3>2
    <3>4. (h = l => Span(n) = 2 * (c - l) + 1) /\ (h # l => Span(n) = 2 * (c - l))
      BY <1>1, <3>3 DEF Span
    <3>5. Span(n) \in 0..(Span(it) - 1)
      <4>1. l \in Nat /\ c \in Nat /\ r \in Nat /\ l <= c /\ c < r
        BY <1>1, <3>1
      <4>2. Span(n) \in Int /\ Span(n) <= 2 * (c - l) + 1 /\ Span(n) >= 2 * (c - l)
        BY <3>4, <4>1
      <4>3. Span(it) \in Int /\ Span(it) >= 2 * (r - l)
        BY <1>4, <4>1
      <4> HIDE DEF l, r, c
      <4> QED BY <4>1, <4>2, <4>3
    <3> HIDE DEF New
    <3>6. Sane(n, A)
      <4>1. it.found \in BOOLEAN
        BY <1>1
      <4> QED BY <1>1, <1>3, <1>5, <3>1, <3>3, <4>1
    <3> QED BY <3>5, <3>6 DEF n
  <2> QED BY <2>4, <2>5
<1>8. CASE id # << >> /\ l < r
  <2>2. ~((id = << >> \/ l >= r) /\ r <= l)
    BY <1>1, <1>8
  <2> DEFINE h == IF c = l THEN Ceil2(c + r) ELSE Floor2(c + r)
  <2>3. n = [it EXCEPT !.lastID = id, !.lastAcc = c, !.left = c, !.cur = h]
    BY <1>8, <2>2 DEF LaterRound
  <2>4. h \in c..r /\ (h = r => r <= c + 1) /\ (c = l => h > c)
    <3>1. c + r \in Nat
      BY <1>1
    <3>2. /\ Floor2(c + r) \in Nat /\ 2 * Floor2(c + r) <= c + r /\ c + r <= 2 * Floor2(c + r) + 1
          /\ Ceil2(c + r) \in Nat /\ c + r <= 2 * Ceil2(c + r) /\ 2 * Ceil2(c + r) <= c + r + 1
      BY <3>1, Halves
    <3>4. CASE c = l
      BY <1>1, <1>8, <3>2, <3>4
    <3>5. CASE c # l
      BY <1>1, <1>8, <3>2, <3>5, SMTT(40)
    <3> QED BY <3>4, <3>5
  <2> HIDE DEF n, h
  <2>5. New(c, r, h, c, id, it.found)
    BY <1>2, <2>3
  <2>6. (h = c => Span(n) = 2 * (r - c) + 1) /\ (h # c => Span(n) = 2 * (r - c))
    BY <1>1, <2>5 DEF Span
  <2>7. Span(n) \in 0..(Span(it) - 1)
    BY <1>1, <1>4, <2>4, <2>6, SMTT(40)
  <2> HIDE DEF New
  <2>8. Sane(n, A)
    <3>1. it.found \in BOOLEAN
      BY <1>1
    <3> QED BY <1>1, <1>3, <1>5, <1>8, <2>4, <2>5, <3>1
  <2> QED BY <2>7, <2>8 DEF n
<1>9. ((id = << >> \/ l >= r) /\ r <= l) \/ (id = << >> /\ l < r) \/ (id # << >> /\ l < r)
  BY <1>1
<1> QED BY <1>6, <1>7, <1>8, <1>9

\* search.
LEMMA SearchKeeps ==
    ASSUME IInv, NEW w \in Keywords, search(w)
    PROVE  IInv'
<1>1. /\ phase \in {"new", "run"} /\ phase' = "run" /\ SrchCnt[w] < MaxSearches
      /\ scan' = [keyword |-> w, first |-> TRUE, items |-> [i \in 1..UpdtCnt[w] |-> NewItem(w)]]
      /\ UNCHANGED <<UpdtCnt, SrchCnt, Access, LastIND, latestUpdatedCounter>>
      /\ UNCHANGED <<updt, srch>>
  BY DEF search, Ready, counters
<1>2. Running'
  BY <1>1, OrderKept
<1>3. Counters' /\ Phases' /\ Stored' /\ Unused' /\ Untouched' /\ Loading'
  BY <1>1 DEF IInv, Counters, Phases, Stored, Unused, Untouched, Loading
<1>4. Scanning'
  <2>1. NewItem(w)' = NewItem(w)
    BY <1>1 DEF NewItem
  <2>2. /\ scan'.keyword = w /\ scan'.first = TRUE
        /\ scan'.items = [i \in 1..UpdtCnt[w] |-> NewItem(w)]
        /\ scan' = [keyword |-> scan'.keyword, first |-> scan'.first, items |-> scan'.items]
    BY <1>1
  <2>3. DOMAIN scan'.items = 1..UpdtCnt'[w] /\ \A i \in 1..UpdtCnt'[w] : scan'.items[i] = NewItem(w)'
    BY <1>1, <2>1, <2>2
  <2> QED BY <1>1, <2>2, <2>3 DEF Scanning
<1> QED BY <1>2, <1>3, <1>4 DEF IInv

\* The boxes of a slot under the current search number.
Row(w, i) == Rows(Contents(srch), w)[i][SrchCnt[w]]

\* What the invariant says of slot i while a search is in progress; in a damaged ORAM
\* the boxes of the slot may be any.
SlotFacts(w, i) ==
    /\ i \in 1..N /\ SAV(updt, w)[i] \in 1..Access[w] /\ SV(updt, w)[i] \in Docs
    /\ ~srch.damaged =>
          /\ Readable(SAV(updt, w)[i], Row(w, i))
          /\ Row(w, i)[SAV(updt, w)[i]] = Doc(SV(updt, w)[i])
          /\ \A k \in Accesses : k > SAV(updt, w)[i] => Row(w, i)[k] = << >>
ItemFacts(w, i) ==
    /\ scan.first => scan.items[i] = NewItem(w)
    /\ ~scan.first =>
          /\ Sane(scan.items[i], Access[w])
          /\ ~srch.damaged =>
                ItemOK(scan.items[i], Access[w], SV(updt, w)[i], SAV(updt, w)[i], Row(w, i))

\* What the invariant says while a search is in progress.
LEMMA ScanFacts ==
    ASSUME IInv, Searching
    PROVE  LET w == scan.keyword
           IN  /\ w \in Keywords /\ phase = "run" /\ SrchCnt[w] \in 0..MaxSearches /\ SrchCnt[w] < MaxSearches
               /\ UpdtCnt[w] \in 0..N /\ Access[w] \in 0..MaxAccess
               /\ DOMAIN scan.items = 1..UpdtCnt[w] /\ scan.first \in BOOLEAN
               /\ scan = [keyword |-> w, first |-> scan.first, items |-> scan.items]
               /\ \E R : InOrder(w, updt, R)
               /\ \A i \in 1..UpdtCnt[w] : SlotFacts(w, i) /\ ItemFacts(w, i)
<1> USE Constants
<1> DEFINE w == scan.keyword
           c == UpdtCnt[w]
<1>1. /\ w \in Keywords /\ phase = "run" /\ SrchCnt[w] < MaxSearches
      /\ DOMAIN scan.items = 1..c /\ scan.first \in BOOLEAN
      /\ scan = [keyword |-> w, first |-> scan.first, items |-> scan.items]
      /\ \A i \in 1..c : ItemFacts(w, i)
  BY DEF IInv, Scanning, Searching, Row, ItemFacts
<1> HIDE DEF w
<1>2. PICK R : InOrder(w, updt, R)
  BY <1>1 DEF IInv, Running
<1>21. GoodOf(w, updt, R) /\ (~srch.damaged => R = Rows(Contents(srch), w))
  BY <1>2 DEF InOrder
<1>3. c \in 0..N /\ SrchCnt[w] \in 0..MaxSearches /\ Access[w] \in 0..MaxAccess
  BY <1>21, GoodIn
<1>4. ASSUME NEW i \in 1..c PROVE SlotFacts(w, i)
  <2>1. i \in 1..N /\ i <= c
    BY <1>3
  <2>2. SV(updt, w)[i] \in Docs /\ SAV(updt, w)[i] > 0 /\ R[i][SrchCnt[w]][SAV(updt, w)[i]] = Doc(SV(updt, w)[i])
    BY <1>21, GoodFacts DEF GoodOf
  <2>3. SAV(updt, w)[i] \in 0..Access[w]
    BY <1>21, <2>1, GoodIn
  <2>4. Readable(SAV(updt, w)[i], R[i][SrchCnt[w]])
    BY <1>21, <2>1, GoodFacts DEF GoodOf
  <2>5. \A k \in Accesses : k > SAV(updt, w)[i] => R[i][SrchCnt[w]][k] = << >>
    BY <1>21, <2>1, GoodFacts DEF GoodOf
  <2>6. SAV(updt, w)[i] \in 1..Access[w]
    BY <1>3, <2>2, <2>3
  <2>7. ~srch.damaged => Row(w, i) = R[i][SrchCnt[w]]
    BY <1>21 DEF Row
  <2> QED BY <2>1, <2>2, <2>4, <2>5, <2>6, <2>7 DEF SlotFacts
<1> QED BY <1>1, <1>2, <1>3, <1>4 DEF w

\* What a round makes of slot i: it reads a box, or none.
RoundStep(w, i) ==
    \E v : /\ v = << >> \/ Value(v, Access[w])
           /\ ~srch.damaged => v = Row(w, i)[scan.items[i].cur]
           /\ scan'.items[i] = IF scan.first THEN FirstRound(scan.items[i], v) ELSE LaterRound(scan.items[i], v)

\* What a round reads.
LEMMA RoundReads ==
    ASSUME IInv, searchRound
    PROVE  LET w == scan.keyword
               it(i) == scan.items[i]
           IN  /\ Fine(srch', Access) /\ srch'.damaged = srch.damaged
               /\ ~srch.damaged => Contents(srch') = Contents(srch)
               /\ Unfound \subseteq 1..UpdtCnt[w]
               /\ \A i \in 1..UpdtCnt[w] : it(i).cur \in 1..Access[w]
               /\ scan' = [keyword |-> w, first |-> FALSE, items |-> scan'.items]
               /\ DOMAIN scan'.items = 1..UpdtCnt[w]
               /\ \A i \in 1..UpdtCnt[w] :
                     /\ i \notin Unfound => scan'.items[i] = it(i)
                     /\ i \in Unfound => RoundStep(w, i)
<1> USE Constants
<1> DEFINE w == scan.keyword
           s == SrchCnt[w]
           c == UpdtCnt[w]
           cur(i) == scan.items[i].cur
           bid(i) == createBid(w, i, s, cur(i))
           slotOf(b) == CHOOSE i \in Unfound : bid(i) = b
           bids == {bid(i) : i \in Unfound}
           pos == [b \in bids |-> generatePosition(w, slotOf(b), s, cur(slotOf(b)))]
           read == batchRead(srch, pos)
           step(i) == IF scan.first THEN FirstRound(scan.items[i], read[1][bid(i)])
                                    ELSE LaterRound(scan.items[i], read[1][bid(i)])
<1>1. /\ Searching /\ srch' = read[2]
      /\ scan' = [scan EXCEPT !.first = FALSE,
                     !.items = [i \in DOMAIN scan.items |-> IF i \in Unfound THEN step(i) ELSE scan.items[i]]]
  BY DEF searchRound
<1>2. /\ w \in Keywords /\ s \in 0..MaxSearches /\ c \in 0..N /\ Access[w] \in 0..MaxAccess
      /\ DOMAIN scan.items = 1..c /\ scan.first \in BOOLEAN
      /\ scan = [keyword |-> w, first |-> scan.first, items |-> scan.items]
  BY <1>1, ScanFacts
<1>3. ASSUME NEW i \in 1..c PROVE i \in 1..N /\ cur(i) \in 1..Access[w] /\ cur(i) \in 1..MaxAccess /\ cur(i) \in Accesses
  <2>1. SAV(updt, w)[i] \in 1..Access[w] /\ i \in 1..N
    BY <1>1, ScanFacts DEF SlotFacts
  <2>2. CASE scan.first
    <3>1. scan.items[i] = NewItem(w)
      BY <1>1, <2>2, ScanFacts DEF ItemFacts
    <3>2. cur(i) = 1
      BY <3>1 DEF NewItem
    <3> QED BY <1>2, <2>1, <3>2 DEF Accesses
  <2>3. CASE ~scan.first
    <3>1. Sane(scan.items[i], Access[w])
      BY <1>1, <2>3, ScanFacts DEF ItemFacts
    <3>2. cur(i) \in 1..Access[w]
      BY <1>2, <2>1, <3>1, SMTT(40) DEF Sane
    <3> QED BY <1>2, <2>1, <3>2 DEF Accesses
  <2> QED BY <2>2, <2>3
<1>4. \A i \in Unfound : i \in 1..c
  BY <1>2 DEF Unfound
<1>5. Fine(srch, Access) /\ Sound(srch) /\ (~srch.damaged => Agree(srch) /\ DOMAIN Contents(srch) = Kept(srch))
  BY FinePlaced DEF IInv, Stored, Fine
<1> HIDE DEF w, s, c, cur
<1>6. ASSUME NEW i \in Unfound, NEW j \in Unfound, bid(i) = bid(j) PROVE i = j
  <2>1. i \in 1..N /\ cur(i) \in Accesses /\ j \in 1..N /\ cur(j) \in Accesses
    BY <1>3, <1>4
  <2> QED BY <1>2, <1>6, <2>1, BoxApart
<1>7. ASSUME NEW b \in bids PROVE slotOf(b) \in Unfound /\ bid(slotOf(b)) = b
  <2>1. \E i \in Unfound : bid(i) = b
    OBVIOUS
  <2> HIDE DEF bid
  <2> QED BY <2>1, Zenon
<1>8. ASSUME NEW i \in Unfound
      PROVE  /\ bid(i) \in Nat /\ generatePosition(w, i, s, cur(i)) \in Leaves
             /\ AtLeaf(srch, bid(i), generatePosition(w, i, s, cur(i)))
             /\ \A b : HasBox(srch, bid(i), b) => Value(b.value, Access[w])
  <2>1. i \in 1..N /\ cur(i) \in 1..MaxAccess /\ cur(i) \in Accesses
    BY <1>3, <1>4
  <2>2. generatePosition(w, i, s, cur(i)) \in Leaves
    BY <1>2, <2>1, PosLeaf
  <2>3. w \in Digits /\ i \in Nat /\ s \in Digits /\ cur(i) \in Digits
    BY <1>2, <2>1, InRange
  <2>4. /\ bid(i) \in Nat /\ PosOf(bid(i)) = generatePosition(w, i, s, cur(i))
        /\ Parts(bid(i)) = <<w, i, s, cur(i)>>
    BY <2>3, BidFacts
  <2> HIDE DEF bid
  <2>5. bid(i) % Radix = w
    BY <2>4 DEF Parts
  <2> QED BY <1>5, <2>2, <2>4, <2>5 DEF Fine, Lawful, AtLeaf
<1> HIDE DEF slotOf
<1>9. /\ DOMAIN pos = bids /\ \A i \in Unfound : bid(i) \in bids
      /\ \A b \in bids : pos[b] = generatePosition(w, slotOf(b), s, cur(slotOf(b)))
  OBVIOUS
<1>10. \A b \in bids : b \in Nat /\ pos[b] \in Leaves /\ AtLeaf(srch, b, pos[b])
  <2> SUFFICES ASSUME NEW b \in bids
               PROVE  b \in Nat /\ pos[b] \in Leaves /\ AtLeaf(srch, b, pos[b])
    OBVIOUS
  <2>1. slotOf(b) \in Unfound /\ bid(slotOf(b)) = b
    BY <1>7
  <2>2. pos[b] = generatePosition(w, slotOf(b), s, cur(slotOf(b)))
    BY <1>9
  <2> HIDE DEF bid, pos
  <2> QED BY <1>8, <2>1, <2>2
<1> HIDE DEF bids, pos
<1>11. /\ Updated(srch, NoBoxes, read[2]) /\ read[2].damaged = srch.damaged
       /\ \A k \in bids : read[1][k] = << >> \/ \E b : HasBox(srch, k, b) /\ read[1][k] = b.value
       /\ ~srch.damaged => Contents(read[2]) = Contents(srch)
       /\ ~srch.damaged => \A k \in bids :
             read[1][k] = IF k \in Kept(srch) THEN Contents(srch)[k].value ELSE << >>
  <2>1. DOMAIN pos \subseteq Nat /\ \A k \in DOMAIN pos : pos[k] \in Leaves
    BY <1>9, <1>10
  <2>3. read = batchRead(srch, pos)
    OBVIOUS
  <2> HIDE DEF read
  <2>4. /\ Updated(srch, NoBoxes, read[2]) /\ read[2].damaged = srch.damaged
        /\ \A k \in DOMAIN pos : read[1][k] = << >> \/ \E b : HasBox(srch, k, b) /\ read[1][k] = b.value
        /\ Agree(srch) => Contents(read[2]) = Contents(srch)
        /\ Agree(srch) => \A k \in DOMAIN pos : AtLeaf(srch, k, pos[k]) =>
              read[1][k] = IF k \in Kept(srch) THEN Contents(srch)[k].value ELSE << >>
    BY <1>5, <2>1, <2>3, BatchReadFacts
  <2> QED BY <1>5, <1>9, <1>10, <2>4
<1> HIDE DEF read
<1>111. Fine(read[2], Access)
  <2>1. LawfulNew(NoBoxes, Access)
    BY DEF LawfulNew, NoBoxes
  <2> QED BY <1>5, <1>11, <2>1, FineUpdate
<1>12. ASSUME NEW i \in Unfound
       PROVE  /\ read[1][bid(i)] = << >> \/ Value(read[1][bid(i)], Access[w])
              /\ ~srch.damaged => read[1][bid(i)] = Row(w, i)[cur(i)]
  <2>1. i \in 1..N /\ cur(i) \in Accesses
    BY <1>3, <1>4
  <2>2. Row(w, i)[cur(i)] = Look(Contents(srch), w, i, s, cur(i))
    BY <1>2, <2>1, RowsAt DEF Row, s
  <2>3. bid(i) \in bids
    BY <1>9
  <2>4. ~srch.damaged => read[1][bid(i)] = IF bid(i) \in Kept(srch) THEN Contents(srch)[bid(i)].value ELSE << >>
    BY <1>11, <2>3
  <2>5. read[1][bid(i)] = << >> \/ Value(read[1][bid(i)], Access[w])
    BY <1>8, <1>11, <2>3
  <2> QED BY <1>5, <2>2, <2>4, <2>5 DEF Look
<1> DEFINE items2 == [i \in 1..c |-> IF i \in Unfound THEN step(i) ELSE scan.items[i]]
<1>13. scan' = [keyword |-> w, first |-> FALSE, items |-> items2]
  <2>1. scan' = [scan EXCEPT !.first = FALSE, !.items = items2]
    BY <1>1, <1>2, Zenon
  <2> HIDE DEF items2
  <2>2. PICK f, t : scan = [keyword |-> w, first |-> f, items |-> t]
    BY <1>2, Zenon
  <2> QED BY <2>1, <2>2
<1>14. scan'.items = items2
  BY <1>13
<1> HIDE DEF items2
<1>15. scan' = [keyword |-> w, first |-> FALSE, items |-> scan'.items]
  BY <1>13, <1>14
<1>16. DOMAIN scan'.items = 1..c /\ \A i \in 1..c :
          /\ i \notin Unfound => scan'.items[i] = scan.items[i]
          /\ i \in Unfound => scan'.items[i] = step(i)
  BY <1>14 DEF items2
<1>17. ASSUME NEW i \in 1..c, i \in Unfound PROVE RoundStep(w, i)
  <2>1. PICK v : v = read[1][bid(i)]
    OBVIOUS
  <2>2. scan'.items[i] = IF scan.first THEN FirstRound(scan.items[i], v) ELSE LaterRound(scan.items[i], v)
    BY <1>16, <1>17, <2>1
  <2>3. (v = << >> \/ Value(v, Access[w])) /\ (~srch.damaged => v = Row(w, i)[scan.items[i].cur])
    BY <1>12, <1>17, <2>1 DEF cur
  <2> QED BY <2>2, <2>3 DEF RoundStep
<1>18. \A i \in 1..c : (i \notin Unfound => scan'.items[i] = scan.items[i]) /\ (i \in Unfound => RoundStep(w, i))
  BY <1>16, <1>17
<1>19. /\ Fine(srch', Access) /\ srch'.damaged = srch.damaged
       /\ ~srch.damaged => Contents(srch') = Contents(srch)
  BY <1>1, <1>11, <1>111
<1>20. \A i \in 1..c : cur(i) \in 1..Access[w]
  BY <1>3
<1> QED BY <1>4, <1>15, <1>16, <1>18, <1>19, <1>20 DEF w, c, cur

\* A round leaves every item in order and makes progress on those not found.
LEMMA RoundItems ==
    ASSUME IInv, searchRound, NEW i \in 1..UpdtCnt[scan.keyword]
    PROVE  LET w == scan.keyword
           IN  /\ Sane(scan'.items[i], Access[w])
               /\ ~srch.damaged =>
                     ItemOK(scan'.items[i], Access[w], SV(updt, w)[i], SAV(updt, w)[i], Row(w, i))
               /\ i \in Unfound => \/ scan.first \/ scan'.items[i].found
                                   \/ Span(scan'.items[i]) \in 0..(Span(scan.items[i]) - 1)
<1> DEFINE w == scan.keyword
           A == Access[w]
           d == SV(updt, w)[i]
           a == SAV(updt, w)[i]
           row == Row(w, i)
           it == scan.items[i]
<1>0. Searching
  BY DEF searchRound
<1>1. /\ A \in 0..MaxAccess /\ a \in 1..A /\ d \in Docs
      /\ ~srch.damaged => /\ Readable(a, row) /\ row[a] = Doc(d)
                          /\ \A k \in Accesses : k > a => row[k] = << >>
      /\ scan.first \in BOOLEAN /\ DOMAIN scan.items = 1..UpdtCnt[w]
  BY <1>0, ScanFacts DEF SlotFacts
<1>2. scan.first => it = NewItem(w)
  BY <1>0, ScanFacts DEF ItemFacts
<1>3. ~scan.first => Sane(it, A) /\ (~srch.damaged => ItemOK(it, A, d, a, row))
  BY <1>0, ScanFacts DEF ItemFacts
<1>4. /\ i \notin Unfound => scan'.items[i] = it
      /\ i \in Unfound => RoundStep(w, i)
  BY RoundReads
<1>5. i \in Unfound <=> ~it.found
  BY <1>1 DEF Unfound
<1>51. A \in 1..MaxAccess
  BY <1>1, Constants
<1>52. i \in Unfound =>
         \E v : /\ v = << >> \/ Value(v, A)
                /\ ~srch.damaged => v = row[it.cur]
                /\ scan'.items[i] = IF scan.first THEN FirstRound(it, v) ELSE LaterRound(it, v)
  BY <1>4 DEF RoundStep
<1> HIDE DEF A, d, a, row, it, w
<1>6. CASE scan.first
  <2>1. it = [left |-> 1, right |-> A, cur |-> 1, lastAcc |-> 0, lastID |-> << >>, found |-> FALSE]
    BY <1>2, <1>6 DEF NewItem, A
  <2>2. i \in Unfound /\ it.cur = 1
    BY <1>5, <2>1
  <2>3. PICK v : /\ v = << >> \/ Value(v, A)
                 /\ ~srch.damaged => v = row[1]
                 /\ scan'.items[i] = FirstRound(it, v)
    BY <1>52, <1>6, <2>2
  <2>4. Sane(scan'.items[i], A)
    BY <1>51, <2>1, <2>3, FirstRoundSane
  <2>5. ~srch.damaged => ItemOK(scan'.items[i], A, d, a, row)
    BY <1>1, <2>1, <2>3, FirstRoundOK
  <2> QED BY <1>6, <2>4, <2>5 DEF A, d, a, row, w
<1>7. CASE ~scan.first
  <2>1. Sane(it, A) /\ (~srch.damaged => ItemOK(it, A, d, a, row))
    BY <1>3, <1>7
  <2>2. CASE i \notin Unfound
    <3>1. scan'.items[i] = it
      BY <1>4, <2>2
    <3> QED BY <2>1, <2>2, <3>1 DEF A, d, a, row, w
  <2>3. CASE i \in Unfound
    <3>1. PICK v : /\ v = << >> \/ Value(v, A)
                   /\ ~srch.damaged => v = row[it.cur]
                   /\ scan'.items[i] = LaterRound(it, v)
      BY <1>52, <1>7, <2>3
    <3>2. /\ Sane(LaterRound(it, v), A)
          /\ LaterRound(it, v).found \/ Span(LaterRound(it, v)) \in 0..(Span(it) - 1)
      BY <1>5, <1>51, <2>1, <2>3, <3>1, LaterRoundSane
    <3>3. ~srch.damaged => ItemOK(LaterRound(it, v), A, d, a, row)
      BY <1>1, <1>5, <2>1, <2>3, <3>1, LaterRoundOK
    <3> QED BY <3>1, <3>2, <3>3 DEF A, d, a, row, w, it
  <2> QED BY <2>2, <2>3
<1> QED BY <1>6, <1>7

\* searchRound.
LEMMA RoundKeeps ==
    ASSUME IInv, searchRound
    PROVE  IInv'
<1> DEFINE w == scan.keyword
<1>1. /\ Searching /\ UNCHANGED <<UpdtCnt, SrchCnt, Access, LastIND, latestUpdatedCounter>>
      /\ UNCHANGED <<updt, phase>>
  BY DEF searchRound, counters
<1>2. /\ w \in Keywords /\ phase = "run" /\ SrchCnt[w] < MaxSearches
  BY <1>1, ScanFacts
<1>3. /\ Fine(srch', Access) /\ srch'.damaged = srch.damaged
      /\ ~srch.damaged => Contents(srch') = Contents(srch)
      /\ scan' = [keyword |-> w, first |-> FALSE, items |-> scan'.items]
      /\ DOMAIN scan'.items = 1..UpdtCnt[w]
  BY RoundReads
<1>4. \A i \in 1..UpdtCnt[w] :
         /\ Sane(scan'.items[i], Access[w])
         /\ ~srch.damaged => ItemOK(scan'.items[i], Access[w], SV(updt, w)[i], SAV(updt, w)[i], Row(w, i))
  BY RoundItems
<1>5. Running'
  BY <1>1, <1>2, <1>3, OrderKept
<1>6. Counters' /\ Phases' /\ Stored' /\ Unused' /\ Untouched' /\ Loading'
  BY <1>1, <1>2, <1>3 DEF IInv, Counters, Phases, Stored, Unused, Untouched, Loading
<1>7. Scanning'
  <2>1. scan'.keyword = w /\ scan'.first = FALSE
    BY <1>3
  <2> HIDE DEF w
  <2>3. \A i \in 1..UpdtCnt'[w] :
           /\ Sane(scan'.items[i], Access'[w])
           /\ ~srch'.damaged => ItemOK(scan'.items[i], Access'[w], SV(updt', w)[i], SAV(updt', w)[i],
                                       Rows(Contents(srch'), w)[i][SrchCnt'[w]])
    BY <1>1, <1>3, <1>4 DEF Row
  <2> QED BY <1>1, <1>2, <1>3, <2>1, <2>3 DEF Scanning
<1> QED BY <1>5, <1>6, <1>7 DEF IInv

\* Every slot is found at the end of a search; in a damaged ORAM it may be anything
\* that the boxes hold.
LEMMA EndItems ==
    ASSUME IInv, Searching, Unfound = {}, NEW i \in 1..UpdtCnt[scan.keyword]
    PROVE  LET w == scan.keyword
               it == scan.items[i]
           IN  /\ it.lastID # << >> => it.lastAcc \in 1..Access[w] /\ Value(it.lastID, Access[w])
               /\ ~srch.damaged => it.lastAcc = SAV(updt, w)[i] /\ it.lastID = Doc(SV(updt, w)[i])
<1> DEFINE w == scan.keyword
<1>1. scan.items[i].found
  BY ScanFacts DEF Unfound
<1>2. ~scan.first
  <2>1. NewItem(w).found = FALSE
    BY DEF NewItem
  <2> QED BY <1>1, <2>1, ScanFacts DEF ItemFacts
<1>3. /\ Sane(scan.items[i], Access[w])
      /\ ~srch.damaged => ItemOK(scan.items[i], Access[w], SV(updt, w)[i], SAV(updt, w)[i], Row(w, i))
  BY <1>2, ScanFacts DEF ItemFacts
<1> QED BY <1>1, <1>3 DEF ItemOK, Sane

\* The boxes that a search writes: what it found of every slot, and a start.
LEMMA RewrittenFacts ==
    ASSUME IInv, Searching
    PROVE  LET w == scan.keyword
               boxes == Rewritten(w)
               acc(i) == scan.items[i].lastAcc
           IN  /\ IsFiniteSet(DOMAIN boxes)
               /\ \A i \in 1..UpdtCnt[w] : <<i, acc(i)>> \in DOMAIN boxes /\ <<i, 1>> \in DOMAIN boxes
               /\ \A k \in DOMAIN boxes :
                     /\ k = <<k[1], k[2]>> /\ k[1] \in 1..UpdtCnt[w] /\ (k[2] = acc(k[1]) \/ k[2] = 1)
                     /\ boxes[k] = IF k[2] = acc(k[1]) THEN scan.items[k[1]].lastID ELSE At(acc(k[1]))
<1> DEFINE w == scan.keyword
           c == UpdtCnt[w]
           T == DOMAIN scan.items
           acc(i) == scan.items[i].lastAcc
           docs == {<<i, acc(i)>> : i \in T}
           all == {<<i, 1>> : i \in T}
           starts == all \ docs
           boxes == Rewritten(w)
<1>1. boxes = [k \in docs \cup starts |->
                 IF k \in docs THEN scan.items[k[1]].lastID ELSE At(acc(k[1]))]
  BY DEF Rewritten
<1>2. T = 1..c /\ c \in 0..N
  BY ScanFacts
<1>4. IsFiniteSet(T)
  BY <1>2, FS_Interval
<1> HIDE DEF w, c, T, acc
<1>5. IsFiniteSet(docs \cup starts)
  <2> DEFINE f == [i \in T |-> <<i, acc(i)>>]
             g == [i \in T |-> <<i, 1>>]
  <2>1. f \in Surjection(T, docs)
    BY DEF Surjection
  <2>2. g \in Surjection(T, all)
    BY DEF Surjection
  <2> HIDE DEF f, g, docs, all
  <2>3. IsFiniteSet(docs) /\ IsFiniteSet(all)
    BY <1>4, <2>1, <2>2, FS_Surjection
  <2>4. IsFiniteSet(starts)
    BY <2>3, FS_Subset
  <2> HIDE DEF starts
  <2> QED BY <2>3, <2>4, FS_Union
<1>6. DOMAIN boxes = docs \cup starts
  BY <1>1
<1>7. docs \cup starts = docs \cup all
  OBVIOUS
<1>8. \A i \in T : <<i, acc(i)>> \in docs
  OBVIOUS
<1>9. \A i \in T : <<i, acc(i)>> \in DOMAIN boxes /\ <<i, 1>> \in DOMAIN boxes
  <2>1. \A i \in T : <<i, 1>> \in all
    OBVIOUS
  <2> HIDE DEF docs, all, starts, boxes
  <2> QED BY <1>6, <1>7, <1>8, <2>1
<1>10. ASSUME NEW k \in DOMAIN boxes
       PROVE  /\ k = <<k[1], k[2]>> /\ k[1] \in T /\ (k[2] = acc(k[1]) \/ k[2] = 1)
              /\ boxes[k] = IF k[2] = acc(k[1]) THEN scan.items[k[1]].lastID ELSE At(acc(k[1]))
  <2>1. k \in docs \/ k \in all
    BY <1>6, <1>7
  <2>2. k = <<k[1], k[2]>> /\ k[1] \in T /\ (k[2] = acc(k[1]) \/ k[2] = 1)
    <3>1. CASE k \in docs
      <4>1. PICK i \in T : k = <<i, acc(i)>>
        BY <3>1
      <4>2. k[1] = i /\ k[2] = acc(i)
        BY <4>1
      <4> QED BY <4>1, <4>2
    <3>2. CASE k \in all
      <4>1. PICK i \in T : k = <<i, 1>>
        BY <3>2
      <4> QED BY <4>1
    <3> QED BY <2>1, <3>1, <3>2
  <2>3. boxes[k] = IF k \in docs THEN scan.items[k[1]].lastID ELSE At(acc(k[1]))
    <3> HIDE DEF docs, starts
    <3>1. k \in docs \cup starts
      BY <1>6
    <3> HIDE DEF boxes
    <3> QED BY <1>1, <3>1
  <2>4. k \in docs <=> k[2] = acc(k[1])
    <3>1. ASSUME k \in docs PROVE k[2] = acc(k[1])
      <4>1. PICK i \in T : k = <<i, acc(i)>>
        BY <3>1
      <4> QED BY <4>1
    <3>2. ASSUME k[2] = acc(k[1]) PROVE k \in docs
      <4>1. k = <<k[1], acc(k[1])>>
        BY <2>2, <3>2
      <4> HIDE DEF docs
      <4> QED BY <1>8, <2>2, <4>1
    <3> QED BY <3>1, <3>2
  <2> HIDE DEF docs, boxes
  <2> QED BY <2>2, <2>3, <2>4
<1>11. IsFiniteSet(DOMAIN boxes)
  BY <1>5, <1>6
<1> HIDE DEF boxes
<1> QED BY <1>2, <1>9, <1>10, <1>11 DEF w, c, acc, boxes

\* What the search found: the documents of the slots; in a damaged ORAM, if no box is
\* missing, some documents.
LEMMA EndAnswer ==
    ASSUME IInv, Searching, Unfound = {}
    PROVE  LET w == scan.keyword
               ids == {scan.items[i].lastID : i \in DOMAIN scan.items}
               found == {id[2] : id \in ids}
           IN  /\ (\A id \in ids : id # << >> /\ id[1] = "doc") => found \subseteq Docs
               /\ ~srch.damaged =>
                     /\ \A id \in ids : id # << >> /\ id[1] = "doc"
                     /\ \A d : d \in found <=> \E i \in 1..UpdtCnt[w] : d = SV(updt, w)[i]
<1> DEFINE w == scan.keyword
           c == UpdtCnt[w]
           S == SV(updt, w)
           ids == {scan.items[i].lastID : i \in DOMAIN scan.items}
<1>1. DOMAIN scan.items = 1..c /\ \A i \in 1..c : S[i] \in Docs
  BY ScanFacts DEF SlotFacts
<1>2. \A i \in 1..c :
         /\ scan.items[i].lastID # << >> => Value(scan.items[i].lastID, Access[w])
         /\ ~srch.damaged => scan.items[i].lastID = Doc(S[i])
  BY EndItems
<1> HIDE DEF w, c, S
<1>21. (\A id \in ids : id # << >> /\ id[1] = "doc") => {id[2] : id \in ids} \subseteq Docs
  <2> SUFFICES ASSUME NEW id \in ids, id # << >>, id[1] = "doc" PROVE id[2] \in Docs
    OBVIOUS
  <2>1. Value(id, Access[w])
    BY <1>1, <1>2
  <2>2. IsDoc(id)
    BY <2>1, Values DEF Value
  <2> QED BY <2>2, Values
<1>3. ~srch.damaged => \A id : id \in ids <=> \E i \in 1..c : id = Doc(S[i])
  BY <1>1, <1>2
<1> HIDE DEF ids
<1>4. \A i \in 1..c : Doc(S[i]) # << >> /\ Doc(S[i])[1] = "doc" /\ Doc(S[i])[2] = S[i]
  BY <1>1, Values
<1>5. ~srch.damaged => \A id \in ids : id # << >> /\ id[1] = "doc"
  BY <1>3, <1>4
<1>6. ~srch.damaged => \A d : d \in {id[2] : id \in ids} <=> \E i \in 1..c : d = S[i]
  BY <1>3, <1>4
<1> QED BY <1>21, <1>5, <1>6 DEF w, c, S, ids

\* searchEnd.
LEMMA EndKeeps ==
    ASSUME IInv, searchEnd
    PROVE  IInv' /\ srch'.damaged = srch.damaged
<1> USE Constants
<1> DEFINE w == scan.keyword
           c == UpdtCnt[w]
           s == SrchCnt[w] + 1
           S == SV(updt, w)
           SA == SAV(updt, w)
           boxes == Rewritten(w)
           K == DOMAIN boxes
           bid(k) == createBid(w, k[1], s, k[2])
           keyOf(b) == CHOOSE k \in K : bid(k) = b
           bids == {bid(k) : k \in K}
           values == [b \in bids |-> boxes[keyOf(b)]]
           pos == [b \in bids |-> generatePosition(w, keyOf(b)[1], s, keyOf(b)[2])]
           o == batchWrite(srch, values, pos)
           ids == {scan.items[i].lastID : i \in DOMAIN scan.items}
           acc(i) == scan.items[i].lastAcc
           last(i) == scan.items[i].lastID
<1>1. /\ Searching /\ Unfound = {} /\ scan' = Idle
      /\ IF o.threw \/ \E id \in ids : id = << >> \/ id[1] # "doc"
         THEN phase' = "dead" /\ UNCHANGED <<counters, updt, srch>>
         ELSE /\ SrchCnt' = [SrchCnt EXCEPT ![w] = s]
              /\ latestUpdatedCounter' = [latestUpdatedCounter EXCEPT ![w] = c]
              /\ srch' = o
              /\ UNCHANGED <<UpdtCnt, Access, LastIND, updt, phase>>
  BY DEF searchEnd
<1>2. /\ w \in Keywords /\ phase = "run" /\ SrchCnt[w] \in 0..MaxSearches /\ SrchCnt[w] < MaxSearches
      /\ c \in 0..N /\ Access[w] \in 0..MaxAccess
      /\ DOMAIN scan.items = 1..c /\ \A i \in 1..c : i \in 1..N
  BY <1>1, ScanFacts DEF SlotFacts
<1>21. PICK R : InOrder(w, updt, R)
  BY <1>1, ScanFacts
<1>22. \A i \in 1..c :
          /\ last(i) # << >> => acc(i) \in 1..Access[w] /\ Value(last(i), Access[w])
          /\ ~srch.damaged => acc(i) = SA[i] /\ last(i) = Doc(S[i])
  BY <1>1, EndItems
<1>3. Fine(srch, Access) /\ Counters
  BY DEF IInv, Stored
<1>4. CASE phase' = "dead" /\ UNCHANGED <<counters, updt, srch>>
  <2>1. phase' = "dead" /\ UNCHANGED <<UpdtCnt, SrchCnt, Access, LastIND, latestUpdatedCounter>> /\ srch' = srch
    BY <1>4 DEF counters
  <2> QED BY <1>1, <2>1 DEF IInv, Counters, Phases, Stored, Unused, Untouched, Running, Loading, Scanning
<1>5. CASE ~o.threw /\ srch' = o /\ (\A id \in ids : id # << >> /\ id[1] = "doc")
           /\ SrchCnt' = [SrchCnt EXCEPT ![w] = s]
           /\ latestUpdatedCounter' = [latestUpdatedCounter EXCEPT ![w] = c]
           /\ UNCHANGED <<UpdtCnt, Access, LastIND, updt, phase>>
  <2>0. /\ IsFiniteSet(K)
        /\ \A i \in 1..c : <<i, acc(i)>> \in K /\ <<i, 1>> \in K
        /\ \A k \in K :
              /\ k = <<k[1], k[2]>> /\ k[1] \in 1..c /\ (k[2] = acc(k[1]) \/ k[2] = 1)
              /\ boxes[k] = IF k[2] = acc(k[1]) THEN last(k[1]) ELSE At(acc(k[1]))
    BY <1>1, RewrittenFacts
  <2>01. \A i \in 1..c : acc(i) \in 1..Access[w] /\ Value(last(i), Access[w])
    BY <1>2, <1>22, <1>5
  <2> HIDE DEF boxes, acc, last
  <2>1. ASSUME NEW k \in K
        PROVE  k[1] \in 1..N /\ k[2] \in 1..MaxAccess /\ k[2] \in Accesses /\ s \in 0..MaxSearches
    <3>1. k[1] \in 1..N /\ acc(k[1]) \in 1..Access[w] /\ (k[2] = acc(k[1]) \/ k[2] = 1)
      BY <1>2, <2>0, <2>01
    <3>2. k[2] \in 1..MaxAccess
      BY <1>2, <3>1
    <3>3. k[2] \in Accesses
      BY <3>2, InRange
    <3>4. s \in 0..MaxSearches
      BY <1>2
    <3> QED BY <3>1, <3>2, <3>3, <3>4
  <2>2. ASSUME NEW k \in K, NEW l \in K, bid(k) = bid(l) PROVE k = l
    <3> HIDE DEF K, s, w
    <3>1. k[1] = l[1] /\ k[2] = l[2]
      BY <1>2, <2>1, <2>2, BoxApart
    <3>2. k = <<k[1], k[2]>> /\ l = <<l[1], l[2]>>
      BY <2>0
    <3> QED BY <3>1, <3>2, Zenon
  <2>3. ASSUME NEW b \in bids PROVE keyOf(b) \in K /\ bid(keyOf(b)) = b
    <3>1. \E k \in K : bid(k) = b
      OBVIOUS
    <3> HIDE DEF bid
    <3> QED BY <3>1, Zenon
  <2>4. ASSUME NEW k \in K PROVE bid(k) \in bids /\ keyOf(bid(k)) = k
    <3>1. bid(k) \in bids
      OBVIOUS
    <3>2. keyOf(bid(k)) \in K /\ bid(keyOf(bid(k))) = bid(k)
      BY <2>3, <3>1
    <3> HIDE DEF keyOf, bid
    <3> QED BY <2>2, <3>1, <3>2
  <2>5. ASSUME NEW k \in K
        PROVE  /\ bid(k) \in Nat /\ generatePosition(w, k[1], s, k[2]) \in Leaves
               /\ generatePosition(w, k[1], s, k[2]) = PosOf(bid(k))
               /\ bid(k) % Radix = w
    <3> HIDE DEF K, s, w
    <3>1. w \in Digits /\ k[1] \in Nat /\ s \in Digits /\ k[2] \in Digits
      BY <1>2, <2>1, InRange
    <3>2. PICK j, a : j = k[1] /\ a = k[2]
      OBVIOUS
    <3>3. Parts(createBid(w, j, s, a)) = <<w, j, s, a>>
      BY <3>1, <3>2, BidFacts
    <3>4. createBid(w, j, s, a) % Radix = w
      BY <3>3 DEF Parts
    <3>5. bid(k) % Radix = w
      BY <3>2, <3>4
    <3>6. /\ bid(k) \in Nat /\ generatePosition(w, k[1], s, k[2]) \in Leaves
          /\ generatePosition(w, k[1], s, k[2]) = PosOf(bid(k))
      BY <1>2, <2>1, <3>1, BidFacts, PosLeaf
    <3> QED BY <3>5, <3>6
  <2>6. IsFiniteSet(bids)
    <3> DEFINE f == [k \in K |-> bid(k)]
    <3> HIDE DEF bid, K
    <3>1. f \in Surjection(K, bids)
      BY DEF Surjection
    <3> HIDE DEF f, bids
    <3> QED BY <2>0, <3>1, FS_Surjection
  <2> HIDE DEF keyOf, K, w, s
  <2>7. DOMAIN values = bids /\ DOMAIN pos = bids
    OBVIOUS
  <2>8. \A b \in bids : b \in Nat /\ pos[b] \in Leaves /\ pos[b] = PosOf(b)
    <3> SUFFICES ASSUME NEW b \in bids PROVE b \in Nat /\ pos[b] \in Leaves /\ pos[b] = PosOf(b)
      OBVIOUS
    <3>1. keyOf(b) \in K /\ bid(keyOf(b)) = b
      BY <2>3
    <3>2. pos[b] = generatePosition(w, keyOf(b)[1], s, keyOf(b)[2])
      OBVIOUS
    <3>3. b \in Nat /\ generatePosition(w, keyOf(b)[1], s, keyOf(b)[2]) \in Leaves
          /\ generatePosition(w, keyOf(b)[1], s, keyOf(b)[2]) = PosOf(b)
      BY <2>5, <3>1
    <3> QED BY <3>2, <3>3
  <2>9. \A k \in K : bid(k) \in bids /\ values[bid(k)] = boxes[k]
    BY <2>4
  <2>10. \A b \in bids : keyOf(b) \in K /\ bid(keyOf(b)) = b
    BY <2>3
  <2>101. \A b \in bids : b % Radix \in Keywords /\ Value(values[b], Access[b % Radix])
    <3> SUFFICES ASSUME NEW b \in bids PROVE b % Radix \in Keywords /\ Value(values[b], Access[b % Radix])
      OBVIOUS
    <3>1. keyOf(b) \in K /\ bid(keyOf(b)) = b
      BY <2>3
    <3>2. values[b] = boxes[keyOf(b)]
      OBVIOUS
    <3>3. b % Radix = w
      BY <2>5, <3>1
    <3> HIDE DEF values, bids, bid
    <3>4. PICK z : z = keyOf(b)
      OBVIOUS
    <3>5. acc(z[1]) \in 1..Access[w] /\ Value(last(z[1]), Access[w])
          /\ boxes[z] = (IF z[2] = acc(z[1]) THEN last(z[1]) ELSE At(acc(z[1])))
      BY <2>0, <2>01, <3>1, <3>4
    <3>6. Value(boxes[z], Access[w])
      BY <3>5 DEF Value
    <3> QED BY <1>2, <3>2, <3>3, <3>4, <3>6
  <2> HIDE DEF bids, values, pos, bid
  <2>11. /\ Fine(o, Access) /\ o.damaged = srch.damaged
         /\ ~o.damaged => \A x, j, t, k : Look(Contents(o), x, j, t, k) =
               IF createBid(x, j, t, k) \in bids THEN values[createBid(x, j, t, k)]
               ELSE Look(Contents(srch), x, j, t, k)
    <3>1. DOMAIN pos = DOMAIN values /\ DOMAIN pos \subseteq Nat /\ IsFiniteSet(DOMAIN pos)
      BY <2>6, <2>7, <2>8
    <3>2. \A b \in DOMAIN pos : pos[b] \in Leaves /\ pos[b] = PosOf(b)
      BY <2>7, <2>8
    <3>3. o = batchWrite(srch, values, pos) /\ ~o.threw
      BY <1>5
    <3> HIDE DEF o
    <3>4. WroteAll(srch, Access, values, o)
      <4>1. \A b \in DOMAIN values : b % Radix \in Keywords /\ Value(values[b], Access[b % Radix])
        BY <2>7, <2>101
      <4> QED BY <1>3, <3>1, <3>2, <3>3, <4>1, WriteAll
    <3> QED BY <2>7, <3>4 DEF WroteAll
  <2> HIDE DEF o
  <2>12. ASSUME NEW x \in Keywords, NEW j \in 1..N, NEW t \in 0..MaxSearches, NEW k \in Accesses,
                createBid(x, j, t, k) \in bids
         PROVE  x = w /\ t = s /\ <<j, k>> \in K
    <3>1. PICK z \in K : bid(z) = createBid(x, j, t, k)
      BY <2>10, <2>12
    <3>2. createBid(w, z[1], s, z[2]) = createBid(x, j, t, k)
      BY <3>1 DEF bid
    <3>3. x = w /\ j = z[1] /\ t = s /\ k = z[2]
      BY <1>2, <2>1, <3>2, BoxApart
    <3>4. z = <<z[1], z[2]>>
      BY <2>0
    <3> QED BY <3>1, <3>3, <3>4
  <2>13. ASSUME ~o.damaged, NEW x \in Keywords, x # w
         PROVE  Rows(Contents(o), x) = Rows(Contents(srch), x)
    <3>1. \A j \in 1..N : \A t \in 0..MaxSearches : \A k \in Accesses :
             Look(Contents(o), x, j, t, k) = Look(Contents(srch), x, j, t, k)
      BY <2>11, <2>12, <2>13
    <3> QED BY <3>1 DEF Rows
  <2> HIDE DEF S, SA, c
  <2>131. ~o.damaged => \A i \in 1..c : acc(i) = SA[i] /\ last(i) = Doc(S[i])
    BY <1>22, <2>11
  <2>14. ASSUME ~o.damaged, NEW i \in 1..N, NEW t \in 0..MaxSearches, NEW k \in Accesses
         PROVE  Look(Contents(o), w, i, t, k) =
                   IF t = s /\ i <= c /\ k = SA[i] THEN Doc(S[i])
                   ELSE IF t = s /\ i <= c /\ k = 1 THEN At(SA[i])
                   ELSE Look(Contents(srch), w, i, t, k)
    <3> DEFINE b == createBid(w, i, t, k)
    <3>1. CASE t = s /\ i <= c /\ (k = SA[i] \/ k = 1)
      <4> DEFINE z == <<i, k>>
      <4>1. i \in 1..c
        BY <1>2, <3>1
      <4>2. z \in K /\ z[1] = i /\ z[2] = k
        BY <2>0, <2>131, <2>14, <3>1, <4>1
      <4>3. bid(z) = b
        BY <3>1, <4>2 DEF bid
      <4>4. b \in bids /\ values[b] = boxes[z]
        BY <2>9, <4>2, <4>3
      <4>5. Look(Contents(o), w, i, t, k) = boxes[z]
        BY <2>11, <2>14, <4>4
      <4>6. boxes[z] = IF k = SA[i] THEN Doc(S[i]) ELSE At(SA[i])
        BY <2>0, <2>131, <2>14, <4>1, <4>2
      <4> HIDE DEF z
      <4> QED BY <3>1, <4>5, <4>6
    <3>2. CASE ~(t = s /\ i <= c /\ (k = SA[i] \/ k = 1))
      <4>1. ASSUME b \in bids PROVE FALSE
        <5>1. t = s /\ <<i, k>> \in K
          BY <1>2, <2>12, <4>1
        <5>2. PICK z \in K : z = <<i, k>>
          BY <5>1
        <5>3. z[1] \in 1..c /\ (z[2] = SA[z[1]] \/ z[2] = 1)
          BY <2>0, <2>131, <2>14
        <5>4. z[1] = i /\ z[2] = k
          BY <5>2
        <5> QED BY <1>2, <3>2, <5>1, <5>3, <5>4
      <4>2. Look(Contents(o), w, i, t, k) = Look(Contents(srch), w, i, t, k)
        BY <2>11, <2>14, <4>1
      <4> QED BY <3>2, <4>2
    <3> QED BY <3>1, <3>2
  <2>15. PICK R2 : R2 = [i \in 1..N |-> [t \in 0..MaxSearches |-> [k \in Accesses |->
                            IF t = s /\ i <= c /\ k = SA[i] THEN Doc(S[i])
                            ELSE IF t = s /\ i <= c /\ k = 1 THEN At(SA[i])
                            ELSE R[i][t][k]]]]
    OBVIOUS
  <2>151. Ended(c, SrchCnt[w], S, SA, R, R2)
    BY <2>15 DEF Ended, s
  <2>152. ASSUME ~o.damaged PROVE R2 = Rows(Contents(o), w)
    <3>1. Shape(R2)
      BY <2>15 DEF Shape
    <3>2. R = Rows(Contents(srch), w)
      BY <1>21, <2>11, <2>152 DEF InOrder
    <3>3. \A i \in 1..N : \A t \in 0..MaxSearches : \A k \in Accesses : Rows(Contents(o), w)[i][t][k] = R2[i][t][k]
      BY <2>14, <2>15, <2>152, <3>2, RowsAt
    <3> QED BY <3>1, <3>3, SameRows
  <2>16. Good(c, s, c, Access[w], LastIND[w], DV(updt, w), DAV(updt, w), S, SA, R2)
    <3>1. Good(c, SrchCnt[w], latestUpdatedCounter[w], Access[w], LastIND[w], DV(updt, w), DAV(updt, w), S, SA, R)
      BY <1>21 DEF InOrder, GoodOf, S, SA, c
    <3> QED BY <1>2, <2>151, <3>1, GoodEnd DEF s
  <2>17. /\ SrchCnt'[w] = s /\ latestUpdatedCounter'[w] = c
         /\ \A x \in Keywords : x # w =>
               SrchCnt'[x] = SrchCnt[x] /\ latestUpdatedCounter'[x] = latestUpdatedCounter[x]
    BY <1>2, <1>3, <1>5 DEF Counters, Fn
  <2>18. Counters'
    BY <1>3, <1>5 DEF Counters, Fn
  <2>19. srch' = o /\ UNCHANGED <<UpdtCnt, Access, LastIND, updt, phase>> /\ UpdtCnt[w] = c
    BY <1>5 DEF c
  <2>20. ASSUME NEW x \in Keywords PROVE \E Q : InOrder(x, updt, Q)'
    <3>1. CASE x = w
      <4>1. GoodOf(x, updt, R2)'
        BY <2>16, <2>17, <2>19, <3>1 DEF GoodOf, S, SA
      <4> QED BY <2>152, <2>19, <3>1, <4>1 DEF InOrder
    <3>2. CASE x # w
      <4>1. PICK Q : InOrder(x, updt, Q)
        BY <1>2 DEF IInv, Running
      <4>2. GoodOf(x, updt, Q)'
        BY <2>17, <2>19, <3>2, <4>1 DEF GoodOf, InOrder
      <4>3. ~o.damaged => Q = Rows(Contents(o), x)
        BY <2>11, <2>13, <3>2, <4>1 DEF InOrder
      <4> QED BY <2>19, <4>2, <4>3 DEF InOrder
    <3> QED BY <3>1, <3>2
  <2>21. Phases' /\ Stored' /\ Unused' /\ Untouched' /\ Loading' /\ Scanning'
    BY <1>1, <1>2, <2>11, <2>19 DEF IInv, Phases, Stored, Unused, Untouched, Loading, Scanning
  <2> QED BY <2>11, <2>18, <2>19, <2>20, <2>21 DEF IInv, Running
<1> HIDE DEF o, ids
<1> QED BY <1>1, <1>4, <1>5

-----------------------------------------------------------------------------
\* The invariant holds.
LEMMA NextIInv ==
    ASSUME ~SetupMixed, IInv, [Next]_vars
    PROVE  IInv'
<1>1. ASSUME NEW w \in Keywords, NEW d \in Docs, add(w, d) PROVE IInv'
  BY <1>1, AddKeeps
<1>2. ASSUME NEW w \in Keywords, NEW d \in Docs, remove(w, d) PROVE IInv'
  BY <1>2, RemoveKeeps
<1>3. ASSUME NEW w \in Keywords, NEW d \in Docs, setupInsert(w, d) PROVE IInv'
  BY <1>3, SetupInsertKeeps
<1>4. ASSUME NEW w \in Keywords, NEW d \in Docs, setupRemove(w, d) PROVE IInv'
  BY <1>4, SetupRemoveKeeps
<1>5. ASSUME NEW w \in Keywords, search(w) PROVE IInv'
  BY <1>5, SearchKeeps
<1>6. ASSUME searchRound PROVE IInv'
  BY <1>6, RoundKeeps
<1>7. ASSUME searchEnd PROVE IInv'
  BY <1>7, EndKeeps
<1>8. ASSUME beginSetup PROVE IInv'
  BY <1>8, BeginKeeps
<1>9. ASSUME endSetup PROVE IInv'
  BY <1>9, EndSetupKeeps
<1>10. ASSUME UNCHANGED vars PROVE IInv'
  <2>1. /\ UNCHANGED <<UpdtCnt, SrchCnt, Access, LastIND, latestUpdatedCounter>>
        /\ UNCHANGED <<updt, srch, setupPairs1, setupPairs2, phase, scan>>
    BY <1>10 DEF vars, counters, staged
  <2>2. Counters' /\ Phases' /\ Stored' /\ Unused' /\ Untouched'
    BY <2>1 DEF IInv, Counters, Phases, Stored, Unused, Untouched
  <2>21. Running'
    <3>1. CASE phase \in {"new", "run"}
      BY <2>1, <3>1, OrderKept
    <3> QED BY <2>1, <3>1 DEF Running
  <2>3. Loading'
    BY <2>1 DEF IInv, Loading, GoodOf
  <2>4. Scanning'
    BY <2>1 DEF IInv, Scanning, NewItem
  <2> QED BY <2>2, <2>21, <2>3, <2>4 DEF IInv
<1> QED BY <1>1, <1>2, <1>3, <1>4, <1>5, <1>6, <1>7, <1>8, <1>9, <1>10 DEF Next

\* The inductive invariant holds throughout.
LEMMA Invariance ==
    ASSUME ~SetupMixed
    PROVE  Spec => []IInv
<1>1. Init => IInv
  BY InitIInv
<1>2. IInv /\ [Next]_vars => IInv'
  BY NextIInv
<1> QED BY <1>1, <1>2, PTL DEF Spec

\* The boxes are in place.
LEMMA InPlace ==
    ASSUME IInv
    PROVE  BoxesInPlace
<1>1. Sound(srch) /\ Lawful(srch, Access)
  BY DEF IInv, Stored, Fine
<1>2. /\ DOMAIN srch.store = Buckets /\ srch.depth = Depth
      /\ \A b \in Buckets : Cardinality(DOMAIN srch.store[b]) <= Z
      /\ OnPath(srch) /\ Room(srch)
  BY <1>1 DEF Sound, Laid, IsORAM
<1>3. Cardinality(Kept(srch)) + srch.emptyNodes <= Z * BucketCount(Depth)
  BY <1>2 DEF Room
<1>4. \A k \in Kept(srch) : \A c \in Copies(srch, k) : c.pos = PosOf(k)
  BY <1>1, <1>2, CopiesAre DEF Lawful
<1>5. ASSUME NEW b \in Buckets, NEW k \in DOMAIN srch.store[b]
      PROVE  \E d \in 0..Depth : b = GetBoxOnPath(srch, PosOf(k), d)
  <2>1. HasBox(srch, k, srch.store[b][k])
    BY DEF HasBox
  <2>2. srch.store[b][k].pos = PosOf(k)
    BY <1>1, <2>1 DEF Lawful
  <2>3. b \in Path(PosOf(k))
    BY <1>2, <2>2 DEF OnPath
  <2> QED BY <1>2, <2>3 DEF Path, Node, GetBoxOnPath
<1>6. \A k : PosOf(k) = LET p == k \div Radix
                            q == p \div Radix
                        IN  generatePosition(k % Radix, q \div Radix, q % Radix, p % Radix)
  BY DEF PosOf
<1> QED BY <1>2, <1>3, <1>4, <1>5, <1>6, Zenon DEF BoxesInPlace

\* What Box finds is what the ORAM holds; there is one copy of it.
LEMMA BoxIs ==
    ASSUME IInv, ~srch.damaged, NEW k
    PROVE  /\ Box(k) = IF k \in DOMAIN Contents(srch) THEN Contents(srch)[k].value ELSE << >>
           /\ k \in Kept(srch) => Cardinality(Copies(srch, k)) = 1
<1>1. OK(srch) /\ DOMAIN Contents(srch) = Kept(srch)
  BY FinePlaced DEF IInv, Stored
<1>2. DOMAIN srch.store = Buckets
  BY <1>1 DEF OK, Laid, IsORAM
<1>3. \A c : c \in Copies(srch, k) <=> k \in Kept(srch) /\ c = Contents(srch)[k]
  BY <1>1, <1>2, CopiesAre, ContentsFacts
<1>4. CASE k \in Kept(srch)
  <2>1. Copies(srch, k) = {Contents(srch)[k]}
    BY <1>3, <1>4
  <2>2. (CHOOSE c \in {Contents(srch)[k]} : TRUE) = Contents(srch)[k]
    OBVIOUS
  <2>3. Box(k) = Contents(srch)[k].value
    BY <2>1, <2>2 DEF Box
  <2>4. Cardinality({Contents(srch)[k]}) = 1
    BY FS_Singleton
  <2> QED BY <1>1, <1>4, <2>1, <2>3, <2>4
<1>5. CASE k \notin Kept(srch)
  <2>1. Copies(srch, k) = {}
    BY <1>3, <1>5
  <2> QED BY <1>1, <1>5, <2>1 DEF Box
<1> QED BY <1>4, <1>5

\* Between two calls, SlotsReadable follows.
LEMMA SlotsFollow ==
    ASSUME IInv
    PROVE  SlotsReadable
<1> USE Constants
<1>1. BoxesInPlace
  BY InPlace
<1>2. ASSUME phase = "run", scan = Idle, ~srch.damaged, NEW w \in Keywords
      PROVE  /\ UpdtCnt[w] > 0 => LastIND[w] = updt[Bid1(w, UpdtCnt[w])][1]
             /\ \A k \in Kept(srch) : Cardinality(Copies(srch, k)) = 1
             /\ \A i \in 1..UpdtCnt[w] :
                   LET d == updt[Bid1(w, i)][1]
                       a == updt[Bid1(w, i)][2]
                       box(k) == Box(createBid(w, i, SrchCnt[w], k))
                       start == IF box(1) # << >> /\ box(1)[1] = "at" THEN box(1)[2] ELSE 1
                   IN  /\ updt[Bid0(w, d)][1] = i /\ updt[Bid0(w, d)][2] = a
                       /\ start \in 1..a /\ a <= Access[w]
                       /\ box(a) = Doc(d)
                       /\ \A k \in start..a : box(k) # << >> /\ box(k)[1] = "doc"
                       /\ \A k \in (a + 1)..(Access[w] + 1) : box(k) = << >>
  <2> DEFINE c == UpdtCnt[w]
             s == SrchCnt[w]
             A == Access[w]
             R == Rows(Contents(srch), w)
  <2>1. GoodOf(w, updt, R)
    BY <1>2 DEF IInv, Running, InOrder
  <2>11. \A k \in Kept(srch) : Cardinality(Copies(srch, k)) = 1
    BY <1>2, BoxIs
  <2>2. c \in 0..N /\ s \in 0..MaxSearches /\ A \in 0..MaxAccess
    BY <2>1, GoodIn
  <2>3. \A i \in 1..c : /\ i \in 1..N /\ SV(updt, w)[i] \in Docs
                        /\ updt[Bid1(w, i)][1] = SV(updt, w)[i] /\ updt[Bid1(w, i)][2] = SAV(updt, w)[i]
    <3> HIDE DEF R
    <3>1. \A i \in 1..c : i \in 1..N
      BY <2>2
    <3>2. \A i \in 1..c : SV(updt, w)[i] \in Docs
      BY <2>1, GoodFacts DEF GoodOf
    <3> QED BY <3>1, <3>2, EntryAt
  <2>4. ASSUME c > 0 PROVE LastIND[w] = updt[Bid1(w, c)][1]
    <3>1. LastIND[w] = SV(updt, w)[c]
      BY <2>1, <2>4, GoodFacts DEF GoodOf
    <3>2. c \in 1..c
      BY <2>2, <2>4
    <3> QED BY <2>3, <3>1, <3>2
  <2>5. ASSUME NEW i \in 1..c
        PROVE  LET d == updt[Bid1(w, i)][1]
                   a == updt[Bid1(w, i)][2]
                   box(k) == Box(createBid(w, i, SrchCnt[w], k))
                   start == IF box(1) # << >> /\ box(1)[1] = "at" THEN box(1)[2] ELSE 1
               IN  /\ updt[Bid0(w, d)][1] = i /\ updt[Bid0(w, d)][2] = a
                   /\ start \in 1..a /\ a <= Access[w]
                   /\ box(a) = Doc(d)
                   /\ \A k \in start..a : box(k) # << >> /\ box(k)[1] = "doc"
                   /\ \A k \in (a + 1)..(Access[w] + 1) : box(k) = << >>
    <3> DEFINE d == updt[Bid1(w, i)][1]
               a == updt[Bid1(w, i)][2]
               row == R[i][s]
               box(k) == Box(createBid(w, i, SrchCnt[w], k))
               start == IF box(1) # << >> /\ box(1)[1] = "at" THEN box(1)[2] ELSE 1
    <3>1. i \in 1..N /\ d = SV(updt, w)[i] /\ a = SAV(updt, w)[i] /\ d \in Docs
      BY <2>3
    <3>2. /\ DV(updt, w)[d] = i /\ DAV(updt, w)[d] = a /\ a > 0 /\ row[a] = Doc(d)
      BY <2>1, <3>1, GoodFacts DEF GoodOf
    <3>3. a \in 0..A
      BY <2>1, <3>1, GoodIn
    <3>4. Readable(a, row)
      <4>1. i <= c
        BY <2>2
      <4> QED BY <2>1, <3>1, <4>1, GoodFacts DEF GoodOf
    <3>5. \A k \in Accesses : k > a => row[k] = << >>
      BY <2>1, <3>1, GoodFacts DEF GoodOf
    <3>6. \A k \in Accesses : box(k) = row[k]
      BY <1>2, <2>2, <3>1, BoxIs, RowsAt DEF Look
    <3>7. updt[Bid0(w, d)][1] = i /\ updt[Bid0(w, d)][2] = a
      BY <2>2, <3>1, <3>2, EntryOf
    <3> HIDE DEF d, a, row, box, c, s, A, R
    <3>8. a \in 1..A /\ a \in 1..MaxAccess /\ 1 \in Accesses /\ a \in Accesses
      BY <2>2, <3>2, <3>3 DEF Accesses
    <3>9. PICK st \in 1..a : /\ \A k \in st..a : IsDoc(row[k])
                             /\ st = 1 \/ row[1] = At(st)
      BY <3>4 DEF Readable
    <3>10. start = st
      <4>1. CASE st = 1
        <5>1. IsDoc(row[1])
          BY <3>8, <3>9, <4>1
        <5>2. box(1)[1] = "doc"
          BY <3>6, <3>8, <5>1, Values
        <5> QED BY <4>1, <5>2
      <4>2. CASE row[1] = At(st)
        <5>1. box(1) # << >> /\ box(1)[1] = "at" /\ box(1)[2] = st
          BY <3>6, <3>8, <4>2, Values
        <5> QED BY <5>1
      <4> QED BY <3>9, <4>1, <4>2
    <3> HIDE DEF start
    <3>11. \A k \in start..a : box(k) # << >> /\ box(k)[1] = "doc"
      <4>1. \A k \in st..a : k \in Accesses
        BY <3>8 DEF Accesses
      <4> QED BY <3>6, <3>9, <3>10, <4>1, Values
    <3>12. \A k \in (a + 1)..(A + 1) : box(k) = << >>
      <4>1. \A k \in (a + 1)..(A + 1) : k \in Accesses /\ k > a
        BY <2>2, <3>8 DEF Accesses
      <4> QED BY <3>5, <3>6, <4>1
    <3>13. start \in 1..a /\ a <= A /\ box(a) = Doc(d)
      BY <2>2, <3>2, <3>6, <3>8, <3>10
    <3> QED BY <3>7, <3>11, <3>12, <3>13 DEF d, a, box, start, A
  <2> QED BY <2>11, <2>4, <2>5
<1> QED BY <1>1, <1>2, Zenon DEF SlotsReadable

\* Whatever inserts, removals, searches and setups went before, and wherever WriteBox
\* wrote a level once it had freed its box: every copy of a box is in the stash or in a
\* bucket on the path that generatePosition names, and the tree is not overfull.  As long
\* as no such write has lost a box or left an outdated copy, between two calls map and
\* boxes agree on every slot, and the search of a keyword can read from box 1 of each slot
\* to the last one and finds nothing beyond.
THEOREM Readability ==
    ASSUME ~SetupMixed
    PROVE  Spec => []SlotsReadable
<1>1. IInv => SlotsReadable
  BY SlotsFollow
<1> QED BY <1>1, Invariance, PTL

\* No round of a search reads beyond the access count of the keyword, and every round
\* but the first finds a slot or narrows its interval: the loop of search ends, also
\* over boxes that were lost.
THEOREM Progress ==
    ASSUME ~SetupMixed
    PROVE  Spec => RoundsClose
<1>1. ASSUME IInv, searchRound
      PROVE  \A i \in Unfound :
                /\ scan.items[i].cur \in 1..Access[scan.keyword]
                /\ \/ scan.first \/ scan'.items[i].found
                   \/ Span(scan'.items[i]) \in 0..(Span(scan.items[i]) - 1)
  <2>1. Unfound \subseteq 1..UpdtCnt[scan.keyword]
    BY <1>1, RoundReads
  <2>2. \A i \in 1..UpdtCnt[scan.keyword] : scan.items[i].cur \in 1..Access[scan.keyword]
    BY <1>1, RoundReads
  <2>3. \A i \in 1..UpdtCnt[scan.keyword] :
           i \in Unfound => \/ scan.first \/ scan'.items[i].found
                            \/ Span(scan'.items[i]) \in 0..(Span(scan.items[i]) - 1)
    BY <1>1, RoundItems
  <2> QED BY <2>1, <2>2, <2>3
<1>2. IInv /\ [Next]_vars =>
        [searchRound => \A i \in Unfound :
            /\ scan.items[i].cur \in 1..Access[scan.keyword]
            /\ \/ scan.first \/ scan'.items[i].found
               \/ Span(scan'.items[i]) \in 0..(Span(scan.items[i]) - 1)]_vars
  BY <1>1
<1> QED BY <1>2, Invariance, PTL DEF Spec, RoundsClose

-----------------------------------------------------------------------------
\* The refinement.

\* The index counts the documents of an answer as Horus does.
LEMMA SameCardinality == \A S : Index!Cardinality(S) = Cardinality(S)
BY DEF Index!Cardinality, Cardinality

\* The listed documents, by the views.
LEMMA LiveIs ==
    /\ Live = [w \in Keywords |-> Live[w]]
    /\ \A w \in Keywords : \A d : d \in Live[w] <=> d \in Docs /\ DV(updt, w)[d] > 0
BY DEF Live, DV

\* The same in the next state.
LEMMA LiveIsNext ==
    /\ Live' = [w \in Keywords |-> Live'[w]]
    /\ \A w \in Keywords : \A d : d \in Live'[w] <=> d \in Docs /\ DV(updt', w)[d] > 0
BY DEF Live, DV

\* The map of updates alone says which documents are listed.
LEMMA LiveSame == updt' = updt => Live' = Live
BY DEF Live

\* The initial states are initial states of the index.
LEMMA InitIndex == Init => Index!Init
<1> SUFFICES ASSUME Init PROVE Index!Init
  OBVIOUS
<1>1. updt = EmptyMap /\ answer = << >> /\ srch = NewPRFORAM(Depth)
  BY DEF Init
<1>11. ~srch.damaged
  BY <1>1, NewORAM
<1>2. \A w \in Keywords : \A d : d \notin Live[w]
  BY <1>1, LiveIs, EmptyViews
<1>3. Live = [w \in Keywords |-> {}]
  BY <1>2, LiveIs
<1> QED BY <1>1, <1>11, <1>3 DEF Index!Init

\* With and Threw keep the history, and so does everything made of them.
LEMMA DamageKept ==
    /\ \A o, store, stash, n : With(o, store, stash, n).damaged = o.damaged
    /\ \A o : Threw(o).damaged = o.damaged
    /\ \A o, damaged : Mark(o, damaged).damaged = damaged
BY DEF With, Threw, Mark

\* A write never takes damage back.
LEMMA WriteMonotone ==
    ASSUME NEW o, NEW w, NEW i, NEW a, NEW v, NEW r \in Write(o, w, i, a, v), o.damaged
    PROVE  r.damaged
<1>1. PICK b, p : r \in WriteBox(o, b, v, p)
  BY DEF Write
<1>2. r = Threw(o) \/ \E q, x : r = Mark(q, o.damaged \/ x)
  BY <1>1 DEF WriteBox
<1>3. CASE r = Threw(o)
  BY <1>3, DamageKept
<1>4. CASE \E q, x : r = Mark(q, o.damaged \/ x)
  <2>1. PICK q, x : r = Mark(q, o.damaged \/ x)
    BY <1>4
  <2>2. r = Mark(q, TRUE)
    BY <2>1
  <2> QED BY <2>2, DamageKept
<1> QED BY <1>2, <1>3, <1>4

\* Nor do the writes of add.
LEMMA NewBoxesMonotone ==
    ASSUME NEW w, NEW d, NEW r \in NewBoxes(w, d), srch.damaged
    PROVE  r.damaged
<1>1. PICK i, a, v : r \in Write(srch, w, i, a, v) \/ \E o \in Write(srch, w, i, a, v) : \E b, x : r \in Write(o, w, i, b, x)
  BY DEF NewBoxes
<1>2. CASE r \in Write(srch, w, i, a, v)
  BY <1>2, WriteMonotone
<1>3. CASE \E o \in Write(srch, w, i, a, v) : \E b, x : r \in Write(o, w, i, b, x)
  <2>1. PICK o \in Write(srch, w, i, a, v) : \E b, x : r \in Write(o, w, i, b, x)
    BY <1>3
  <2>2. o.damaged
    BY WriteMonotone
  <2> QED BY <2>1, <2>2, WriteMonotone
<1> QED BY <1>1, <1>2, <1>3

\* Nor does the write of remove.
LEMMA MovedBoxMonotone ==
    ASSUME NEW w, NEW d, NEW r \in MovedBox(w, d), srch.damaged
    PROVE  r.damaged
<1>1. r = srch \/ \E i, a, v : r \in Write(srch, w, i, a, v)
  BY DEF MovedBox
<1> QED BY <1>1, WriteMonotone

\* add.
LEMMA AddIndex ==
    ASSUME IInv, NEW w \in Keywords, NEW d \in Docs, add(w, d)
    PROVE  Index!Add(w, d) \/ Index!Fail \/ UNCHANGED Index!vars
<1> USE Constants
<1> DEFINE c == UpdtCnt[w]
           n == Filled(updt, w, c + 1, d, NextAccess(w))
<1>1. CASE updt' = updt /\ answer' = answer /\ srch' = srch
  BY <1>1, LiveSame DEF Index!vars
<1>2. CASE Die
  BY <1>2, LiveSame DEF Die, Index!Fail
<1>3. CASE /\ updt' = n /\ answer' = answer
           /\ \E o \in NewBoxes(w, d) : srch' = o
  <2>0. \E R : GoodOf(w, updt, R)
    BY DEF add, Ready, IInv, Running, InOrder
  <2>1. PICK R : GoodOf(w, updt, R)
    BY <2>0
  <2>2. c \in 0..N
    BY <2>1, GoodIn
  <2>3. \A x : \A e \in Docs : DV(n, x)[e] = IF x = w /\ e = d THEN c + 1 ELSE DV(updt, x)[e]
    BY FilledViews
  <2> HIDE DEF n
  <2>4. \A x \in Keywords : x # w => Live'[x] = Live[x]
    <3>1. ASSUME NEW x \in Keywords, x # w PROVE \A e : e \in Live'[x] <=> e \in Live[x]
      BY <1>3, <2>3, <3>1, LiveIs, LiveIsNext
    <3> QED BY <3>1, LiveIs, LiveIsNext DEF Live
  <2>5. Live'[w] = Live[w] \cup {d}
    <3>1. \A e : e \in Live'[w] <=> e \in Live[w] \cup {d}
      <4>1. DV(n, w)[d] > 0
        BY <2>2, <2>3
      <4> QED BY <1>3, <2>3, <4>1, LiveIs, LiveIsNext
    <3> QED BY <3>1 DEF Live
  <2>6. Live' = [Live EXCEPT ![w] = Live[w] \cup {d}]
    BY <2>4, <2>5, LiveIs, LiveIsNext
  <2>7. srch.damaged => srch'.damaged
    BY <1>3, NewBoxesMonotone
  <2> QED BY <1>3, <2>6, <2>7 DEF Index!Add
<1> QED BY <1>1, <1>2, <1>3 DEF add, Survives

\* remove.
LEMMA RemoveIndex ==
    ASSUME IInv, NEW w \in Keywords, NEW d \in Docs, remove(w, d)
    PROVE  Index!Remove(w, d) \/ Index!Fail \/ UNCHANGED Index!vars
<1> USE Constants
<1> DEFINE n == Unlisted(updt, w, d)
<1>1. CASE updt' = updt /\ answer' = answer /\ srch' = srch
  BY <1>1, LiveSame DEF Index!vars
<1>2. CASE updt' = updt /\ answer' = <<"threw">> /\ srch' = srch
  BY <1>2, LiveSame DEF Index!Fail
<1>3. CASE /\ Slot(updt, w, d) > 0 /\ updt' = n /\ answer' = answer
           /\ \E o \in MovedBox(w, d) : srch' = o
  <2> DEFINE i == DV(updt, w)[d]
             c == UpdtCnt[w]
             l == LastIND[w]
  <2>0. \E R : GoodOf(w, updt, R)
    BY DEF remove, Ready, IInv, Running, InOrder
  <2>01. PICK R : GoodOf(w, updt, R)
    BY <2>0
  <2>1. GoodOf(w, updt, R) /\ i > 0
    BY <1>3, <2>01 DEF DV
  <2>2. c \in 0..N /\ i \in (-1)..c
    BY <2>1, GoodIn
  <2>3. Moves(w, i) => l \in Docs /\ DV(updt, w)[l] > 0 /\ l # d
    <3>1. c \in 1..c
      BY <2>1, <2>2
    <3>2. SV(updt, w)[c] \in Docs /\ DV(updt, w)[SV(updt, w)[c]] = c /\ l = SV(updt, w)[c]
      BY <2>1, <2>2, <3>1, GoodFacts DEF GoodOf
    <3>3. Moves(w, i) => i # c
      BY DEF Moves
    <3> QED BY <2>2, <3>1, <3>2, <3>3
  <2>4. \A x : /\ ~Moves(w, i) =>
                     \A e \in Docs : DV(n, x)[e] = IF x = w /\ e = d THEN -1 ELSE DV(updt, x)[e]
               /\ Moves(w, i) =>
                     \A e \in Docs : DV(n, x)[e] = IF x = w /\ e = l THEN i
                                                   ELSE IF x = w /\ e = d THEN -1 ELSE DV(updt, x)[e]
    BY <2>1, UnlistedViews
  <2> HIDE DEF n, i, l
  <2>5. \A x \in Keywords : \A e \in Docs :
           DV(n, x)[e] > 0 <=> DV(updt, x)[e] > 0 /\ ~(x = w /\ e = d)
    <3> SUFFICES ASSUME NEW x \in Keywords, NEW e \in Docs
                 PROVE  DV(n, x)[e] > 0 <=> DV(updt, x)[e] > 0 /\ ~(x = w /\ e = d)
      OBVIOUS
    <3>1. CASE Moves(w, i)
      BY <2>1, <2>3, <2>4, <3>1
    <3>2. CASE ~Moves(w, i)
      BY <2>4, <3>2
    <3> QED BY <3>1, <3>2
  <2>6. \A x \in Keywords : x # w => Live'[x] = Live[x]
    <3>1. ASSUME NEW x \in Keywords, x # w PROVE \A e : e \in Live'[x] <=> e \in Live[x]
      BY <1>3, <2>5, <3>1, LiveIs, LiveIsNext
    <3> QED BY <3>1, LiveIs, LiveIsNext DEF Live
  <2>7. Live'[w] = Live[w] \ {d}
    <3>1. \A e : e \in Live'[w] <=> e \in Live[w] \ {d}
      BY <1>3, <2>5, LiveIs, LiveIsNext
    <3> QED BY <3>1 DEF Live
  <2>8. Live' = [Live EXCEPT ![w] = Live[w] \ {d}]
    BY <2>6, <2>7, LiveIs, LiveIsNext
  <2>9. srch.damaged => srch'.damaged
    BY <1>3, MovedBoxMonotone
  <2> QED BY <1>3, <2>8, <2>9 DEF Index!Remove
<1> QED BY <1>1, <1>2, <1>3 DEF remove, Die, Survives

\* endSetup.
LEMMA LoadIndex ==
    ASSUME IInv, endSetup
    PROVE  Index!Load \/ Index!Fail
<1>0. srch'.damaged = srch.damaged
  BY EndSetupKeeps
<1>1. CASE updt' = updt /\ answer' = <<"threw">>
  BY <1>0, <1>1, LiveSame DEF Index!Fail
<1>2. CASE answer' = answer
  <2>1. updt = EmptyMap
    BY DEF IInv, Unused, endSetup
  <2>2. \A w \in Keywords : \A d : d \notin Live[w]
    BY <2>1, LiveIs, EmptyViews
  <2>3. \A w \in Keywords : Live[w] = {}
    BY <2>2
  <2>4. \A w \in Keywords : Live'[w] \in SUBSET Docs
    BY LiveIsNext
  <2>5. Live' \in [Keywords -> SUBSET Docs]
    BY <2>4, LiveIsNext
  <2> QED BY <1>0, <1>2, <2>3, <2>5 DEF Index!Load
<1> QED BY <1>1, <1>2 DEF endSetup

\* There are as many listed documents as slots.
LEMMA LiveCount ==
    ASSUME NEW w \in Keywords, NEW R, GoodOf(w, updt, R)
    PROVE  /\ \A d : d \in Live[w] <=> \E i \in 1..UpdtCnt[w] : d = SV(updt, w)[i]
           /\ Cardinality(Live[w]) = UpdtCnt[w]
<1> USE Constants
<1> DEFINE c == UpdtCnt[w]
           S == SV(updt, w)
           D == DV(updt, w)
           f == [i \in 1..c |-> S[i]]
<1>1. c \in 0..N /\ \A d \in Docs : D[d] \in (-1)..c
  BY GoodIn
<1>2. \A d \in Docs : D[d] > 0 => S[D[d]] = d
  BY GoodFacts DEF GoodOf
<1>3. \A i \in 1..c : S[i] \in Docs /\ D[S[i]] = i
  BY GoodFacts DEF GoodOf
<1> HIDE DEF c, S, D
<1>4. \A d : d \in Live[w] <=> d \in Docs /\ D[d] > 0
  BY LiveIs DEF D
<1>5. \A d : d \in Live[w] <=> \E i \in 1..c : d = S[i]
  <2>1. ASSUME NEW d \in Live[w] PROVE \E i \in 1..c : d = S[i]
    <3>1. d \in Docs /\ D[d] > 0
      BY <1>4
    <3>2. D[d] \in 1..c
      BY <1>1, <3>1
    <3> QED BY <1>2, <3>1, <3>2
  <2>2. ASSUME NEW i \in 1..c PROVE S[i] \in Live[w]
    <3>1. i > 0
      OBVIOUS
    <3> QED BY <1>3, <1>4, <3>1
  <2> QED BY <2>1, <2>2
<1>6. f \in [1..c -> Live[w]]
  BY <1>5
<1>7. \A i, j \in 1..c : f[i] = f[j] => i = j
  BY <1>3
<1>8. \A d \in Live[w] : \E i \in 1..c : f[i] = d
  BY <1>5
<1>9. f \in Bijection(1..c, Live[w])
  <2>1. f \in Injection(1..c, Live[w])
    BY <1>6, <1>7 DEF Injection, IsInjective
  <2>2. f \in Surjection(1..c, Live[w])
    BY <1>6, <1>8 DEF Surjection
  <2> QED BY <2>1, <2>2 DEF Bijection
<1>10. IsFiniteSet(1..c) /\ Cardinality(1..c) = c
  BY <1>1, FS_Interval
<1> HIDE DEF f
<1>11. Cardinality(Live[w]) = c
  <2>1. Cardinality(1..c) = Cardinality(Live[w])
    <3> DEFINE X == 1..c
               Y == Live[w]
    <3>1. ExistsBijection(X, Y) /\ IsFiniteSet(X)
      BY <1>9, <1>10, Zenon DEF ExistsBijection
    <3> HIDE DEF X, Y
    <3>2. Cardinality(Y) = Cardinality(X)
      BY <3>1, FS_Bijection, Zenon
    <3> QED BY <3>2 DEF X, Y
  <2> QED BY <1>10, <2>1
<1> QED BY <1>5, <1>11 DEF c, S

\* searchEnd.
LEMMA SearchIndex ==
    ASSUME IInv, searchEnd
    PROVE  Index!Fail \/ Index!Search(scan.keyword)
<1> DEFINE w == scan.keyword
           ids == {scan.items[i].lastID : i \in DOMAIN scan.items}
           found == {id[2] : id \in ids}
<1>1. /\ Searching /\ Unfound = {} /\ updt' = updt
      /\ \/ answer' = <<"threw">>
         \/ answer' = <<"invalid">> /\ \E id \in ids : id = << >> \/ id[1] # "doc"
         \/ answer' = <<w, found, UpdtCnt[w]>> /\ \A id \in ids : id # << >> /\ id[1] = "doc"
  BY DEF searchEnd
<1>2. w \in Keywords /\ \E R : InOrder(w, updt, R)
  BY <1>1, ScanFacts
<1>21. PICK R : GoodOf(w, updt, R)
  BY <1>2 DEF InOrder
<1>22. srch'.damaged = srch.damaged
  BY EndKeeps
<1>3. /\ (\A id \in ids : id # << >> /\ id[1] = "doc") => found \subseteq Docs
      /\ ~srch.damaged =>
            /\ \A id \in ids : id # << >> /\ id[1] = "doc"
            /\ \A d : d \in found <=> \E i \in 1..UpdtCnt[w] : d = SV(updt, w)[i]
  BY <1>1, EndAnswer
<1>5. /\ \A d : d \in Live[w] <=> \E i \in 1..UpdtCnt[w] : d = SV(updt, w)[i]
      /\ Cardinality(Live[w]) = UpdtCnt[w]
  BY <1>2, <1>21, LiveCount
<1> HIDE DEF found, ids
<1>6. ~srch.damaged => \A d : d \in found <=> d \in Live[w]
  BY <1>3, <1>5
<1>7. ~srch.damaged => found = Live[w]
  BY <1>6, <1>2 DEF Live
<1>8. CASE answer' = <<"threw">>
  BY <1>1, <1>22, <1>8, LiveSame DEF Index!Fail
<1>81. CASE answer' = <<"invalid">> /\ \E id \in ids : id = << >> \/ id[1] # "doc"
  BY <1>1, <1>22, <1>3, <1>81, LiveSame DEF Index!Fail
<1>9. CASE answer' = <<w, found, UpdtCnt[w]>> /\ \A id \in ids : id # << >> /\ id[1] = "doc"
  <2>1. UpdtCnt[w] = Index!Cardinality(Live[w])
    BY <1>5, SameCardinality
  <2>2. found \in IF ~srch.damaged THEN {Live[w]} ELSE SUBSET Docs
    BY <1>3, <1>7, <1>9
  <2> HIDE DEF w
  <2>3. Index!Search(w)
    BY <1>1, <1>22, <1>9, <2>1, <2>2, LiveSame DEF Index!Search
  <2> QED BY <2>3 DEF w
<1> QED BY <1>1, <1>8, <1>81, <1>9

\* Every step is a step of the index or none.
LEMMA NextIndex ==
    ASSUME IInv, [Next]_vars
    PROVE  [Index!Next]_(Index!vars)
<1>1. ASSUME NEW w \in Keywords, NEW d \in Docs, add(w, d) PROVE [Index!Next]_(Index!vars)
  <2>1. Index!Add(w, d) \/ Index!Fail \/ UNCHANGED Index!vars
    BY <1>1, AddIndex
  <2> QED BY <2>1 DEF Index!Next
<1>2. ASSUME NEW w \in Keywords, NEW d \in Docs, remove(w, d) PROVE [Index!Next]_(Index!vars)
  <2>1. Index!Remove(w, d) \/ Index!Fail \/ UNCHANGED Index!vars
    BY <1>2, RemoveIndex
  <2> QED BY <2>1 DEF Index!Next
<1>3. ASSUME updt' = updt, answer' = answer, srch'.damaged = srch.damaged PROVE [Index!Next]_(Index!vars)
  BY <1>3, LiveSame DEF Index!vars
<1>4. ASSUME NEW w \in Keywords, NEW d \in Docs, setupInsert(w, d) PROVE [Index!Next]_(Index!vars)
  BY <1>3, <1>4 DEF setupInsert
<1>5. ASSUME NEW w \in Keywords, NEW d \in Docs, setupRemove(w, d) PROVE [Index!Next]_(Index!vars)
  <2>1. updt' = updt /\ srch' = srch /\ (answer' = answer \/ answer' = <<"threw">>)
    BY <1>5 DEF setupRemove
  <2>2. CASE answer' = answer
    BY <1>3, <2>1, <2>2
  <2>3. CASE answer' = <<"threw">>
    BY <2>1, <2>3, LiveSame DEF Index!Next, Index!Fail
  <2> QED BY <2>1, <2>2, <2>3
<1>6. ASSUME NEW w \in Keywords, search(w) PROVE [Index!Next]_(Index!vars)
  BY <1>3, <1>6 DEF search
<1>7. ASSUME searchRound PROVE [Index!Next]_(Index!vars)
  <2>1. srch'.damaged = srch.damaged
    BY <1>7, RoundReads
  <2> QED BY <1>3, <1>7, <2>1 DEF searchRound
<1>8. ASSUME searchEnd PROVE [Index!Next]_(Index!vars)
  <2>1. Index!Fail \/ Index!Search(scan.keyword)
    BY <1>8, SearchIndex
  <2>2. scan.keyword \in Keywords
    BY <1>8, ScanFacts DEF searchEnd
  <2> QED BY <2>1, <2>2 DEF Index!Next
<1>9. ASSUME beginSetup PROVE [Index!Next]_(Index!vars)
  BY <1>3, <1>9 DEF beginSetup
<1>10. ASSUME endSetup PROVE [Index!Next]_(Index!vars)
  <2>1. Index!Load \/ Index!Fail
    BY <1>10, LoadIndex
  <2> QED BY <2>1 DEF Index!Next
<1>11. ASSUME UNCHANGED vars PROVE [Index!Next]_(Index!vars)
  BY <1>3, <1>11 DEF vars
<1> QED BY <1>1, <1>2, <1>4, <1>5, <1>6, <1>7, <1>8, <1>9, <1>10, <1>11 DEF Next

\* Horus implements the index of listed documents: add, remove and the load at the end
\* of a setup change it as they say, and the bisection of search, round by round over
\* boxes that were moved and written anew, answers with exactly the listed documents.
\* Once a write to the wrong path has damaged the tree, which add and remove alone can
\* do, a search may fail or name other documents, but their number, and what later
\* operations list, are still right.
THEOREM Refinement ==
    ASSUME ~SetupMixed
    PROVE  Spec => ImplementsIndex
<1>1. Init => Index!Init
  BY InitIndex
<1>2. IInv /\ [Next]_vars => [Index!Next]_(Index!vars)
  BY NextIndex
<1> QED BY <1>1, <1>2, Invariance, PTL DEF Spec, ImplementsIndex, Index!Spec
=============================================================================
