-------------------------- MODULE ExtentTreeProofs --------------------------
(***************************************************************************)
(* Theorems about ExtentTree, for every depth and shape of the trees to    *)
(* start from, every width of logical blocks and of lengths.               *)
(*                                                                         *)
(* What resolve_extents and the two lookups compute is shown level by      *)
(* level: the lowest level where it fails contradicts the step there.      *)
(***************************************************************************)
EXTENDS ExtentTree, BitmapProofs

\* The values of a computation that goes on from level to level, from `first',
\* by a function `step' for each level.
Levels(f, first, step, m) == f = [d \in 0..m |-> IF d = 0 THEN first ELSE step[d][f[d - 1]]]

\* Such a computation exists, and its values are in the set that the steps keep.
LEMMA LevelsExist ==
    ASSUME NEW V, NEW first \in V, NEW n \in Nat, NEW step \in [1..n -> [V -> V]], NEW m \in 0..n
    PROVE  \E f \in [0..m -> V] : Levels(f, first, step, m)
<1> DEFINE Bad == {k \in 0..n : ~ \E f \in [0..k -> V] : Levels(f, first, step, k)}
<1>1. SUFFICES ASSUME Bad # {} PROVE FALSE
  OBVIOUS
<1>2. PICK k \in Bad : \A j \in Bad : k <= j
  <2>1. Bad \in SUBSET Nat
    OBVIOUS
  <2> HIDE DEF Bad
  <2>2. QED
    BY <1>1, <2>1, MinExists
<1>3. CASE k = 0
  <2> DEFINE f == [d \in 0..0 |-> first]
  <2>1. f \in [0..0 -> V] /\ \A d \in 0..0 : d = 0
    OBVIOUS
  <2>2. Levels(f, first, step, 0)
    BY <2>1 DEF Levels
  <2>3. QED
    BY <1>2, <1>3, <2>1, <2>2
<1>4. CASE k # 0
  <2>1. k \in 1..n /\ k - 1 \in 0..n /\ k - 1 < k
    BY <1>2, <1>4
  <2>2. k - 1 \notin Bad
    BY <1>2, <2>1
  <2>3. PICK g \in [0..(k - 1) -> V] : Levels(g, first, step, k - 1)
    BY <2>1, <2>2
  <2> DEFINE f == [d \in 0..k |-> IF d < k THEN g[d] ELSE step[k][g[k - 1]]]
  <2>4. g[k - 1] \in V /\ step[k] \in [V -> V]
    BY <2>1, <2>3
  <2>5. step[k][g[k - 1]] \in V
    BY <2>4
  <2>6. f \in [0..k -> V]
    BY <2>1, <2>5
  <2>7. \A d \in 0..(k - 1) : g[d] = IF d = 0 THEN first ELSE step[d][g[d - 1]]
    BY <2>3 DEF Levels
  <2>8. \A d \in 0..k : f[d] = IF d = 0 THEN first ELSE step[d][f[d - 1]]
    <3> SUFFICES ASSUME NEW d \in 0..k
                 PROVE  f[d] = IF d = 0 THEN first ELSE step[d][f[d - 1]]
      OBVIOUS
    <3>1. CASE d = k
      BY <2>1, <3>1
    <3>2. CASE d # k /\ d # 0
      <4>1. d \in 0..(k - 1) /\ d < k /\ d - 1 \in 0..k /\ d - 1 < k
        BY <2>1, <3>2
      <4>2. QED
        BY <2>7, <3>2, <4>1
    <3>3. CASE d = 0
      BY <2>1, <2>7, <3>3
    <3>4. QED
      BY <3>1, <3>2, <3>3
  <2>9. f = [d \in 0..k |-> f[d]]
    OBVIOUS
  <2> HIDE DEF f
  <2>10. Levels(f, first, step, k)
    BY <2>8, <2>9 DEF Levels
  <2>11. QED
    BY <1>2, <2>6, <2>10
<1>5. QED
  BY <1>3, <1>4

-----------------------------------------------------------------------------
(* FlattenSeq, which tree and directory are read with.                     *)

LEMMA ConcatIs ==
    ASSUME NEW X, NEW a \in Seq(X), NEW b \in Seq(X)
    PROVE  /\ a \o b \in Seq(X)
           /\ Len(a \o b) = Len(a) + Len(b)
           /\ \A k \in 1..Len(a) : (a \o b)[k] = a[k]
           /\ \A k \in 1..Len(b) : (a \o b)[Len(a) + k] = b[k]
           /\ \A k \in 1..Len(a \o b) : k > Len(a) => k - Len(a) \in 1..Len(b) /\ (a \o b)[k] = b[k - Len(a)]
  OBVIOUS

LEMMA ElementsOf ==
    ASSUME NEW S, NEW s \in Seq(S)
    PROVE  DOMAIN s = 1..Len(s) /\ Len(s) \in Nat /\ \A i \in 1..Len(s) : s[i] \in S
  OBVIOUS

\* The concatenations of the first i sequences of ss.
Grows(f, ss, X) ==
    /\ f \in [0..Len(ss) -> Seq(X)]
    /\ f[0] = <<>>
    /\ \A i \in 1..Len(ss) : f[i] = f[i - 1] \o ss[i]

Concats(g, ss) == g = [i \in 1..Len(ss) |-> IF i = 1 THEN ss[i] ELSE g[i - 1] \o ss[i]]

\* FlattenSeq's recursion has a solution.
LEMMA ConcatsExist ==
    ASSUME NEW X, NEW ss \in Seq(Seq(X))
    PROVE  \E g : Concats(g, ss)
<1> DEFINE n == Len(ss)
           V == Seq(X)
           step == [i \in 1..n |-> [v \in V |-> v \o ss[i]]]
<1>1. n \in Nat /\ <<>> \in V /\ \A i \in 1..n : ss[i] \in V
  OBVIOUS
<1>2. \A i \in 1..n, v \in V : v \o ss[i] \in V
  BY <1>1, ConcatIs
<1>3. step \in [1..n -> [V -> V]]
  <2> HIDE DEF V, n
  <2>1. QED
    BY <1>2
<1>4. n \in 0..n
  BY <1>1
<1> HIDE DEF V, step
<1>5. PICK f \in [0..n -> V] : Levels(f, <<>>, step, n)
  BY <1>1, <1>3, <1>4, LevelsExist
<1> DEFINE g == [i \in 1..n |-> f[i]]
<1>6. \A d \in 0..n : f[d] = IF d = 0 THEN <<>> ELSE step[d][f[d - 1]]
  BY <1>5 DEF Levels
<1>7. f[0] = <<>>
  BY <1>1, <1>6
<1>8. \A i \in 1..n : f[i] = f[i - 1] \o ss[i]
  <2>1. SUFFICES ASSUME NEW i \in 1..n PROVE f[i] = f[i - 1] \o ss[i]
    OBVIOUS
  <2>2. i \in 0..n /\ i # 0 /\ i - 1 \in 0..n
    BY <1>1
  <2>3. f[i] = step[i][f[i - 1]] /\ f[i - 1] \in V
    BY <1>5, <1>6, <2>2
  <2>4. QED
    BY <2>3 DEF step
<1>9. \A i \in 1..n : g[i] = IF i = 1 THEN ss[i] ELSE g[i - 1] \o ss[i]
  <2>1. SUFFICES ASSUME NEW i \in 1..n
                 PROVE  g[i] = IF i = 1 THEN ss[i] ELSE g[i - 1] \o ss[i]
    OBVIOUS
  <2>2. CASE i = 1
    <3>0. f[i - 1] = <<>>
      BY <1>7, <2>2
    <3>1. f[1] = <<>> \o ss[1]
      BY <1>8, <2>2, <3>0
    <3>2. ss[1] \in Seq(X)
      BY <1>1, <2>2 DEF V
    <3>3. <<>> \o ss[1] = ss[1]
      BY <3>2
    <3>4. QED
      BY <2>2, <3>1, <3>3
  <2>3. CASE i # 1
    <3>1. i - 1 \in 1..n
      BY <1>1, <2>3
    <3>2. QED
      BY <1>8, <2>3, <3>1
  <2>4. QED
    BY <2>2, <2>3
<1>10. g = [i \in 1..n |-> g[i]]
  OBVIOUS
<1> HIDE DEF g
<1>11. g = [i \in 1..n |-> IF i = 1 THEN ss[i] ELSE g[i - 1] \o ss[i]]
  BY <1>9, <1>10
<1>12. QED
  BY <1>11, Zenon DEF Concats

LEMMA FlattenGrows ==
    ASSUME NEW X, NEW ss \in Seq(Seq(X))
    PROVE  \E f : Grows(f, ss, X) /\ FlattenSeq(ss) = f[Len(ss)]
<1> DEFINE n == Len(ss)
           g == CHOOSE h : Concats(h, ss)
           f == [i \in 0..n |-> IF i = 0 THEN <<>> ELSE g[i]]
<1>1. Concats(g, ss)
  BY ConcatsExist, Zenon
<1>2. FlattenSeq(ss) = IF n = 0 THEN ss ELSE g[n]
  BY Zenon DEF FlattenSeq, Concats
<1> HIDE DEF g
<1>3. n \in Nat /\ \A i \in 1..n : ss[i] \in Seq(X)
  OBVIOUS
<1>4. \A i \in 1..n : g[i] = IF i = 1 THEN ss[i] ELSE g[i - 1] \o ss[i]
  BY <1>1 DEF Concats
<1>5. \A i \in 1..n : f[i] = f[i - 1] \o ss[i]
  <2>1. SUFFICES ASSUME NEW i \in 1..n PROVE f[i] = f[i - 1] \o ss[i]
    OBVIOUS
  <2>2. CASE i = 1
    <3>1. ss[1] \in Seq(X) /\ f[0] = <<>> /\ f[1] = ss[1]
      BY <1>3, <1>4, <2>2
    <3>2. <<>> \o ss[1] = ss[1]
      BY <3>1
    <3>3. f[i - 1] = <<>> /\ f[i] = ss[1]
      BY <2>2, <3>1
    <3>4. f[i - 1] \o ss[i] = ss[1]
      BY <2>2, <3>2, <3>3
    <3>5. QED
      BY <3>3, <3>4
  <2>3. CASE i # 1
    <3>1. i - 1 \in 1..n /\ i - 1 # 0 /\ i - 1 \in 0..n /\ i \in 0..n /\ i # 0
      BY <1>3, <2>3
    <3>2. QED
      BY <1>4, <2>3, <3>1
  <2>4. QED
    BY <2>2, <2>3
<1>6. f[0] = <<>>
  BY <1>3
<1>7. f = [i \in 0..n |-> f[i]]
  OBVIOUS
<1>8. FlattenSeq(ss) = f[n]
  <2>1. CASE n = 0
    <3>1. ss = <<>>
      BY <2>1
    <3>2. QED
      BY <1>2, <1>6, <2>1, <3>1
  <2>2. CASE n # 0
    BY <1>2, <1>3, <2>2
  <2>3. QED
    BY <2>1, <2>2
<1> HIDE DEF f
<1>9. \A i \in 0..n : f[i] \in Seq(X)
  <2> DEFINE Bad == {i \in 0..n : f[i] \notin Seq(X)}
  <2>1. SUFFICES ASSUME Bad # {} PROVE FALSE
    OBVIOUS
  <2>2. PICK k \in Bad : \A j \in Bad : k <= j
    <3>1. Bad \in SUBSET Nat
      OBVIOUS
    <3> HIDE DEF Bad
    <3>2. QED
      BY <2>1, <3>1, MinExists
  <2>3. k # 0
    <3>1. <<>> \in Seq(X)
      OBVIOUS
    <3>2. QED
      BY <1>6, <2>2, <3>1
  <2>4. k \in 1..n /\ k - 1 \in 0..n /\ k - 1 < k
    BY <1>3, <2>2, <2>3
  <2>5. f[k - 1] \in Seq(X) /\ ss[k] \in Seq(X)
    BY <1>3, <2>2, <2>4
  <2>6. f[k] \in Seq(X)
    BY <1>5, <2>4, <2>5, ConcatIs
  <2>7. QED
    BY <2>2, <2>6
<1>10. f \in [0..n -> Seq(X)]
  BY <1>7, <1>9
<1>11. Grows(f, ss, X)
  BY <1>5, <1>6, <1>10 DEF Grows
<1>12. QED
  BY <1>8, <1>11

\* What comes out of the concatenation is what went in, in the same order.
Found(s, ss, m, k, i, j) == i \in 1..m /\ j \in 1..Len(ss[i]) /\ s[k] = ss[i][j]
InOrder(s, ss, m) ==
    /\ \A k \in 1..Len(s) : \E i, j : Found(s, ss, m, k, i, j)
    /\ \A i \in 1..m : \A j \in 1..Len(ss[i]) : \E k \in 1..Len(s) : s[k] = ss[i][j]
    /\ \A k1, k2 \in 1..Len(s) : k1 < k2 =>
        \E i1, j1, i2, j2 :
            /\ Found(s, ss, m, k1, i1, j1) /\ Found(s, ss, m, k2, i2, j2)
            /\ i1 < i2 \/ (i1 = i2 /\ j1 < j2)

LEMMA InOrderGrows ==
    ASSUME NEW X, NEW ss \in Seq(Seq(X)), NEW m \in 1..Len(ss),
           NEW s \in Seq(X), InOrder(s, ss, m - 1)
    PROVE  InOrder(s \o ss[m], ss, m)
<1> DEFINE r == s \o ss[m]
<1>1. m \in Nat /\ m - 1 \in Nat /\ ss[m] \in Seq(X) /\ Len(s) \in Nat
  OBVIOUS
<1>2. /\ r \in Seq(X) /\ Len(r) = Len(s) + Len(ss[m])
      /\ \A k \in 1..Len(s) : r[k] = s[k]
      /\ \A k \in 1..Len(ss[m]) : r[Len(s) + k] = ss[m][k]
      /\ \A k \in 1..Len(r) : k > Len(s) => k - Len(s) \in 1..Len(ss[m]) /\ r[k] = ss[m][k - Len(s)]
  BY <1>1, ConcatIs
<1> HIDE DEF r
<1>3. \A i, j : \A k \in 1..Len(s) : Found(s, ss, m - 1, k, i, j) => Found(r, ss, m, k, i, j) /\ i < m
  <2>1. SUFFICES ASSUME NEW i, NEW j, NEW k \in 1..Len(s), Found(s, ss, m - 1, k, i, j)
                 PROVE  Found(r, ss, m, k, i, j) /\ i < m
    OBVIOUS
  <2>2. i \in 1..m /\ i < m
    BY <1>1, <2>1 DEF Found
  <2>3. r[k] = s[k]
    BY <1>2
  <2>4. QED
    BY <2>1, <2>2, <2>3 DEF Found
<1>4. \A k \in 1..Len(r) : k > Len(s) => Found(r, ss, m, k, m, k - Len(s))
  <2>1. SUFFICES ASSUME NEW k \in 1..Len(r), k > Len(s)
                 PROVE  Found(r, ss, m, k, m, k - Len(s))
    OBVIOUS
  <2>2. k - Len(s) \in 1..Len(ss[m]) /\ r[k] = ss[m][k - Len(s)]
    BY <1>2, <2>1
  <2>3. m \in 1..m
    BY <1>1
  <2>4. QED
    BY <2>2, <2>3 DEF Found
<1>5. \A k \in 1..Len(r) : k \in 1..Len(s) \/ k > Len(s)
  BY <1>1, <1>2
<1>6. \A k \in 1..Len(r) : \E i, j : Found(r, ss, m, k, i, j)
  BY <1>3, <1>4, <1>5 DEF InOrder
<1>7. ASSUME NEW i \in 1..m, NEW j \in 1..Len(ss[i])
      PROVE  \E k \in 1..Len(r) : r[k] = ss[i][j]
  <2>1. CASE i = m
    <3>1. Len(s) + j \in 1..Len(r) /\ r[Len(s) + j] = ss[m][j]
      BY <1>1, <1>2, <1>7, <2>1
    <3>2. QED
      BY <2>1, <3>1
  <2>2. CASE i # m
    <3>1. i \in 1..(m - 1)
      BY <1>1, <2>2
    <3>2. PICK k \in 1..Len(s) : s[k] = ss[i][j]
      BY <3>1, <1>7 DEF InOrder
    <3>3. k \in 1..Len(r) /\ r[k] = s[k]
      BY <1>1, <1>2
    <3>4. QED
      BY <3>2, <3>3
  <2>3. QED
    BY <2>1, <2>2
<1>8. ASSUME NEW k1 \in 1..Len(r), NEW k2 \in 1..Len(r), k1 < k2
      PROVE  \E i1, j1, i2, j2 :
                /\ Found(r, ss, m, k1, i1, j1) /\ Found(r, ss, m, k2, i2, j2)
                /\ i1 < i2 \/ (i1 = i2 /\ j1 < j2)
  <2>1. CASE k2 \in 1..Len(s)
    <3>1. k1 \in 1..Len(s)
      BY <1>8, <2>1
    <3>2. PICK i1, j1, i2, j2 :
            /\ Found(s, ss, m - 1, k1, i1, j1) /\ Found(s, ss, m - 1, k2, i2, j2)
            /\ i1 < i2 \/ (i1 = i2 /\ j1 < j2)
      BY <1>8, <2>1, <3>1 DEF InOrder
    <3>3. QED
      BY <1>3, <2>1, <3>1, <3>2
  <2>2. CASE k2 > Len(s) /\ k1 \in 1..Len(s)
    <3>1. PICK i1, j1 : Found(s, ss, m - 1, k1, i1, j1)
      BY <2>2 DEF InOrder
    <3>2. Found(r, ss, m, k1, i1, j1) /\ i1 < m /\ Found(r, ss, m, k2, m, k2 - Len(s))
      BY <1>3, <1>4, <2>2, <3>1
    <3>3. QED
      BY <3>2
  <2>3. CASE k2 > Len(s) /\ k1 > Len(s)
    <3>1. Found(r, ss, m, k1, m, k1 - Len(s)) /\ Found(r, ss, m, k2, m, k2 - Len(s))
      BY <1>4, <2>3
    <3>2. k1 - Len(s) < k2 - Len(s)
      BY <1>1, <1>8
    <3>3. QED
      BY <3>1, <3>2
  <2>4. QED
    BY <1>5, <2>1, <2>2, <2>3
<1>9. InOrder(r, ss, m)
  BY <1>6, <1>7, <1>8 DEF InOrder
<1>10. QED
  BY <1>9 DEF r

LEMMA FlattenInOrder ==
    ASSUME NEW X, NEW ss \in Seq(Seq(X))
    PROVE  FlattenSeq(ss) \in Seq(X) /\ InOrder(FlattenSeq(ss), ss, Len(ss))
<1>1. PICK f : Grows(f, ss, X) /\ FlattenSeq(ss) = f[Len(ss)]
  BY FlattenGrows
<1> DEFINE n == Len(ss)
           Bad == {m \in 0..n : ~ InOrder(f[m], ss, m)}
<1>2. n \in Nat /\ n \in 0..n
  OBVIOUS
<1>3. /\ f \in [0..n -> Seq(X)] /\ f[0] = <<>>
      /\ \A i \in 1..n : f[i] = f[i - 1] \o ss[i]
  BY <1>1 DEF Grows
<1>4. SUFFICES ASSUME Bad # {} PROVE FALSE
  BY <1>1, <1>2, <1>3
<1>5. PICK m \in Bad : \A j \in Bad : m <= j
  <2>1. Bad \in SUBSET Nat
    OBVIOUS
  <2> HIDE DEF Bad
  <2>2. QED
    BY <1>4, <2>1, MinExists
<1>6. CASE m = 0
  <2>1. Len(f[0]) = 0 /\ \A i \in 1..0 : FALSE
    BY <1>3
  <2>2. InOrder(f[0], ss, 0)
    BY <2>1 DEF InOrder
  <2>3. QED
    BY <1>5, <1>6, <2>2
<1>7. CASE m # 0
  <2>1. m \in 1..n /\ m - 1 \in 0..n /\ m - 1 < m
    BY <1>5, <1>7
  <2>2. f[m - 1] \in Seq(X)
    BY <1>3, <2>1
  <2>3. InOrder(f[m - 1], ss, m - 1)
    <3>1. m - 1 \in Bad => m <= m - 1
      BY <1>5
    <3>2. QED
      BY <2>1, <3>1
  <2>4. InOrder(f[m - 1] \o ss[m], ss, m)
    BY <2>1, <2>2, <2>3, InOrderGrows
  <2>5. QED
    BY <1>3, <1>5, <2>1, <2>4
<1>8. QED
  BY <1>6, <1>7

-----------------------------------------------------------------------------
(* resolve_extents, level by level.                                        *)

Nodes(t) == Root \in DOMAIN t /\ \A p \in DOMAIN t : t[p] \in LeafNodes \cup IndexNodes(t)

\* parse_leaves and parse_indices return entries of their kind.
LEMMA Parsed ==
    ASSUME NEW t, Nodes(t), NEW p \in DOMAIN t
    PROVE  /\ t[p].depth \in 0..MaxDepth
           /\ ParseLeaves(t[p]) \in Seq(LeafEntries)
           /\ ParseIndices(t[p]) \in Seq([block : Nat, child : DOMAIN t])
           /\ t[p].depth = 0 => ParseLeaves(t[p]) = t[p].entries /\ ParseIndices(t[p]) = <<>>
           /\ t[p].depth # 0 => ParseIndices(t[p]) = t[p].entries /\ ParseLeaves(t[p]) = <<>>
<1>1. CASE t[p] \in LeafNodes
  <2>1. t[p].depth = 0 /\ t[p].entries \in Seq(LeafEntries)
    BY <1>1 DEF LeafNodes
  <2>2. <<>> \in Seq([block : Nat, child : DOMAIN t])
    OBVIOUS
  <2>3. QED
    BY <2>1, <2>2, LimitsAssumption DEF ParseLeaves, ParseIndices
<1>2. CASE t[p] \in IndexNodes(t)
  <2>1. t[p].depth \in 1..MaxDepth /\ t[p].entries \in Seq([block : Nat, child : DOMAIN t])
    BY <1>2 DEF IndexNodes
  <2>2. <<>> \in Seq(LeafEntries)
    OBVIOUS
  <2>3. t[p].depth \in 0..MaxDepth /\ t[p].depth # 0
    BY <2>1, LimitsAssumption
  <2>4. QED
    BY <2>1, <2>2, <2>3 DEF ParseLeaves, ParseIndices
<1>3. QED
  BY <1>1, <1>2 DEF Nodes

\* What the children of a node yield, when `f' is what the level below yields.
Children(t, f, p) ==
    LET indices == ParseIndices(t[p])
    IN  [i \in DOMAIN indices |-> f[indices[i].child]]

LEMMA ChildrenType ==
    ASSUME NEW t, Nodes(t), NEW p \in DOMAIN t, NEW X, NEW f \in [DOMAIN t -> Seq(X)]
    PROVE  /\ Children(t, f, p) \in Seq(Seq(X))
           /\ Len(Children(t, f, p)) = Len(ParseIndices(t[p]))
           /\ FlattenSeq(Children(t, f, p)) \in Seq(X)
<1> DEFINE indices == ParseIndices(t[p])
           S == [block : Nat, child : DOMAIN t]
<1>1. indices \in Seq(S)
  BY Parsed
<1>2. Children(t, f, p) = [i \in DOMAIN indices |-> f[indices[i].child]]
  BY DEF Children
<1> HIDE DEF indices
<1>3. DOMAIN indices = 1..Len(indices) /\ Len(indices) \in Nat
  BY <1>1
<1>4. \A i \in DOMAIN indices : indices[i].child \in DOMAIN t
  <2> HIDE DEF S
  <2>1. \A i \in DOMAIN indices : indices[i] \in S
    BY <1>1, ElementsOf
  <2> USE DEF S
  <2>2. QED
    BY <2>1
<1>5. \A i \in DOMAIN indices : f[indices[i].child] \in Seq(X)
  BY <1>4
<1>6. Children(t, f, p) \in Seq(Seq(X)) /\ Len(Children(t, f, p)) = Len(indices)
  BY <1>2, <1>3, <1>5
<1>7. FlattenSeq(Children(t, f, p)) \in Seq(X)
  BY <1>6, FlattenInOrder
<1>8. QED
  BY <1>6, <1>7 DEF indices

\* The recursion of resolve_extents, and what its solutions are.
Resolves(F, t) ==
    F = [d \in 0..MaxDepth |-> [place \in DOMAIN t |->
            IF d = 0 THEN ParseLeaves(t[place])
            ELSE LET indices == ParseIndices(t[place])
                 IN  FlattenSeq([i \in DOMAIN indices |-> F[d - 1][indices[i].child]])]]

LeafLevels(F, t) ==
    /\ F \in [0..MaxDepth -> [DOMAIN t -> Seq(LeafEntries)]]
    /\ \A p \in DOMAIN t : F[0][p] = ParseLeaves(t[p])
    /\ \A d \in 1..MaxDepth : \A p \in DOMAIN t :
        F[d][p] = FlattenSeq(Children(t, F[d - 1], p))

LEMMA ResolvesExists ==
    ASSUME NEW t, Nodes(t)
    PROVE  \E F : Resolves(F, t)
<1> DEFINE V == [DOMAIN t -> Seq(LeafEntries)]
           first == [p \in DOMAIN t |-> ParseLeaves(t[p])]
           step == [d \in 1..MaxDepth |-> [v \in V |->
                       [p \in DOMAIN t |-> FlattenSeq(Children(t, v, p))]]]
<1>1. MaxDepth \in Nat /\ MaxDepth \in 0..MaxDepth
  BY LimitsAssumption
<1>2. first \in V
  BY Parsed
<1>3. \A v \in V : [p \in DOMAIN t |-> FlattenSeq(Children(t, v, p))] \in V
  BY ChildrenType
<1>4. step \in [1..MaxDepth -> [V -> V]]
  <2> HIDE DEF V
  <2>1. QED
    BY <1>3
<1> HIDE DEF V, first, step
<1>5. PICK F \in [0..MaxDepth -> V] : Levels(F, first, step, MaxDepth)
  BY <1>1, <1>2, <1>4, LevelsExist
<1>6. \A d \in 0..MaxDepth : F[d] = IF d = 0 THEN first ELSE step[d][F[d - 1]]
  BY <1>5 DEF Levels
<1> DEFINE row(d) == [place \in DOMAIN t |->
               IF d = 0 THEN ParseLeaves(t[place])
               ELSE LET indices == ParseIndices(t[place])
                    IN  FlattenSeq([i \in DOMAIN indices |-> F[d - 1][indices[i].child]])]
<1>7. ASSUME NEW d \in 0..MaxDepth
      PROVE  F[d] = row(d)
  <2>1. CASE d = 0
    BY <1>1, <1>6, <2>1 DEF first
  <2>2. CASE d # 0
    <3>1. d \in 1..MaxDepth /\ d - 1 \in 0..MaxDepth
      BY <1>1, <2>2
    <3>2. F[d - 1] \in V
      BY <1>5, <3>1
    <3>3. F[d] = step[d][F[d - 1]]
      BY <1>6, <2>2
    <3>4. F[d] = [p \in DOMAIN t |-> FlattenSeq(Children(t, F[d - 1], p))]
      BY <3>1, <3>2, <3>3 DEF step
    <3>5. QED
      BY <2>2, <3>4 DEF Children
  <2>3. QED
    BY <2>1, <2>2
<1>8. F = [d \in 0..MaxDepth |-> F[d]]
  BY <1>5
<1> HIDE DEF row
<1>9. F = [d \in 0..MaxDepth |-> row(d)]
  BY <1>7, <1>8
<1>10. Resolves(F, t)
  BY <1>9, Zenon DEF row, Resolves
<1>11. QED
  BY <1>10

LEMMA ResolvedLevels ==
    ASSUME NEW t, Nodes(t), NEW F, Resolves(F, t)
    PROVE  LeafLevels(F, t)
<1> DEFINE V == [DOMAIN t -> Seq(LeafEntries)]
           row(d) == [place \in DOMAIN t |->
               IF d = 0 THEN ParseLeaves(t[place])
               ELSE LET indices == ParseIndices(t[place])
                    IN  FlattenSeq([i \in DOMAIN indices |-> F[d - 1][indices[i].child]])]
<1>1. F = [d \in 0..MaxDepth |-> row(d)]
  BY Zenon DEF Resolves
<1> HIDE DEF row
<1>2. \A d \in 0..MaxDepth : F[d] = row(d)
  BY <1>1
<1>3. MaxDepth \in Nat /\ 0 \in 0..MaxDepth
  BY LimitsAssumption
<1>4. F[0] = [p \in DOMAIN t |-> ParseLeaves(t[p])]
  BY <1>2, <1>3 DEF row
<1>5. \A d \in 1..MaxDepth : F[d] = [p \in DOMAIN t |-> FlattenSeq(Children(t, F[d - 1], p))]
  BY <1>2, <1>3 DEF row, Children
<1>6. \A d \in 0..MaxDepth : F[d] \in V
  <2> DEFINE Bad == {d \in 0..MaxDepth : F[d] \notin V}
  <2>1. SUFFICES ASSUME Bad # {} PROVE FALSE
    OBVIOUS
  <2>2. PICK k \in Bad : \A j \in Bad : k <= j
    <3>1. Bad \in SUBSET Nat
      OBVIOUS
    <3> HIDE DEF Bad
    <3>2. QED
      BY <2>1, <3>1, MinExists
  <2>3. F[0] \in V
    <3>1. \A p \in DOMAIN t : ParseLeaves(t[p]) \in Seq(LeafEntries)
      BY Parsed
    <3>2. QED
      BY <1>4, <3>1
  <2>4. k \in 1..MaxDepth /\ k - 1 \in 0..MaxDepth /\ ~ (k <= k - 1)
    BY <1>3, <2>2, <2>3
  <2>5. F[k - 1] \in V
    BY <2>2, <2>4
  <2>6. F[k] \in V
    <3>1. \A p \in DOMAIN t : FlattenSeq(Children(t, F[k - 1], p)) \in Seq(LeafEntries)
      BY <2>5, ChildrenType
    <3>2. QED
      BY <1>5, <2>4, <3>1
  <2>7. QED
    BY <2>2, <2>6
<1>7. F \in [0..MaxDepth -> V]
  BY <1>1, <1>6
<1>8. QED
  BY <1>4, <1>5, <1>7 DEF LeafLevels

LEMMA ResolveExtentsIs ==
    ASSUME NEW t, Nodes(t)
    PROVE  \E F : LeafLevels(F, t) /\ ResolveExtents(t) = F[t[Root].depth][Root]
<1> DEFINE F == CHOOSE G : Resolves(G, t)
<1>1. Resolves(F, t)
  BY ResolvesExists, Zenon
<1>2. ResolveExtents(t) = F[t[Root].depth][Root]
  BY Zenon DEF ResolveExtents, Resolves
<1>3. LeafLevels(F, t)
  <2> HIDE DEF F
  <2>1. QED
    BY <1>1, ResolvedLevels
<1>4. QED
  BY <1>2, <1>3

-----------------------------------------------------------------------------
(* The leaves below a node are in order.                                   *)

LeafEnd(e) == e.block + TrueCount(e)

LEMMA LeafCounts ==
    ASSUME NEW e \in LeafEntries
    PROVE  /\ e.block \in Nat /\ e.start \in Nat /\ e.len \in Nat \ {0}
           /\ TrueCount(e) \in Nat \ {0}
           /\ LeafEnd(e) \in Nat /\ e.block < LeafEnd(e)
           /\ BlockCount(e) = IF e.len = LongBit THEN 0 ELSE TrueCount(e)
<1>1. e.block \in Nat /\ e.start \in Nat /\ e.len \in 1..(2 * LongBit - 1)
  BY DEF LeafEntries
<1>2. LongBit \in Nat /\ LongBit > 1
  BY LimitsAssumption
<1>3. TrueCount(e) \in Nat \ {0}
  BY <1>1, <1>2 DEF TrueCount
<1>4. BlockCount(e) = IF e.len = LongBit THEN 0 ELSE TrueCount(e)
  BY <1>1, <1>2 DEF TrueCount, BlockCount
<1>5. QED
  BY <1>1, <1>2, <1>3, <1>4 DEF LeafEnd

LEMMA OrderedNodes ==
    ASSUME NEW t, NEW span, Ordered(t, span)
    PROVE  Nodes(t)
  BY DEF Ordered, OrderedNode, Nodes

LEMMA SpanOf ==
    ASSUME NEW t, NEW span, Ordered(t, span), NEW p \in DOMAIN t
    PROVE  /\ span[p].from \in Nat /\ span[p].to \in Nat
           /\ span[p].from <= span[p].to /\ span[p].to < LogicalLimit
<1>1. span[p] \in [from : 0..(LogicalLimit - 1), to : 0..(LogicalLimit - 1)]
  BY DEF Ordered, Spans
<1>2. span[p].from <= span[p].to
  BY DEF Ordered, OrderedNode
<1>3. LogicalLimit \in Nat
  BY LimitsAssumption
<1>4. QED
  BY <1>1, <1>2, <1>3

\* A child's leaves are a part of its parent's.
LEMMA ChildOf ==
    ASSUME NEW t, NEW span, Ordered(t, span), NEW p \in DOMAIN t, t[p].depth # 0,
           NEW i \in 1..Len(t[p].entries), NEW c, c = t[p].entries[i].child
    PROVE  /\ c \in DOMAIN t
           /\ t[c].depth = t[p].depth - 1
           /\ span[c].from = t[p].entries[i].block
           /\ span[p].from <= span[c].from /\ span[c].to <= span[p].to
           /\ \A j \in 1..Len(t[p].entries) : i < j => span[c].to <= t[p].entries[j].block
<1> DEFINE S == [block : Nat, child : DOMAIN t]
<1>1. t[p].entries \in Seq(S)
  BY OrderedNodes, Parsed
<1> HIDE DEF S
<1>2. DOMAIN t[p].entries = 1..Len(t[p].entries) /\ t[p].entries[i] \in S
  BY <1>1, ElementsOf
<1>3. c \in DOMAIN t
  BY <1>2 DEF S
<1>4. End(t, span, p, i) = span[c].to
  BY DEF End
<1>5. OrderedNode(t, span, p)
  BY DEF Ordered
<1>6. QED
  BY <1>2, <1>3, <1>4, <1>5 DEF OrderedNode

Part(L, from, to) ==
    /\ \A k \in 1..Len(L) : from <= L[k].block /\ LeafEnd(L[k]) <= to
    /\ \A k1, k2 \in 1..Len(L) : k1 < k2 => LeafEnd(L[k1]) <= L[k2].block

\* Parts that follow each other make a whole.
PartsInOrder(ss, a, b, from, to) ==
    /\ \A i \in 1..Len(ss) : Part(ss[i], a[i], b[i]) /\ from <= a[i] /\ b[i] <= to
    /\ \A i, j \in 1..Len(ss) : i < j => b[i] <= a[j]

LEMMA FlattenPart ==
    ASSUME NEW ss \in Seq(Seq(LeafEntries)), NEW from \in Nat, NEW to \in Nat,
           NEW a \in [1..Len(ss) -> Nat], NEW b \in [1..Len(ss) -> Nat],
           PartsInOrder(ss, a, b, from, to)
    PROVE  Part(FlattenSeq(ss), from, to)
<1> DEFINE s == FlattenSeq(ss)
           n == Len(ss)
<1>1. s \in Seq(LeafEntries) /\ InOrder(s, ss, n)
  BY FlattenInOrder
<1>2. \A i \in 1..n : ss[i] \in Seq(LeafEntries)
  BY ElementsOf
<1>3. \A i \in 1..n, j \in Nat : j \in 1..Len(ss[i]) => ss[i][j] \in LeafEntries
  BY <1>2, ElementsOf
<1>4. \A i \in 1..n, j \in Nat : j \in 1..Len(ss[i]) =>
        LeafEnd(ss[i][j]) \in Nat /\ ss[i][j].block \in Nat
  BY <1>3, LeafCounts
<1> HIDE DEF s
<1>5. ASSUME NEW k \in 1..Len(s)
      PROVE  from <= s[k].block /\ LeafEnd(s[k]) <= to
  <2>1. PICK i, j : Found(s, ss, n, k, i, j)
    BY <1>1 DEF InOrder
  <2>2. i \in 1..n /\ j \in 1..Len(ss[i]) /\ s[k] = ss[i][j] /\ j \in Nat
    BY <2>1 DEF Found
  <2>3. /\ a[i] <= ss[i][j].block /\ LeafEnd(ss[i][j]) <= b[i]
        /\ from <= a[i] /\ b[i] <= to
    BY <2>2 DEF PartsInOrder, Part
  <2>4. a[i] \in Nat /\ b[i] \in Nat /\ LeafEnd(s[k]) \in Nat /\ s[k].block \in Nat
    BY <1>4, <2>2
  <2>5. a[i] <= s[k].block /\ LeafEnd(s[k]) <= b[i]
    BY <2>2, <2>3
  <2> HIDE DEF n
  <2>6. QED
    BY <2>3, <2>4, <2>5
<1>6. ASSUME NEW k1 \in 1..Len(s), NEW k2 \in 1..Len(s), k1 < k2
      PROVE  LeafEnd(s[k1]) <= s[k2].block
  <2>1. PICK i1, j1, i2, j2 :
          /\ Found(s, ss, n, k1, i1, j1) /\ Found(s, ss, n, k2, i2, j2)
          /\ i1 < i2 \/ (i1 = i2 /\ j1 < j2)
    BY <1>1, <1>6 DEF InOrder
  <2>2. /\ i1 \in 1..n /\ j1 \in 1..Len(ss[i1]) /\ s[k1] = ss[i1][j1] /\ j1 \in Nat
        /\ i2 \in 1..n /\ j2 \in 1..Len(ss[i2]) /\ s[k2] = ss[i2][j2] /\ j2 \in Nat
    BY <2>1 DEF Found
  <2>3. LeafEnd(s[k1]) \in Nat /\ s[k2].block \in Nat
    BY <1>4, <2>2
  <2>4. CASE i1 < i2
    <3>1. LeafEnd(ss[i1][j1]) <= b[i1] /\ a[i2] <= ss[i2][j2].block /\ b[i1] <= a[i2]
      BY <2>2, <2>4 DEF PartsInOrder, Part
    <3>2. b[i1] \in Nat /\ a[i2] \in Nat
      BY <2>2
    <3>3. LeafEnd(s[k1]) <= b[i1] /\ a[i2] <= s[k2].block
      BY <2>2, <3>1
    <3>4. PICK x, y : x = LeafEnd(s[k1]) /\ y = s[k2].block
      OBVIOUS
    <3>5. /\ x \in Nat /\ b[i1] \in Nat /\ a[i2] \in Nat /\ y \in Nat
          /\ x <= b[i1] /\ b[i1] <= a[i2] /\ a[i2] <= y
      BY <2>3, <3>1, <3>2, <3>3, <3>4
    <3>6. x <= y
      BY <3>5
    <3>7. QED
      BY <3>4, <3>6
  <2>5. CASE i1 = i2 /\ j1 < j2
    <3>1. LeafEnd(ss[i1][j1]) <= ss[i1][j2].block
      BY <2>2, <2>5 DEF PartsInOrder, Part
    <3>2. QED
      BY <2>2, <2>5, <3>1
  <2>6. QED
    BY <2>1, <2>4, <2>5
<1>7. QED
  BY <1>5, <1>6 DEF Part, s

\* The leaves of a node of the bottom level.
LEMMA LeafNodePart ==
    ASSUME NEW t, NEW span, Ordered(t, span), NEW p \in DOMAIN t, t[p].depth = 0
    PROVE  Part(ParseLeaves(t[p]), span[p].from, span[p].to)
<1>1. t[p].entries \in Seq(LeafEntries) /\ ParseLeaves(t[p]) = t[p].entries
  BY OrderedNodes, Parsed
<1>2. DOMAIN t[p].entries = 1..Len(t[p].entries)
  BY <1>1, ElementsOf
<1>3. \A i : End(t, span, p, i) = LeafEnd(t[p].entries[i])
  BY DEF End, LeafEnd
<1>4. OrderedNode(t, span, p)
  BY DEF Ordered
<1>5. QED
  BY <1>1, <1>2, <1>3, <1>4 DEF OrderedNode, Part

\* What a node of an upper level yields is what its children do.
Yields(ss, t, F, p, d) ==
    /\ ss \in Seq(Seq(LeafEntries))
    /\ Len(ss) = Len(t[p].entries)
    /\ \A i \in 1..Len(ss) : ss[i] = F[d - 1][t[p].entries[i].child]
    /\ F[d][p] = FlattenSeq(ss)

LEMMA LevelOf ==
    ASSUME NEW t, Nodes(t), NEW F, LeafLevels(F, t),
           NEW p \in DOMAIN t, t[p].depth # 0, NEW d, d = t[p].depth
    PROVE  d \in 1..MaxDepth /\ d - 1 \in 0..MaxDepth /\ \E ss : Yields(ss, t, F, p, d)
<1>1. d \in 1..MaxDepth /\ d - 1 \in 0..MaxDepth
  <2>1. t[p].depth \in 0..MaxDepth /\ MaxDepth \in Nat
    BY Parsed, LimitsAssumption
  <2>2. QED
    BY <2>1
<1> DEFINE es == t[p].entries
           f == F[d - 1]
           ss == Children(t, f, p)
<1>2. f \in [DOMAIN t -> Seq(LeafEntries)]
  BY <1>1 DEF LeafLevels
<1>3. ParseIndices(t[p]) = es
  BY Parsed
<1>4. ss \in Seq(Seq(LeafEntries)) /\ Len(ss) = Len(es)
  BY <1>2, <1>3, ChildrenType
<1>5. F[d][p] = FlattenSeq(ss)
  BY <1>1 DEF LeafLevels
<1>6. \A i \in 1..Len(ss) : ss[i] = f[es[i].child]
  <2>1. DOMAIN ss = 1..Len(ss)
    BY <1>4, ElementsOf
  <2>2. ss = [i \in DOMAIN es |-> f[es[i].child]]
    BY <1>3 DEF Children
  <2>3. QED
    BY <2>1, <2>2
<1> HIDE DEF ss
<1>7. Yields(ss, t, F, p, d)
  BY <1>4, <1>5, <1>6 DEF Yields
<1>8. QED
  BY <1>1, <1>7

LEMMA LeavesInOrder ==
    ASSUME NEW t, NEW span, Ordered(t, span), NEW F, LeafLevels(F, t), NEW p \in DOMAIN t
    PROVE  Part(F[t[p].depth][p], span[p].from, span[p].to)
<1> DEFINE Bad == {d \in 0..MaxDepth : \E q \in DOMAIN t :
                      t[q].depth = d /\ ~ Part(F[d][q], span[q].from, span[q].to)}
<1>1. Nodes(t) /\ MaxDepth \in Nat
  BY OrderedNodes, LimitsAssumption
<1>2. t[p].depth \in 0..MaxDepth
  BY <1>1, Parsed
<1>3. SUFFICES ASSUME Bad # {} PROVE FALSE
  BY <1>2
<1>4. PICK d \in Bad : \A j \in Bad : d <= j
  <2>1. Bad \in SUBSET Nat
    OBVIOUS
  <2> HIDE DEF Bad
  <2>2. QED
    BY <1>3, <2>1, MinExists
<1>5. PICK q \in DOMAIN t : t[q].depth = d /\ ~ Part(F[d][q], span[q].from, span[q].to)
  BY <1>4
<1>6. d # 0
  BY <1>5, LeafNodePart DEF LeafLevels
<1> DEFINE es == t[q].entries
           f == F[d - 1]
           n == Len(es)
           a == [i \in 1..n |-> span[es[i].child].from]
           b == [i \in 1..n |-> span[es[i].child].to]
<1>7. d \in 1..MaxDepth /\ d - 1 \in 0..MaxDepth /\ \E ss : Yields(ss, t, F, q, d)
  BY <1>1, <1>5, <1>6, LevelOf
<1>8. \A r \in DOMAIN t : t[r].depth = d - 1 => Part(f[r], span[r].from, span[r].to)
  <2>1. d - 1 \notin Bad
    <3>1. d - 1 \in Bad => d <= d - 1
      BY <1>4
    <3>2. QED
      BY <1>7, <3>1
  <2>2. QED
    BY <1>7, <2>1
<1>9. PICK ss \in Seq(Seq(LeafEntries)) :
        /\ Len(ss) = n
        /\ \A i \in 1..Len(ss) : ss[i] = f[es[i].child]
        /\ F[d][q] = FlattenSeq(ss)
  BY <1>7 DEF Yields
<1>10. \A i \in 1..n :
          /\ es[i].child \in DOMAIN t
          /\ t[es[i].child].depth = d - 1
          /\ span[es[i].child].from = es[i].block
          /\ span[q].from <= span[es[i].child].from /\ span[es[i].child].to <= span[q].to
          /\ \A j \in 1..n : i < j => span[es[i].child].to <= es[j].block
  BY <1>5, <1>6, ChildOf
<1>11. /\ \A i \in 1..n : span[es[i].child].from \in Nat /\ span[es[i].child].to \in Nat
       /\ span[q].from \in Nat /\ span[q].to \in Nat
  BY <1>10, SpanOf
<1>12. a \in [1..n -> Nat] /\ b \in [1..n -> Nat]
  BY <1>11
<1> HIDE DEF f
<1>13. PartsInOrder(ss, a, b, span[q].from, span[q].to)
  <2>1. \A i \in 1..n : Part(ss[i], a[i], b[i])
    BY <1>8, <1>9, <1>10
  <2>2. \A i \in 1..n : span[q].from <= a[i] /\ b[i] <= span[q].to
    BY <1>10
  <2>3. \A i, j \in 1..n : i < j => b[i] <= a[j]
    BY <1>10
  <2> HIDE DEF a, b
  <2>4. QED
    BY <1>9, <2>1, <2>2, <2>3 DEF PartsInOrder
<1> HIDE DEF a, b, n
<1>14. Part(FlattenSeq(ss), span[q].from, span[q].to)
  BY <1>9, <1>11, <1>12, <1>13, FlattenPart
<1>15. QED
  BY <1>5, <1>9, <1>14

-----------------------------------------------------------------------------
(* resolve_extents yields all leaves and no others.                        *)

LEMMA ToSetIs ==
    ASSUME NEW X, NEW s \in Seq(X), NEW e
    PROVE  e \in ToSet(s) <=> \E k \in 1..Len(s) : s[k] = e
<1>1. DOMAIN s = 1..Len(s)
  BY ElementsOf
<1>2. QED
  BY <1>1 DEF ToSet

LEMMA YieldedLeaves ==
    ASSUME NEW ss, NEW t, NEW F, NEW p, NEW d, Yields(ss, t, F, p, d), NEW e
    PROVE  e \in ToSet(F[d][p])
             <=> \E i \in 1..Len(t[p].entries) : e \in ToSet(F[d - 1][t[p].entries[i].child])
<1> DEFINE s == F[d][p]
           n == Len(ss)
<1>1. /\ ss \in Seq(Seq(LeafEntries)) /\ n = Len(t[p].entries)
      /\ \A i \in 1..n : ss[i] = F[d - 1][t[p].entries[i].child]
      /\ s = FlattenSeq(ss)
  BY DEF Yields
<1>2. s \in Seq(LeafEntries) /\ InOrder(s, ss, n)
  BY <1>1, FlattenInOrder
<1>3. \A i \in 1..n : ss[i] \in Seq(LeafEntries)
  BY <1>1, ElementsOf
<1> HIDE DEF s
<1>4. ASSUME e \in ToSet(s)
      PROVE  \E i \in 1..n : e \in ToSet(ss[i])
  <2>1. PICK k \in 1..Len(s) : s[k] = e
    BY <1>2, <1>4, ToSetIs
  <2>2. PICK i, j : Found(s, ss, n, k, i, j)
    BY <1>2 DEF InOrder
  <2>3. i \in 1..n /\ j \in 1..Len(ss[i]) /\ ss[i][j] = e
    BY <2>1, <2>2 DEF Found
  <2>4. e \in ToSet(ss[i])
    BY <1>3, <2>3, ToSetIs
  <2>5. QED
    BY <2>3, <2>4
<1>5. ASSUME NEW i \in 1..n, e \in ToSet(ss[i])
      PROVE  e \in ToSet(s)
  <2>1. PICK j \in 1..Len(ss[i]) : ss[i][j] = e
    BY <1>3, <1>5, ToSetIs
  <2>2. \E k \in 1..Len(s) : s[k] = ss[i][j]
    BY <1>2 DEF InOrder
  <2>3. QED
    BY <1>2, <2>1, <2>2, ToSetIs
<1>6. e \in ToSet(s) <=> \E i \in 1..n : e \in ToSet(ss[i])
  BY <1>4, <1>5
<1>7. QED
  BY <1>1, <1>6 DEF s

LEMMA Yielded ==
    ASSUME NEW t, NEW F, NEW p, NEW d, NEW ss, Yields(ss, t, F, p, d)
    PROVE  \A e : e \in ToSet(F[d][p])
             <=> \E i \in 1..Len(t[p].entries) : e \in ToSet(F[d - 1][t[p].entries[i].child])
<1>1. SUFFICES ASSUME NEW e
               PROVE  e \in ToSet(F[d][p])
             <=> \E i \in 1..Len(t[p].entries) : e \in ToSet(F[d - 1][t[p].entries[i].child])
  OBVIOUS
<1>2. QED
  BY YieldedLeaves

\* Nothing but leaf entries comes out ...
LEMMA LeavesAreTrue ==
    ASSUME NEW t, NEW span, Ordered(t, span), NEW F, LeafLevels(F, t), NEW p \in DOMAIN t
    PROVE  ToSet(F[t[p].depth][p]) \subseteq TrueLeaves(t)
<1> DEFINE Bad == {d \in 0..MaxDepth : \E q \in DOMAIN t :
                      t[q].depth = d /\ ~ (ToSet(F[d][q]) \subseteq TrueLeaves(t))}
<1>1. Nodes(t) /\ MaxDepth \in Nat
  BY OrderedNodes, LimitsAssumption
<1>2. t[p].depth \in 0..MaxDepth
  BY <1>1, Parsed
<1>3. SUFFICES ASSUME Bad # {} PROVE FALSE
  BY <1>2
<1>4. PICK d \in Bad : \A j \in Bad : d <= j
  <2>1. Bad \in SUBSET Nat
    OBVIOUS
  <2> HIDE DEF Bad
  <2>2. QED
    BY <1>3, <2>1, MinExists
<1>5. PICK q \in DOMAIN t : t[q].depth = d /\ ~ (ToSet(F[d][q]) \subseteq TrueLeaves(t))
  BY <1>4
<1>6. CASE d = 0
  <2>1. F[0][q] = t[q].entries
    BY <1>1, <1>5, <1>6, Parsed DEF LeafLevels
  <2>2. QED
    BY <1>5, <1>6, <2>1 DEF TrueLeaves
<1>7. CASE d # 0
  <2>1. d - 1 \in 0..MaxDepth /\ \E ss : Yields(ss, t, F, q, d)
    BY <1>1, <1>5, <1>7, LevelOf
  <2>2. d - 1 \notin Bad
    <3>1. d - 1 \in Bad => d <= d - 1
      BY <1>4
    <3>2. QED
      BY <2>1, <3>1
  <2>3. ASSUME NEW e \in ToSet(F[d][q]) PROVE e \in TrueLeaves(t)
    <3>1. PICK i \in 1..Len(t[q].entries) : e \in ToSet(F[d - 1][t[q].entries[i].child])
      BY <2>1, <2>3, YieldedLeaves
    <3>2. t[q].entries[i].child \in DOMAIN t /\ t[t[q].entries[i].child].depth = d - 1
      BY <1>5, <1>7, ChildOf
    <3>3. QED
      BY <2>1, <2>2, <3>1, <3>2
  <2>4. QED
    BY <1>5, <2>3
<1>8. QED
  BY <1>6, <1>7

\* ... and what comes out of a node comes out of the root.
LEMMA RootYieldsAll ==
    ASSUME NEW t, NEW span, Ordered(t, span), NEW F, LeafLevels(F, t), NEW p \in DOMAIN t
    PROVE  ToSet(F[t[p].depth][p]) \subseteq ToSet(F[t[Root].depth][Root])
<1> DEFINE all == ToSet(F[t[Root].depth][Root])
           Bad == {h \in 0..MaxDepth : \E q \in DOMAIN t :
                      h = MaxDepth - t[q].depth /\ ~ (ToSet(F[t[q].depth][q]) \subseteq all)}
<1>1. Nodes(t) /\ MaxDepth \in Nat
  BY OrderedNodes, LimitsAssumption
<1>2. \A q \in DOMAIN t : t[q].depth \in 0..MaxDepth
  BY <1>1, Parsed
<1>3. SUFFICES ASSUME Bad # {} PROVE FALSE
  <2>1. MaxDepth - t[p].depth \in 0..MaxDepth
    BY <1>1, <1>2
  <2>2. QED
    BY <2>1
<1>4. PICK h \in Bad : \A j \in Bad : h <= j
  <2>1. Bad \in SUBSET Nat
    OBVIOUS
  <2> HIDE DEF Bad
  <2>2. QED
    BY <1>3, <2>1, MinExists
<1>5. PICK q \in DOMAIN t :
        h = MaxDepth - t[q].depth /\ ~ (ToSet(F[t[q].depth][q]) \subseteq all)
  BY <1>4
<1>6. q # Root
  BY <1>5
<1>7. PICK r \in DOMAIN t :
        t[r].depth # 0 /\ \E i \in DOMAIN t[r].entries : t[r].entries[i].child = q
  BY <1>6 DEF Ordered
<1>8. PICK i \in 1..Len(t[r].entries) : t[r].entries[i].child = q
  <2>1. ParseIndices(t[r]) \in Seq([block : Nat, child : DOMAIN t]) /\ ParseIndices(t[r]) = t[r].entries
    BY <1>1, <1>7, Parsed
  <2>2. DOMAIN t[r].entries = 1..Len(t[r].entries)
    BY <2>1, ElementsOf
  <2>3. QED
    BY <1>7, <2>2
<1>9. t[q].depth = t[r].depth - 1
  BY <1>7, <1>8, ChildOf
<1>10. MaxDepth - t[r].depth \in 0..MaxDepth /\ MaxDepth - t[r].depth < h
  BY <1>1, <1>2, <1>5, <1>9
<1>11. MaxDepth - t[r].depth \notin Bad
  <2>1. MaxDepth - t[r].depth \in Bad => h <= MaxDepth - t[r].depth
    BY <1>4
  <2>2. QED
    BY <1>4, <1>10, <2>1
<1>12. ToSet(F[t[r].depth][r]) \subseteq all
  BY <1>10, <1>11
<1>13. \E ss : Yields(ss, t, F, r, t[r].depth)
  BY <1>1, <1>7, LevelOf
<1>14. ToSet(F[t[q].depth][q]) \subseteq ToSet(F[t[r].depth][r])
  BY <1>8, <1>9, <1>13, YieldedLeaves
<1>15. QED
  BY <1>5, <1>12, <1>14

\* What resolve_extents returns of a tree that the disk format allows.
LEMMA ResolvedTree ==
    ASSUME NEW t, NEW span, Ordered(t, span)
    PROVE  /\ ResolveExtents(t) \in Seq(LeafEntries)
           /\ Part(ResolveExtents(t), 0, span[Root].to)
           /\ ToSet(ResolveExtents(t)) = TrueLeaves(t)
<1>1. Nodes(t) /\ Root \in DOMAIN t
  BY OrderedNodes DEF Nodes
<1>2. PICK F : LeafLevels(F, t) /\ ResolveExtents(t) = F[t[Root].depth][Root]
  BY <1>1, ResolveExtentsIs
<1>3. ResolveExtents(t) \in Seq(LeafEntries)
  <2>1. t[Root].depth \in 0..MaxDepth
    BY <1>1, Parsed
  <2>2. QED
    BY <1>1, <1>2, <2>1 DEF LeafLevels
<1>4. Part(ResolveExtents(t), 0, span[Root].to)
  <2>1. span[Root].from = 0
    BY DEF Ordered
  <2>2. QED
    BY <1>1, <1>2, <2>1, LeavesInOrder
<1>5. ToSet(ResolveExtents(t)) \subseteq TrueLeaves(t)
  BY <1>1, <1>2, LeavesAreTrue
<1>6. ASSUME NEW e \in TrueLeaves(t)
      PROVE  e \in ToSet(ResolveExtents(t))
  <2>1. PICK p \in DOMAIN t : t[p].depth = 0 /\ e \in ToSet(t[p].entries)
    BY <1>6 DEF TrueLeaves
  <2>2. F[0][p] = t[p].entries
    BY <1>1, <1>2, <2>1, Parsed DEF LeafLevels
  <2>3. ToSet(F[t[p].depth][p]) \subseteq ToSet(ResolveExtents(t))
    BY <1>2, RootYieldsAll
  <2>4. QED
    BY <2>1, <2>2, <2>3
<1>7. QED
  BY <1>3, <1>4, <1>5, <1>6

-----------------------------------------------------------------------------
(* A root that is a leaf, which is what append_extent extends.             *)

\* It is the only node.
LEMMA LeafRootAlone ==
    ASSUME NEW t, NEW span, Ordered(t, span), t[Root].depth = 0
    PROVE  DOMAIN t = {Root}
<1> DEFINE Bad == {h \in 0..MaxDepth : \E q \in DOMAIN t \ {Root} : h = MaxDepth - t[q].depth}
<1>1. Nodes(t) /\ MaxDepth \in Nat /\ Root \in DOMAIN t
  BY OrderedNodes, LimitsAssumption DEF Nodes
<1>2. \A q \in DOMAIN t : t[q].depth \in 0..MaxDepth
  BY <1>1, Parsed
<1>3. SUFFICES ASSUME Bad # {} PROVE FALSE
  <2>1. \A q \in DOMAIN t \ {Root} : MaxDepth - t[q].depth \in 0..MaxDepth
    BY <1>1, <1>2
  <2>2. DOMAIN t \ {Root} = {}
    BY <2>1
  <2>3. QED
    BY <1>1, <2>2
<1>4. PICK h \in Bad : \A j \in Bad : h <= j
  <2>1. Bad \in SUBSET Nat
    OBVIOUS
  <2> HIDE DEF Bad
  <2>2. QED
    BY <1>3, <2>1, MinExists
<1>5. PICK q \in DOMAIN t \ {Root} : h = MaxDepth - t[q].depth
  BY <1>4
<1>6. PICK r \in DOMAIN t :
        t[r].depth # 0 /\ \E i \in DOMAIN t[r].entries : t[r].entries[i].child = q
  BY <1>5 DEF Ordered
<1>7. t[q].depth = t[r].depth - 1
  BY <1>6 DEF Ordered, OrderedNode
<1>8. r \in DOMAIN t \ {Root} /\ MaxDepth - t[r].depth \in 0..MaxDepth /\ MaxDepth - t[r].depth < h
  BY <1>1, <1>2, <1>5, <1>6, <1>7
<1>9. MaxDepth - t[r].depth \in Bad
  BY <1>8
<1>10. h <= MaxDepth - t[r].depth
  BY <1>4, <1>9
<1>11. QED
  BY <1>4, <1>8, <1>10

\* No extent has the one length that block_count gets wrong.
Plain(t) == \A e \in TrueLeaves(t) : ~Longest(e)
Full(t, span) == Whole(t, span) /\ Plain(t)

LEMMA FullLength ==
    ASSUME NEW t, NEW span, Ordered(t, span), Full(t, span), NEW p \in DOMAIN t, t[p].depth = 0,
           NEW i \in 1..Len(t[p].entries)
    PROVE  t[p].entries[i].len < LongBit
<1>1. t[p].entries \in Seq(LeafEntries)
  BY OrderedNodes, Parsed
<1>2. t[p].entries[i] \in ToSet(t[p].entries) /\ t[p].entries[i] \in LeafEntries
  BY <1>1, ToSetIs, ElementsOf
<1>3. t[p].entries[i] \in TrueLeaves(t)
  BY <1>2 DEF TrueLeaves
<1>4. t[p].entries[i].len # LongBit
  BY <1>3 DEF Full, Plain, Longest
<1>5. t[p].entries[i].len <= LongBit
  BY DEF Full, Whole
<1>6. QED
  BY <1>2, <1>4, <1>5, LeafCounts, LimitsAssumption

\* Extents that leave no hole and no block unwritten.
Chain(es, from, to) ==
    /\ \A i \in 1..Len(es) :
        es[i].block = (IF i = 1 THEN from ELSE LeafEnd(es[i - 1])) /\ es[i].len < LongBit
    /\ to = IF Len(es) = 0 THEN from ELSE LeafEnd(es[Len(es)])

OneSpan(to) == [p \in {Root} |-> [from |-> 0, to |-> to]]

LEMMA OneLeafOrdered ==
    ASSUME NEW t, DOMAIN t = {Root}, t[Root] \in LeafNodes,
           NEW to \in 0..(LogicalLimit - 1), Part(t[Root].entries, 0, to),
           Len(t[Root].entries) <= t[Root].max
    PROVE  Ordered(t, OneSpan(to))
<1> DEFINE span == OneSpan(to)
<1>1. span[Root].from = 0 /\ span[Root].to = to
  BY DEF OneSpan
<1>2. 0 \in 0..(LogicalLimit - 1)
  BY LimitsAssumption
<1>3. span \in Spans(t)
  BY <1>2 DEF OneSpan, Spans
<1> HIDE DEF span
<1>4. t[Root].depth = 0 /\ t[Root].entries \in Seq(LeafEntries)
  BY DEF LeafNodes
<1>5. DOMAIN t[Root].entries = 1..Len(t[Root].entries)
  BY <1>4, ElementsOf
<1>6. \A i : End(t, span, Root, i) = LeafEnd(t[Root].entries[i])
  BY <1>4 DEF End, LeafEnd
<1>7. OrderedNode(t, span, Root)
  BY <1>1, <1>4, <1>5, <1>6 DEF OrderedNode, Part
<1>8. Ordered(t, span)
  BY <1>1, <1>3, <1>7 DEF Ordered
<1>9. QED
  BY <1>8 DEF span

LEMMA OneLeafWhole ==
    ASSUME NEW t, DOMAIN t = {Root}, t[Root] \in LeafNodes,
           NEW to \in 0..(LogicalLimit - 1), Chain(t[Root].entries, 0, to),
           to + (t[Root].max - Len(t[Root].entries)) < LogicalLimit
    PROVE  Full(t, OneSpan(to))
<1> DEFINE span == OneSpan(to)
           es == t[Root].entries
<1>1. span[Root].from = 0 /\ span[Root].to = to
  BY DEF OneSpan
<1> HIDE DEF span
<1>2. t[Root].depth = 0
  BY DEF LeafNodes
<1>3. \A i : End(t, span, Root, i) = LeafEnd(t[Root].entries[i])
  BY <1>2 DEF End, LeafEnd
<1>4. /\ es \in Seq(LeafEntries)
      /\ \A i \in 1..Len(es) : es[i].len <= LongBit /\ ~Longest(es[i])
  <2>1. es \in Seq(LeafEntries)
    BY DEF LeafNodes
  <2>2. \A i \in 1..Len(es) : es[i].len \in Nat
    BY <2>1, ElementsOf, LeafCounts
  <2>3. \A i \in 1..Len(es) : es[i].len < LongBit
    BY DEF Chain
  <2> HIDE DEF es
  <2>4. QED
    BY <2>1, <2>2, <2>3, LimitsAssumption DEF Longest
<1>5. Whole(t, span)
  BY <1>1, <1>3, <1>4 DEF Whole, Chain
<1>6. Plain(t)
  <2>1. TrueLeaves(t) = ToSet(es)
    BY <1>2 DEF TrueLeaves
  <2> HIDE DEF es
  <2>2. \A e \in ToSet(es) : \E i \in 1..Len(es) : es[i] = e
    BY <1>4, ToSetIs
  <2>3. QED
    BY <1>4, <2>1, <2>2 DEF Plain
<1>7. QED
  BY <1>5, <1>6 DEF span, Full

\* The converse, for the node that the next extent goes to.
LEMMA WholeRoot ==
    ASSUME NEW t, NEW span, Ordered(t, span), Full(t, span), t[Root].depth = 0
    PROVE  /\ DOMAIN t = {Root}
           /\ t[Root] \in LeafNodes
           /\ Part(t[Root].entries, 0, span[Root].to)
           /\ Chain(t[Root].entries, 0, span[Root].to)
           /\ span[Root].to + (t[Root].max - Len(t[Root].entries)) < LogicalLimit
           /\ span[Root].to \in Nat
<1>1. Root \in DOMAIN t /\ span[Root].from = 0 /\ OrderedNode(t, span, Root)
  BY DEF Ordered
<1>2. t[Root] \in LeafNodes
  <2>1. t[Root] \notin IndexNodes(t)
    BY LimitsAssumption DEF IndexNodes
  <2>2. QED
    BY <1>1, <2>1 DEF OrderedNode
<1>3. Part(t[Root].entries, 0, span[Root].to)
  <2>1. ParseLeaves(t[Root]) = t[Root].entries
    BY <1>1, OrderedNodes, Parsed
  <2>2. QED
    BY <1>1, <2>1, LeafNodePart
<1>4. \A i : End(t, span, Root, i) = LeafEnd(t[Root].entries[i])
  BY DEF End, LeafEnd
<1>5. Chain(t[Root].entries, 0, span[Root].to)
  BY <1>1, <1>4, FullLength DEF Full, Whole, Chain
<1>6. span[Root].to \in Nat
  BY <1>1, SpanOf
<1>7. QED
  BY <1>2, <1>3, <1>5, <1>6, LeafRootAlone DEF Full, Whole

\* The next logical block is the one after the last extent.
LEMMA NextLogicalIs ==
    ASSUME NEW root, root \in LeafNodes, NEW to \in 0..(LogicalLimit - 1),
           Part(root.entries, 0, to), Chain(root.entries, 0, to)
    PROVE  NextLogical(root) = to
<1> DEFINE es == root.entries
           n == Len(es)
           S == {Wrap(es[i].block + BlockCount(es[i])) : i \in DOMAIN es}
<1>1. root.depth = 0 /\ es \in Seq(LeafEntries)
  BY DEF LeafNodes
<1>2. ParseLeaves(root) = es
  BY <1>1 DEF ParseLeaves
<1>3. DOMAIN es = 1..n /\ n \in Nat /\ \A i \in 1..n : es[i] \in LeafEntries
  BY <1>1, ElementsOf
<1>4. LogicalLimit \in Nat /\ LongBit \in Nat
  BY LimitsAssumption
<1>5. ASSUME NEW i \in 1..n
      PROVE  /\ Wrap(es[i].block + BlockCount(es[i])) = LeafEnd(es[i])
             /\ LeafEnd(es[i]) \in Nat /\ LeafEnd(es[i]) <= to
  <2>1. es[i].block \in Nat /\ LeafEnd(es[i]) \in Nat /\ BlockCount(es[i]) = TrueCount(es[i])
    <3>1. es[i].len < LongBit
      BY DEF Chain
    <3>2. es[i].len \in Nat \ {0} /\ es[i].block \in Nat /\ LeafEnd(es[i]) \in Nat
          /\ BlockCount(es[i]) = IF es[i].len = LongBit THEN 0 ELSE TrueCount(es[i])
      BY <1>3, LeafCounts
    <3>3. es[i].len # LongBit
      BY <1>4, <3>1, <3>2
    <3>4. QED
      BY <3>2, <3>3
  <2>2. LeafEnd(es[i]) <= to
    BY DEF Part
  <2>3. es[i].block + BlockCount(es[i]) = LeafEnd(es[i])
    BY <2>1 DEF LeafEnd
  <2>4. Wrap(LeafEnd(es[i])) = LeafEnd(es[i])
    BY <1>4, <2>1, <2>2 DEF Wrap
  <2>5. QED
    BY <2>1, <2>2, <2>3, <2>4
<1>6. CASE n = 0
  <2>1. es = <<>> /\ to = 0
    BY <1>1, <1>6 DEF Chain
  <2>2. QED
    BY <1>2, <2>1 DEF NextLogical
<1>7. CASE n # 0
  <2>1. es # <<>> /\ n \in 1..n
    BY <1>1, <1>3, <1>7
  <2>2. S = {LeafEnd(es[i]) : i \in 1..n}
    BY <1>3, <1>5
  <2>3. LeafEnd(es[n]) = to
    BY <1>7 DEF Chain
  <2>4. to \in S /\ \A x \in S : x \in Nat /\ x <= to
    BY <1>5, <2>1, <2>2, <2>3
  <2> HIDE DEF S
  <2>5. Max(S) = to
    <3>1. to \in S /\ \A y \in S : to >= y
      BY <2>4
    <3>2. \A x \in S : (\A y \in S : x >= y) => x = to
      BY <2>4
    <3>3. QED
      BY <3>1, <3>2 DEF Max
  <2>6. QED
    BY <1>2, <2>1, <2>5 DEF NextLogical, S
<1>8. QED
  BY <1>6, <1>7

LEMMA AppendIs ==
    ASSUME NEW X, NEW s \in Seq(X), NEW e \in X
    PROVE  /\ Append(s, e) \in Seq(X)
           /\ Len(s) \in Nat /\ Len(Append(s, e)) = Len(s) + 1
           /\ \A k \in 1..Len(s) : Append(s, e)[k] = s[k]
           /\ Append(s, e)[Len(s) + 1] = e
  OBVIOUS

\* A leaf node without holes, that ends before the last blocks by the number
\* of entries that it has room for.
Growing(root, to) ==
    /\ root \in LeafNodes
    /\ to \in 0..(LogicalLimit - 1)
    /\ Part(root.entries, 0, to) /\ Chain(root.entries, 0, to)
    /\ to + (root.max - Len(root.entries)) < LogicalLimit
    /\ Len(root.entries) <= root.max

\* append_extent keeps such a node.
LEMMA AppendedGrows ==
    ASSUME NEW root, NEW to, Growing(root, to), Accepts(root), NEW b \in Nat
    PROVE  /\ Appended(root, b).entries = Append(root.entries, Leaf(to, 1, b))
           /\ Growing(Appended(root, b), to + 1)
<1> DEFINE es == root.entries
           n == Len(es)
           e == Leaf(to, 1, b)
           r == Append(es, e)
<1>1. /\ root \in [depth : {0}, max : Nat, entries : Seq(LeafEntries)]
      /\ es \in Seq(LeafEntries) /\ n \in Nat /\ root.max \in Nat /\ root.depth = 0
  BY DEF Growing, LeafNodes
<1>2. /\ LogicalLimit \in Nat /\ LongBit \in Nat /\ LongBit > 1
  BY LimitsAssumption
<1>3. to \in Nat /\ n < root.max /\ to + (root.max - n) < LogicalLimit
  BY <1>2 DEF Growing, Accepts
<1>4. e \in LeafEntries /\ e.block = to /\ LeafEnd(e) = to + 1 /\ e.len = 1
  BY <1>2, <1>3 DEF Leaf, LeafEntries, LeafEnd, TrueCount
<1>5. NextLogical(root) = to
  BY NextLogicalIs DEF Growing
<1>6. Appended(root, b) = [root EXCEPT !.entries = r]
  BY <1>5 DEF Appended
<1>7. /\ r \in Seq(LeafEntries) /\ Len(r) = n + 1
      /\ \A k \in 1..n : r[k] = es[k]
      /\ r[n + 1] = e
  <2> HIDE DEF e
  <2>1. QED
    BY <1>1, <1>4, AppendIs
<1> HIDE DEF r, e
<1>8. /\ Appended(root, b) \in LeafNodes /\ Appended(root, b).entries = r
      /\ Appended(root, b).max = root.max
  BY <1>1, <1>6, <1>7 DEF LeafNodes
<1>9. \A k \in 1..n : /\ 0 <= es[k].block /\ LeafEnd(es[k]) <= to
                      /\ LeafEnd(es[k]) \in Nat
  <2>1. \A k \in 1..n : es[k] \in LeafEntries
    BY <1>1, ElementsOf
  <2>2. QED
    BY <2>1, LeafCounts DEF Growing, Part
<1>10. \A k \in 1..(n + 1) : k \in 1..n \/ k = n + 1
  BY <1>1
<1>11. Part(r, 0, to + 1)
  <2>1. ASSUME NEW k \in 1..Len(r)
        PROVE  0 <= r[k].block /\ LeafEnd(r[k]) <= to + 1
    <3>1. CASE k \in 1..n
      <4>1. 0 <= es[k].block /\ LeafEnd(es[k]) <= to /\ LeafEnd(es[k]) \in Nat /\ r[k] = es[k]
        BY <1>7, <1>9, <3>1
      <4>2. LeafEnd(es[k]) <= to + 1
        BY <1>3, <4>1
      <4>3. QED
        BY <4>1, <4>2
    <3>2. CASE k = n + 1
      BY <1>3, <1>4, <1>7, <3>2
    <3>3. QED
      BY <1>7, <1>10, <3>1, <3>2
  <2>2. ASSUME NEW k1 \in 1..Len(r), NEW k2 \in 1..Len(r), k1 < k2
        PROVE  LeafEnd(r[k1]) <= r[k2].block
    <3>1. k1 \in 1..n
      BY <1>1, <1>7, <2>2
    <3>2. CASE k2 \in 1..n
      BY <1>7, <2>2, <3>1, <3>2 DEF Growing, Part
    <3>3. CASE k2 = n + 1
      BY <1>4, <1>7, <1>9, <3>1, <3>3
    <3>4. QED
      BY <1>7, <1>10, <3>2, <3>3
  <2>3. QED
    BY <2>1, <2>2 DEF Part
<1>12. Chain(r, 0, to + 1)
  <2>1. ASSUME NEW k \in 1..Len(r)
        PROVE  r[k].block = (IF k = 1 THEN 0 ELSE LeafEnd(r[k - 1])) /\ r[k].len < LongBit
    <3>1. CASE k \in 1..n
      <4>1. es[k].block = (IF k = 1 THEN 0 ELSE LeafEnd(es[k - 1])) /\ es[k].len < LongBit
        BY <3>1 DEF Growing, Chain
      <4>2. k # 1 => k - 1 \in 1..n
        BY <1>1, <3>1
      <4>3. QED
        BY <1>7, <3>1, <4>1, <4>2
    <3>2. CASE k = n + 1
      <4>1. to = IF n = 0 THEN 0 ELSE LeafEnd(es[n])
        BY DEF Growing, Chain
      <4>2. n # 0 => r[n] = es[n] /\ k - 1 = n /\ k # 1
        BY <1>1, <1>7, <3>2
      <4>3. n = 0 => k = 1
        BY <3>2
      <4>4. QED
        BY <1>2, <1>4, <1>7, <3>2, <4>1, <4>2, <4>3
    <3>3. QED
      BY <1>7, <1>10, <3>1, <3>2
  <2>2. Len(r) # 0 /\ LeafEnd(r[Len(r)]) = to + 1
    BY <1>1, <1>4, <1>7
  <2>3. QED
    BY <2>1, <2>2 DEF Chain
<1>13. /\ to + 1 \in 0..(LogicalLimit - 1)
       /\ to + 1 + (root.max - Len(r)) < LogicalLimit
       /\ Len(r) <= root.max
  BY <1>1, <1>2, <1>3, <1>7
<1>14. Growing(Appended(root, b), to + 1)
  BY <1>8, <1>11, <1>12, <1>13 DEF Growing
<1>15. QED
  BY <1>8, <1>14 DEF r, e

LEMMA FreshGrows == Growing(FreshRoot, 0) /\ Accepts(FreshRoot)
<1>1. FreshRoot = [depth |-> 0, max |-> RootMax, entries |-> <<>>]
  BY DEF FreshRoot, Node
<1>2. <<>> \in Seq(LeafEntries) /\ Len(<<>>) = 0
  OBVIOUS
<1>3. /\ RootMax \in Nat /\ RootMax > 0 /\ RootMax < LogicalLimit /\ LogicalLimit \in Nat
  BY LimitsAssumption
<1>4. FreshRoot \in LeafNodes
  BY <1>1, <1>2, <1>3 DEF LeafNodes
<1>5. Part(FreshRoot.entries, 0, 0) /\ Chain(FreshRoot.entries, 0, 0)
  BY <1>1, <1>2 DEF Part, Chain
<1>6. QED
  BY <1>1, <1>2, <1>3, <1>4, <1>5 DEF Growing, Accepts

LEMMA GrowingTree ==
    ASSUME NEW t, DOMAIN t = {Root}, NEW to, Growing(t[Root], to)
    PROVE  \E span : Ordered(t, span) /\ Full(t, span)
<1>1. Ordered(t, OneSpan(to))
  BY OneLeafOrdered DEF Growing
<1>2. Full(t, OneSpan(to))
  BY OneLeafWhole DEF Growing
<1>3. QED
  BY <1>1, <1>2

LEMMA GrowingRoot ==
    ASSUME NEW t, NEW span, Ordered(t, span), Full(t, span), t[Root].depth = 0
    PROVE  DOMAIN t = {Root} /\ Growing(t[Root], span[Root].to)
<1>1. /\ Root \in DOMAIN t /\ Len(t[Root].entries) <= t[Root].max
  BY DEF Ordered
<1>2. span[Root].to \in Nat /\ span[Root].to < LogicalLimit /\ LogicalLimit \in Nat
  BY <1>1, SpanOf, LimitsAssumption
<1>3. span[Root].to \in 0..(LogicalLimit - 1)
  BY <1>2
<1>4. QED
  BY <1>1, <1>3, WholeRoot DEF Growing

-----------------------------------------------------------------------------
(* A directory with an extent of the longest length.                       *)

\* Where an extent ends by the code's reading of its length.
CodeEnd(e) == IF Longest(e) THEN e.block ELSE LeafEnd(e)

LEMMA CodeEndIs ==
    ASSUME NEW e \in LeafEntries
    PROVE  /\ CodeEnd(e) = e.block + BlockCount(e)
           /\ CodeEnd(e) \in Nat /\ e.block <= CodeEnd(e) /\ CodeEnd(e) <= LeafEnd(e)
<1>1. /\ e.block \in Nat /\ LeafEnd(e) \in Nat /\ TrueCount(e) \in Nat /\ e.block < LeafEnd(e)
      /\ BlockCount(e) = IF e.len = LongBit THEN 0 ELSE TrueCount(e)
  BY LeafCounts
<1>2. CASE Longest(e)
  BY <1>1, <1>2 DEF CodeEnd, Longest
<1>3. CASE ~Longest(e)
  BY <1>1, <1>3 DEF CodeEnd, Longest, LeafEnd
<1>4. QED
  BY <1>2, <1>3

\* A root that is a leaf, all by itself, with extents that end before the last
\* block.
Shallow(t) ==
    /\ DOMAIN t = {Root} /\ t[Root] \in LeafNodes
    /\ \A i \in 1..Len(t[Root].entries) : LeafEnd(t[Root].entries[i]) < LogicalLimit

LEMMA ShallowTree ==
    ASSUME NEW t, Shallow(t)
    PROVE  /\ Nodes(t) /\ t[Root].depth = 0
           /\ t[Root].entries \in Seq(LeafEntries)
           /\ ParseLeaves(t[Root]) = t[Root].entries
           /\ ResolveExtents(t) = t[Root].entries
           /\ TrueLeaves(t) = ToSet(t[Root].entries)
<1>1. t[Root].depth = 0 /\ t[Root].entries \in Seq(LeafEntries)
  BY DEF Shallow, LeafNodes
<1>2. Nodes(t)
  BY DEF Shallow, Nodes
<1>3. ParseLeaves(t[Root]) = t[Root].entries
  BY <1>1 DEF ParseLeaves
<1>4. PICK F : LeafLevels(F, t) /\ ResolveExtents(t) = F[t[Root].depth][Root]
  BY <1>2, ResolveExtentsIs
<1>5. F[0][Root] = ParseLeaves(t[Root])
  BY <1>2, <1>4 DEF LeafLevels, Nodes
<1>6. TrueLeaves(t) = ToSet(t[Root].entries)
  BY <1>1 DEF TrueLeaves, Shallow
<1>7. QED
  BY <1>1, <1>2, <1>3, <1>4, <1>5, <1>6

\* Extents in the order that the code's reading of their lengths gives them,
\* that leave as many blocks as the root has room for entries.
Laid(es, room) ==
    /\ \A i \in 1..Len(es) : es[i].len <= LongBit /\ LeafEnd(es[i]) + room < LogicalLimit
    /\ \A i, j \in 1..Len(es) : i < j => CodeEnd(es[i]) <= es[j].block

\* What append_extent may have done to a directory that had such an extent.
Overgrown(t) ==
    /\ Shallow(t)
    /\ Len(t[Root].entries) <= t[Root].max
    /\ \E i \in 1..Len(t[Root].entries) : Longest(t[Root].entries[i])
    /\ Laid(t[Root].entries, t[Root].max - Len(t[Root].entries))

\* The next logical block is the one after the last extent, or its first one.
LEMMA LaidNext ==
    ASSUME NEW root \in LeafNodes, NEW n, n = Len(root.entries), n # 0,
           NEW room \in Nat, Laid(root.entries, room)
    PROVE  /\ NextLogical(root) = CodeEnd(root.entries[n])
           /\ n \in 1..n
           /\ \A i \in 1..n : CodeEnd(root.entries[i]) <= CodeEnd(root.entries[n])
<1> DEFINE es == root.entries
           to == CodeEnd(es[n])
           S == {Wrap(es[i].block + BlockCount(es[i])) : i \in DOMAIN es}
<1>1. root.depth = 0 /\ es \in Seq(LeafEntries)
  BY DEF LeafNodes
<1>2. DOMAIN es = 1..n /\ n \in Nat /\ \A i \in 1..n : es[i] \in LeafEntries
  BY <1>1, ElementsOf
<1>3. LogicalLimit \in Nat
  BY LimitsAssumption
<1>4. n \in 1..n
  BY <1>2
<1>5. ASSUME NEW i \in 1..n
      PROVE  /\ Wrap(es[i].block + BlockCount(es[i])) = CodeEnd(es[i])
             /\ CodeEnd(es[i]) \in Nat /\ CodeEnd(es[i]) <= to
  <2>1. /\ CodeEnd(es[i]) = es[i].block + BlockCount(es[i])
        /\ CodeEnd(es[i]) \in Nat /\ CodeEnd(es[i]) <= LeafEnd(es[i])
    BY <1>2, CodeEndIs
  <2>2. LeafEnd(es[i]) + room < LogicalLimit /\ LeafEnd(es[i]) \in Nat
    BY <1>2, LeafCounts DEF Laid
  <2>3. CodeEnd(es[i]) < LogicalLimit
    BY <1>3, <2>1, <2>2
  <2>4. Wrap(CodeEnd(es[i])) = CodeEnd(es[i])
    BY <1>3, <2>1, <2>3 DEF Wrap
  <2>5. CodeEnd(es[i]) <= to
    <3>1. es[n].block <= to /\ to \in Nat /\ es[n].block \in Nat
      BY <1>2, <1>4, CodeEndIs, LeafCounts
    <3>2. i < n => CodeEnd(es[i]) <= es[n].block
      BY <1>4 DEF Laid
    <3>3. i = n \/ i < n
      BY <1>2
    <3> HIDE DEF to, es
    <3>4. CASE i < n
      BY <2>1, <3>1, <3>2, <3>4
    <3>5. CASE i = n
      BY <3>1, <3>5 DEF to
    <3>6. QED
      BY <3>3, <3>4, <3>5
  <2>6. QED
    BY <2>1, <2>4, <2>5
<1>6. S = {CodeEnd(es[i]) : i \in 1..n}
  BY <1>2, <1>5
<1>7. to \in S /\ \A x \in S : x \in Nat /\ x <= to
  BY <1>4, <1>5, <1>6
<1>8. ParseLeaves(root) = es /\ es # <<>>
  BY <1>1, <1>2 DEF ParseLeaves
<1> HIDE DEF S
<1>9. Max(S) = to
  <2>1. to \in S /\ \A y \in S : to >= y
    BY <1>7
  <2>2. \A x \in S : (\A y \in S : x >= y) => x = to
    BY <1>7
  <2>3. QED
    BY <2>1, <2>2 DEF Max
<1>10. NextLogical(root) = to
  BY <1>8, <1>9 DEF NextLogical, S
<1>11. QED
  BY <1>4, <1>5, <1>10

\* What append_extent does to such a directory.
Overgrows(t, u, to, b) ==
    /\ to \in Nat
    /\ u[Root].entries = Append(t[Root].entries, Leaf(to, 1, b))
    /\ \A i \in 1..Len(t[Root].entries) : CodeEnd(t[Root].entries[i]) <= to

LEMMA OvergrownGrows ==
    ASSUME NEW t, Overgrown(t), Accepts(t[Root]), NEW b \in Blocks,
           NEW u, u = [t EXCEPT ![Root] = Appended(@, b)]
    PROVE  Overgrown(u) /\ \E to : Overgrows(t, u, to, b)
<1> DEFINE es == t[Root].entries
           n == Len(es)
           to == NextLogical(t[Root])
           e == Leaf(to, 1, b)
           r == Append(es, e)
           room == t[Root].max - n
<1>1. /\ t[Root] \in [depth : {0}, max : Nat, entries : Seq(LeafEntries)]
      /\ es \in Seq(LeafEntries) /\ n \in Nat /\ t[Root].max \in Nat
      /\ DOMAIN t = {Root} /\ t[Root] \in LeafNodes
  BY DEF Overgrown, Shallow, LeafNodes
<1>2. /\ LogicalLimit \in Nat /\ LongBit \in Nat /\ LongBit > 1 /\ b \in Nat
  BY LimitsAssumption
<1>3. n < t[Root].max /\ room \in Nat /\ room > 0 /\ t[Root].max - (n + 1) = room - 1
  BY <1>1 DEF Accepts
<1>4. Laid(es, room) /\ n # 0
  BY <1>1 DEF Overgrown
<1>5. to = CodeEnd(es[n]) /\ n \in 1..n /\ \A i \in 1..n : CodeEnd(es[i]) <= CodeEnd(es[n])
  BY <1>1, <1>3, <1>4, LaidNext
<1>6. \A i \in 1..n : es[i] \in LeafEntries
  BY <1>1, ElementsOf
<1>7. to \in Nat /\ to + room < LogicalLimit
  <2>1. es[n] \in LeafEntries
    BY <1>5, <1>6
  <2>2. CodeEnd(es[n]) \in Nat /\ CodeEnd(es[n]) <= LeafEnd(es[n]) /\ LeafEnd(es[n]) \in Nat
    BY <2>1, CodeEndIs, LeafCounts
  <2>3. LeafEnd(es[n]) + room < LogicalLimit
    BY <1>4, <1>5 DEF Laid
  <2> HIDE DEF room, es, n, to
  <2>4. QED
    BY <1>2, <1>3, <1>5, <2>2, <2>3
<1>8. e \in LeafEntries /\ e.block = to /\ LeafEnd(e) = to + 1 /\ e.len = 1
  <2> HIDE DEF to
  <2>1. QED
    BY <1>2, <1>7 DEF Leaf, LeafEntries, LeafEnd, TrueCount
<1>9. Appended(t[Root], b) = [t[Root] EXCEPT !.entries = r]
  BY DEF Appended
<1>10. /\ r \in Seq(LeafEntries) /\ Len(r) = n + 1
       /\ \A k \in 1..n : r[k] = es[k]
       /\ r[n + 1] = e
  <2> HIDE DEF e
  <2>1. QED
    BY <1>1, <1>8, AppendIs
<1> HIDE DEF r, e, to
<1>11. u[Root] \in LeafNodes /\ u[Root].entries = r /\ u[Root].max = t[Root].max /\ DOMAIN u = {Root}
  BY <1>1, <1>9, <1>10 DEF LeafNodes
<1>12. \A k \in 1..(n + 1) : k \in 1..n \/ k = n + 1
  BY <1>1
<1>13. \A k \in 1..n : /\ CodeEnd(es[k]) <= to /\ es[k].len <= LongBit
                       /\ LeafEnd(es[k]) + room < LogicalLimit /\ LeafEnd(es[k]) \in Nat
  BY <1>4, <1>5, <1>6, LeafCounts DEF Laid
<1>14. Laid(r, room - 1)
  <2>1. ASSUME NEW k \in 1..Len(r)
        PROVE  r[k].len <= LongBit /\ LeafEnd(r[k]) + (room - 1) < LogicalLimit
    <3>1. CASE k \in 1..n
      <4>1. /\ r[k] = es[k] /\ es[k].len <= LongBit
            /\ LeafEnd(es[k]) + room < LogicalLimit /\ LeafEnd(es[k]) \in Nat
        BY <1>10, <1>13, <3>1
      <4> HIDE DEF room
      <4>2. LeafEnd(es[k]) + (room - 1) < LogicalLimit
        BY <1>2, <1>3, <4>1
      <4>3. QED
        BY <4>1, <4>2
    <3>2. CASE k = n + 1
      <4>1. r[k].len = 1 /\ LeafEnd(r[k]) = to + 1
        BY <1>8, <1>10, <3>2
      <4> HIDE DEF room
      <4>2. QED
        BY <1>2, <1>3, <1>7, <4>1
    <3>3. QED
      BY <1>10, <1>12, <3>1, <3>2
  <2>2. ASSUME NEW i \in 1..Len(r), NEW j \in 1..Len(r), i < j
        PROVE  CodeEnd(r[i]) <= r[j].block
    <3>1. i \in 1..n
      BY <1>1, <1>10, <2>2
    <3>2. CASE j \in 1..n
      BY <1>4, <1>10, <2>2, <3>1, <3>2 DEF Laid
    <3>3. CASE j = n + 1
      BY <1>8, <1>10, <1>13, <3>1, <3>3
    <3>4. QED
      BY <1>10, <1>12, <3>2, <3>3
  <2>3. QED
    BY <2>1, <2>2 DEF Laid
<1>15. \A k \in 1..Len(r) : LeafEnd(r[k]) < LogicalLimit
  <2>1. ASSUME NEW k \in 1..Len(r) PROVE LeafEnd(r[k]) < LogicalLimit
    <3>1. LeafEnd(r[k]) + (room - 1) < LogicalLimit
      BY <1>14 DEF Laid
    <3>2. r[k] \in LeafEntries
      BY <1>10, ElementsOf
    <3>3. LeafEnd(r[k]) \in Nat
      BY <3>2, LeafCounts
    <3> HIDE DEF room
    <3>4. QED
      BY <1>2, <1>3, <3>1, <3>3
  <2>2. QED
    BY <2>1
<1>16. \E k \in 1..Len(r) : Longest(r[k])
  <2>1. PICK k \in 1..n : Longest(es[k])
    BY DEF Overgrown
  <2>2. k \in 1..Len(r) /\ r[k] = es[k]
    BY <1>1, <1>10
  <2>3. QED
    BY <2>1, <2>2
<1>17. Overgrown(u)
  <2>1. Len(r) <= t[Root].max /\ t[Root].max - Len(r) = room - 1
    BY <1>1, <1>3, <1>10
  <2>2. Shallow(u)
    BY <1>11, <1>15 DEF Shallow
  <2>3. QED
    BY <1>11, <1>14, <1>16, <2>1, <2>2 DEF Overgrown
<1>18. Overgrows(t, u, to, b)
  BY <1>7, <1>11, <1>13 DEF Overgrows, r, e
<1>19. QED
  BY <1>17, <1>18

\* A root that append_extent does not extend stays as it was found.
Fixed(t) ==
    /\ t[Root].depth # 0 /\ ~Plain(t)
    /\ \E span : Ordered(t, span)
    /\ \A e \in TrueLeaves(t) : e.len <= LongBit

LEMMA WholeShort ==
    ASSUME NEW t, NEW span, Ordered(t, span), Whole(t, span), NEW e \in TrueLeaves(t)
    PROVE  e \in LeafEntries /\ e.len <= LongBit
<1>1. PICK p \in DOMAIN t : t[p].depth = 0 /\ e \in ToSet(t[p].entries)
  BY DEF TrueLeaves
<1>2. t[p].entries \in Seq(LeafEntries)
  BY <1>1, OrderedNodes, Parsed
<1>3. PICK i \in 1..Len(t[p].entries) : t[p].entries[i] = e
  BY <1>1, <1>2, ToSetIs
<1>4. QED
  BY <1>1, <1>2, <1>3, ElementsOf DEF Whole

\* Such a directory, as it was found.
LEMMA OvergrownImage ==
    ASSUME NEW t, NEW span, Ordered(t, span), Whole(t, span), ~Plain(t), t[Root].depth = 0
    PROVE  Overgrown(t)
<1> DEFINE es == t[Root].entries
           room == t[Root].max - Len(es)
           to == span[Root].to
<1>1. /\ DOMAIN t = {Root} /\ OrderedNode(t, span, Root) /\ span[Root].from = 0
      /\ Len(es) <= t[Root].max
  BY LeafRootAlone DEF Ordered
<1>2. t[Root] \in LeafNodes
  <2>1. t[Root] \notin IndexNodes(t)
    BY LimitsAssumption DEF IndexNodes
  <2>2. QED
    BY <1>1, <2>1 DEF OrderedNode
<1>3. es \in Seq(LeafEntries) /\ Len(es) \in Nat /\ t[Root].max \in Nat
  BY <1>2 DEF LeafNodes
<1>4. ParseLeaves(t[Root]) = es /\ TrueLeaves(t) = ToSet(es)
  BY <1>1 DEF ParseLeaves, TrueLeaves
<1>5. Part(es, 0, to)
  <2>1. Part(ParseLeaves(t[Root]), span[Root].from, span[Root].to)
    BY <1>1, LeafNodePart
  <2>2. QED
    BY <1>1, <1>4, <2>1
<1>6. to + room < LogicalLimit /\ to \in Nat /\ room \in Nat /\ LogicalLimit \in Nat
  BY <1>1, <1>3, SpanOf, LimitsAssumption DEF Whole
<1> HIDE DEF es, to, room
<1>7. ASSUME NEW i \in 1..Len(es)
      PROVE  /\ es[i].len <= LongBit /\ LeafEnd(es[i]) + room < LogicalLimit
             /\ LeafEnd(es[i]) < LogicalLimit
  <2>1. es[i] \in TrueLeaves(t) /\ es[i] \in LeafEntries
    BY <1>3, <1>4, ToSetIs, ElementsOf
  <2>2. es[i].len <= LongBit
    BY <2>1, WholeShort
  <2>3. LeafEnd(es[i]) \in Nat /\ LeafEnd(es[i]) <= to
    BY <1>5, <2>1, LeafCounts DEF Part
  <2>4. QED
    BY <1>6, <2>2, <2>3
<1>8. ASSUME NEW i \in 1..Len(es), NEW j \in 1..Len(es), i < j
      PROVE  CodeEnd(es[i]) <= es[j].block
  <2>1. LeafEnd(es[i]) <= es[j].block
    BY <1>5, <1>8 DEF Part
  <2>2. es[i] \in LeafEntries /\ es[j] \in LeafEntries
    BY <1>3, ElementsOf
  <2>3. /\ CodeEnd(es[i]) \in Nat /\ CodeEnd(es[i]) <= LeafEnd(es[i])
        /\ LeafEnd(es[i]) \in Nat /\ es[j].block \in Nat
    BY <2>2, CodeEndIs, LeafCounts
  <2>4. QED
    BY <2>1, <2>3
<1>9. \E i \in 1..Len(es) : Longest(es[i])
  <2>1. PICK e \in TrueLeaves(t) : Longest(e)
    BY DEF Plain
  <2>2. PICK i \in 1..Len(es) : es[i] = e
    BY <1>3, <1>4, <2>1, ToSetIs
  <2>3. QED
    BY <2>1, <2>2
<1>10. Laid(es, room)
  BY <1>7, <1>8 DEF Laid
<1>11. Shallow(t)
  BY <1>1, <1>2, <1>7 DEF Shallow, es
<1>12. QED
  BY <1>1, <1>9, <1>10, <1>11 DEF Overgrown, es, room

-----------------------------------------------------------------------------
(* The invariant.                                                          *)

\* The tree is one that the disk format allows, and, where blocks are appended
\* to it, is whole and has no extent of the longest length.
Allowed(t, whole) == \E span : Ordered(t, span) /\ (whole => Full(t, span))

\* A directory may have such extents, and then is never extended, or is
\* extended by the code's reading of them.
Directory(t) == Allowed(t, TRUE) \/ Fixed(t) \/ Overgrown(t)

Shape(t, type, whole) ==
    IF type = "dir" THEN Directory(t) ELSE Allowed(t, whole)

IInv ==
    /\ kind \in {"file", "dir"}
    /\ spare \subseteq Blocks
    /\ open \in BOOLEAN
    /\ Shape(tree, kind, open)

LEMMA InitInv == Init => IInv
<1>1. SUFFICES ASSUME Init PROVE IInv
  OBVIOUS
<1>2. PICK image \in Images : tree = image.tree /\ kind = image.kind
  BY <1>1 DEF Init
<1>3. /\ image.kind \in {"file", "dir"} /\ Ordered(image.tree, image.span)
      /\ image.kind = "dir" => Whole(image.tree, image.span)
  BY ImagesAssumption
<1>4. PICK t, span : t = image.tree /\ span = image.span
  OBVIOUS
<1>5. Ordered(t, span)
  BY <1>3, <1>4
<1>6. ASSUME kind = "dir" PROVE Directory(t)
  <2>1. Whole(t, span)
    BY <1>2, <1>3, <1>4, <1>6
  <2>2. CASE Plain(t)
    BY <1>5, <2>1, <2>2 DEF Directory, Allowed, Full
  <2>3. CASE ~Plain(t) /\ t[Root].depth = 0
    BY <1>5, <2>1, <2>3, OvergrownImage DEF Directory
  <2>4. CASE ~Plain(t) /\ t[Root].depth # 0
    BY <1>5, <2>1, <2>4, WholeShort DEF Directory, Fixed
  <2>5. QED
    BY <2>2, <2>3, <2>4
<1>7. Allowed(t, FALSE)
  BY <1>5 DEF Allowed
<1>8. Shape(t, kind, FALSE)
  BY <1>6, <1>7 DEF Shape
<1>9. open = FALSE /\ spare = Blocks
  BY <1>1 DEF Init
<1>10. QED
  BY <1>2, <1>3, <1>4, <1>8, <1>9 DEF IInv

\* What a step makes of the tree, when it changes it.
LEMMA RewriteTree ==
    ASSUME NEW b \in Blocks, NEW t, t = Alone(Appended(FreshRoot, b))
    PROVE  DOMAIN t = {Root} /\ Growing(t[Root], 1) /\ t[Root].entries = <<Leaf(0, 1, b)>>
<1>1. DOMAIN t = {Root} /\ t[Root] = Appended(FreshRoot, b)
  BY DEF Alone
<1>2. b \in Nat
  BY LimitsAssumption
<1>3. /\ Growing(Appended(FreshRoot, b), 0 + 1)
      /\ Appended(FreshRoot, b).entries = Append(FreshRoot.entries, Leaf(0, 1, b))
  BY <1>2, FreshGrows, AppendedGrows
<1>4. FreshRoot.entries = <<>>
  BY DEF FreshRoot, Node
<1>5. QED
  BY <1>1, <1>3, <1>4

LEMMA TruncateTree ==
    ASSUME NEW t, t = Alone(FreshRoot)
    PROVE  DOMAIN t = {Root} /\ Growing(t[Root], 0) /\ t[Root].entries = <<>>
<1>1. DOMAIN t = {Root} /\ t[Root] = FreshRoot
  BY DEF Alone
<1>2. FreshRoot.entries = <<>>
  BY DEF FreshRoot, Node
<1>3. QED
  BY <1>1, <1>2, FreshGrows

LEMMA AppendTree ==
    ASSUME NEW t, Allowed(t, TRUE), Accepts(t[Root]), NEW b \in Blocks,
           NEW u, u = [t EXCEPT ![Root] = Appended(@, b)]
    PROVE  /\ DOMAIN t = {Root} /\ DOMAIN u = {Root}
           /\ \E to : /\ Growing(t[Root], to) /\ Growing(u[Root], to + 1)
                      /\ u[Root].entries = Append(t[Root].entries, Leaf(to, 1, b))
<1>1. PICK span : Ordered(t, span) /\ Full(t, span)
  BY DEF Allowed
<1>2. t[Root].depth = 0
  BY DEF Accepts
<1>3. DOMAIN t = {Root} /\ Growing(t[Root], span[Root].to)
  BY <1>1, <1>2, GrowingRoot
<1>4. DOMAIN u = {Root} /\ u[Root] = Appended(t[Root], b)
  BY <1>3
<1>5. b \in Nat
  BY LimitsAssumption
<1>6. /\ Growing(u[Root], span[Root].to + 1)
      /\ u[Root].entries = Append(t[Root].entries, Leaf(span[Root].to, 1, b))
  BY <1>3, <1>4, <1>5, AppendedGrows
<1>7. QED
  BY <1>3, <1>4, <1>6

LEMMA GrowingAllowed ==
    ASSUME NEW t, DOMAIN t = {Root}, NEW to, Growing(t[Root], to), NEW whole, NEW type
    PROVE  Allowed(t, whole) /\ Shape(t, type, whole)
<1>1. Allowed(t, whole) /\ Allowed(t, TRUE)
  BY GrowingTree DEF Allowed
<1>2. QED
  BY <1>1 DEF Shape, Directory

\* An append finds a tree that it keeps in order, or an overgrown directory.
LEMMA Extended ==
    ASSUME NEW t, NEW type, NEW whole, Shape(t, type, whole), type = "dir" \/ whole, Accepts(t[Root])
    PROVE  Allowed(t, TRUE) \/ (type = "dir" /\ Overgrown(t))
<1>1. ~Fixed(t)
  BY DEF Accepts, Fixed
<1>2. QED
  BY <1>1 DEF Shape, Directory, Allowed

LEMMA StepInv == IInv /\ [Next]_vars => IInv'
<1>1. SUFFICES ASSUME IInv, [Next]_vars PROVE IInv'
  OBVIOUS
<1>2. PICK t : t = tree
  OBVIOUS
<1>3. PICK u : u = tree'
  OBVIOUS
<1>4. Shape(t, kind, open)
  BY <1>1, <1>2 DEF IInv
<1>5. /\ kind \in {"file", "dir"} /\ spare \subseteq Blocks /\ open \in BOOLEAN
  BY <1>1 DEF IInv
<1>6. ASSUME kind' = kind, spare' \subseteq spare, open' \in BOOLEAN,
             Shape(u, kind, open')
      PROVE  IInv'
  BY <1>3, <1>5, <1>6 DEF IInv
<1>7. ASSUME UNCHANGED tree, open' => open
      PROVE  Shape(u, kind, open')
  <2>1. u = t
    BY <1>2, <1>3, <1>7
  <2>2. Allowed(t, open) => Allowed(t, open')
    BY <1>7 DEF Allowed
  <2>3. QED
    BY <1>4, <2>1, <2>2 DEF Shape
<1>8. CASE Rewrite
  <2>1. PICK b \in spare : tree' = Alone(Appended(FreshRoot, b)) /\ spare' = spare \ {b}
    BY <1>8 DEF Rewrite
  <2>2. b \in Blocks
    BY <1>5, <2>1
  <2>3. DOMAIN u = {Root} /\ Growing(u[Root], 1)
    BY <1>3, <2>1, <2>2, RewriteTree
  <2>4. Shape(u, kind, open')
    BY <2>3, GrowingAllowed
  <2>5. QED
    BY <1>6, <1>8, <2>1, <2>4 DEF Rewrite
<1>9. CASE Truncate
  <2>1. DOMAIN u = {Root} /\ Growing(u[Root], 0)
    BY <1>3, <1>9, TruncateTree DEF Truncate
  <2>2. Shape(u, kind, open')
    BY <2>1, GrowingAllowed
  <2>3. QED
    BY <1>5, <1>6, <1>9, <2>2 DEF Truncate
<1>10. CASE AppendExtent
  <2>1. PICK b \in spare :
          tree' = [tree EXCEPT ![Root] = Appended(@, b)] /\ spare' = spare \ {b}
    BY <1>10 DEF AppendExtent
  <2>2. b \in Blocks /\ u = [t EXCEPT ![Root] = Appended(@, b)] /\ Accepts(t[Root])
    BY <1>2, <1>3, <1>5, <1>10, <2>1 DEF AppendExtent
  <2>3. kind = "dir" \/ open
    BY <1>10 DEF AppendExtent
  <2>4. Allowed(t, TRUE) \/ (kind = "dir" /\ Overgrown(t))
    BY <1>4, <2>2, <2>3, Extended
  <2>5. ASSUME Allowed(t, TRUE) PROVE Shape(u, kind, open')
    <3>1. \E to : DOMAIN u = {Root} /\ Growing(u[Root], to)
      BY <2>2, <2>5, AppendTree
    <3>2. Shape(u, kind, open')
      BY <3>1, GrowingAllowed
    <3>3. QED
      BY <3>2
  <2>6. ASSUME kind = "dir" /\ Overgrown(t) PROVE Shape(u, kind, open')
    <3>1. Overgrown(u)
      BY <2>2, <2>6, OvergrownGrows
    <3>2. Shape(u, kind, open')
      BY <2>6, <3>1 DEF Shape, Directory
    <3>3. QED
      BY <3>2
  <2>7. Shape(u, kind, open')
    BY <2>4, <2>5, <2>6
  <2>8. QED
    BY <1>5, <1>6, <1>10, <2>1, <2>7 DEF AppendExtent
<1>11. CASE RefuseExtent
  <2>1. /\ spare' \subseteq spare /\ open' = FALSE /\ UNCHANGED <<tree, kind>>
    BY <1>11 DEF RefuseExtent
  <2>2. QED
    BY <1>6, <1>7, <2>1
<1>12. CASE Close
  <2>1. open' = FALSE /\ UNCHANGED <<tree, kind, spare>>
    BY <1>12 DEF Close
  <2>2. QED
    BY <1>6, <1>7, <2>1
<1>13. CASE UNCHANGED vars
  <2>1. UNCHANGED <<tree, kind, spare, open>>
    BY <1>13 DEF vars
  <2>2. QED
    BY <1>5, <1>6, <1>7, <2>1
<1>14. QED
  BY <1>1, <1>8, <1>9, <1>10, <1>11, <1>12, <1>13 DEF Next

\* Whatever is appended, and however often a file is rewritten, the tree of a
\* file is one that the disk format allows, and so is that of a directory, but
\* for the places of the blocks that append_extent adds to one with an extent
\* of the longest length.
THEOREM TreeInvariant == Spec => []IInv
<1>1. Init => IInv
  BY InitInv
<1>2. IInv /\ [Next]_vars => IInv'
  BY StepInv
<1>3. QED
  BY <1>1, <1>2, PTL DEF Spec

\* What the invariant says of the tree, whichever kind it is.
LEMMA ShapeCases ==
    ASSUME NEW t, NEW type, NEW whole, Shape(t, type, whole)
    PROVE  \/ \E span : Ordered(t, span)
           \/ type = "dir" /\ Overgrown(t)
  BY DEF Shape, Directory, Allowed, Fixed

LEMMA AllowedType ==
    ASSUME NEW t, NEW span, Ordered(t, span), NEW p \in DOMAIN t,
           NEW i \in DOMAIN t[p].entries, NEW e, e = t[p].entries[i]
    PROVE  /\ e.block \in 0..(LogicalLimit - 1)
           /\ IF t[p].depth = 0 THEN e.len \in 1..(2 * LongBit - 1)
              ELSE t[e.child].depth = t[p].depth - 1
<1>1. /\ OrderedNode(t, span, p) /\ Nodes(t)
      /\ span[p].to \in Nat /\ span[p].to < LogicalLimit /\ LogicalLimit \in Nat
  BY OrderedNodes, SpanOf, LimitsAssumption DEF Ordered
<1>2. End(t, span, p, i) <= span[p].to
  BY <1>1 DEF OrderedNode
<1>3. CASE t[p].depth = 0
  <2>1. t[p].entries \in Seq(LeafEntries)
    BY <1>1, <1>3, Parsed
  <2>2. e \in LeafEntries
    BY <2>1, ElementsOf
  <2>3. e.block \in Nat /\ LeafEnd(e) \in Nat /\ e.block < LeafEnd(e)
    BY <2>2, LeafCounts
  <2>4. LeafEnd(e) <= span[p].to
    BY <1>2, <1>3 DEF End, LeafEnd
  <2>5. e.len \in 1..(2 * LongBit - 1)
    BY <2>2 DEF LeafEntries
  <2>6. QED
    BY <1>1, <1>3, <2>3, <2>4, <2>5
<1>4. CASE t[p].depth # 0
  <2>1. ParseIndices(t[p]) = t[p].entries
    BY <1>1, <1>4, Parsed
  <2>2. DOMAIN t[p].entries = 1..Len(t[p].entries)
    BY <1>1, <2>1, Parsed, ElementsOf
  <2>3. /\ e.child \in DOMAIN t /\ t[e.child].depth = t[p].depth - 1
        /\ span[e.child].from = e.block /\ span[e.child].to <= span[p].to
    BY <1>4, <2>2, ChildOf
  <2>4. /\ span[e.child].from \in Nat /\ span[e.child].to \in Nat
        /\ span[e.child].from <= span[e.child].to
    BY <2>3, SpanOf
  <2>5. e.block \in 0..(LogicalLimit - 1)
    BY <1>1, <2>3, <2>4
  <2>6. QED
    BY <1>4, <2>3, <2>5
<1>5. QED
  BY <1>3, <1>4

TypedTree(t) ==
    /\ Root \in DOMAIN t
    /\ \A p \in DOMAIN t :
        /\ t[p].depth \in 0..MaxDepth
        /\ \A i \in DOMAIN t[p].entries :
            LET e == t[p].entries[i]
            IN  /\ e.block \in 0..(LogicalLimit - 1)
                /\ IF t[p].depth = 0 THEN e.len \in 1..(2 * LongBit - 1)
                   ELSE t[e.child].depth = t[p].depth - 1
    /\ Len(t[Root].entries) <= t[Root].max

LEMMA OrderedTyped ==
    ASSUME NEW t, NEW span, Ordered(t, span)
    PROVE  TypedTree(t)
<1>1. Root \in DOMAIN t /\ Len(t[Root].entries) <= t[Root].max
  BY DEF Ordered
<1>2. \A p \in DOMAIN t : t[p].depth \in 0..MaxDepth
  BY OrderedNodes, Parsed
<1>3. \A p \in DOMAIN t : \A i \in DOMAIN t[p].entries :
        LET e == t[p].entries[i]
        IN  /\ e.block \in 0..(LogicalLimit - 1)
            /\ IF t[p].depth = 0 THEN e.len \in 1..(2 * LongBit - 1)
               ELSE t[e.child].depth = t[p].depth - 1
  BY AllowedType
<1>4. QED
  BY <1>1, <1>2, <1>3 DEF TypedTree

LEMMA OvergrownTyped ==
    ASSUME NEW t, Overgrown(t)
    PROVE  TypedTree(t)
<1> DEFINE es == t[Root].entries
<1>1. Shallow(t) /\ DOMAIN t = {Root} /\ Len(es) <= t[Root].max
  BY DEF Overgrown, Shallow
<1>2. t[Root].depth = 0 /\ es \in Seq(LeafEntries)
  BY <1>1, ShallowTree
<1>3. DOMAIN es = 1..Len(es)
  BY <1>2, ElementsOf
<1>4. ASSUME NEW i \in 1..Len(es)
      PROVE  es[i].block \in 0..(LogicalLimit - 1) /\ es[i].len \in 1..(2 * LongBit - 1)
  <2>1. LeafEnd(es[i]) < LogicalLimit
    BY <1>1 DEF Shallow
  <2>2. es[i] \in LeafEntries
    BY <1>2, ElementsOf
  <2>3. es[i].block \in Nat /\ LeafEnd(es[i]) \in Nat /\ es[i].block < LeafEnd(es[i])
    BY <2>2, LeafCounts
  <2>4. es[i].len \in 1..(2 * LongBit - 1)
    BY <2>2 DEF LeafEntries
  <2> HIDE DEF es
  <2>5. es[i].block \in 0..(LogicalLimit - 1)
    BY <2>1, <2>3, LimitsAssumption
  <2>6. QED
    BY <2>4, <2>5
<1>5. 0 \in 0..MaxDepth
  BY LimitsAssumption
<1>6. QED
  BY <1>1, <1>2, <1>3, <1>4, <1>5 DEF TypedTree

\* Nodes keep the shape that their depth says, and the root never has more
\* entries than its max (append_extent's check).
THEOREM TypeCorrect == Spec => []TypeOK
<1>1. IInv => TypeOK
  <2>1. SUFFICES ASSUME IInv PROVE TypeOK
    OBVIOUS
  <2>2. PICK t : t = tree
    OBVIOUS
  <2>3. Shape(t, kind, open)
    BY <2>1, <2>2 DEF IInv
  <2>4. TypedTree(t)
    BY <2>3, ShapeCases, OrderedTyped, OvergrownTyped
  <2>5. QED
    BY <2>1, <2>2, <2>4 DEF IInv, TypeOK, TypedTree
<1>2. QED
  BY <1>1, TreeInvariant, PTL

\* The extents of every tree, appended to or not, stay sorted and disjoint:
\* what every binary search of them relies on.  Only an append to a directory
\* that ends with an extent of the longest length is on top of that extent.
THEOREM ExtentsStaySorted == Spec => []ExtentsSorted
<1>1. IInv => ExtentsSorted
  <2>1. SUFFICES ASSUME IInv PROVE ExtentsSorted
    OBVIOUS
  <2>2. PICK t : t = tree
    OBVIOUS
  <2>3. Shape(t, kind, open)
    BY <2>1, <2>2 DEF IInv
  <2>4. PICK leaves : leaves = ResolveExtents(t)
    OBVIOUS
  <2> DEFINE end(leaf) == IF kind = "dir" /\ Longest(leaf) THEN leaf.block
                          ELSE leaf.block + TrueCount(leaf)
  <2>5. ASSUME \E span : Ordered(t, span)
        PROVE  \A i, j \in DOMAIN leaves : i < j => end(leaves[i]) <= leaves[j].block
    <3>1. PICK span : Ordered(t, span)
      BY <2>5
    <3>2. leaves \in Seq(LeafEntries) /\ Part(leaves, 0, span[Root].to)
      BY <2>4, <3>1, ResolvedTree
    <3>3. \A i \in 1..Len(leaves) : leaves[i] \in LeafEntries
      BY <3>2, ElementsOf
    <3>4. \A i \in 1..Len(leaves) :
            /\ leaves[i].block \in Nat /\ end(leaves[i]) \in Nat
            /\ LeafEnd(leaves[i]) \in Nat /\ end(leaves[i]) <= LeafEnd(leaves[i])
      BY <3>3, LeafCounts DEF LeafEnd
    <3>5. \A i, j \in 1..Len(leaves) : i < j => LeafEnd(leaves[i]) <= leaves[j].block
      BY <3>2 DEF Part
    <3> HIDE DEF end
    <3>6. \A i, j \in 1..Len(leaves) : i < j => end(leaves[i]) <= leaves[j].block
      BY <3>4, <3>5
    <3>7. DOMAIN leaves = 1..Len(leaves)
      BY <3>2, ElementsOf
    <3>8. QED
      BY <3>6, <3>7
  <2>6. ASSUME kind = "dir" /\ Overgrown(t)
        PROVE  \A i, j \in DOMAIN leaves : i < j => end(leaves[i]) <= leaves[j].block
    <3>1. leaves = t[Root].entries /\ leaves \in Seq(LeafEntries)
      BY <2>4, <2>6, ShallowTree DEF Overgrown
    <3>2. \A i, j \in 1..Len(leaves) : i < j => CodeEnd(leaves[i]) <= leaves[j].block
      BY <2>6, <3>1 DEF Overgrown, Laid
    <3>3. \A i : end(leaves[i]) = CodeEnd(leaves[i])
      BY <2>6 DEF CodeEnd, LeafEnd
    <3>4. DOMAIN leaves = 1..Len(leaves)
      BY <3>1, ElementsOf
    <3> HIDE DEF end
    <3>5. QED
      BY <3>2, <3>3, <3>4
  <2>7. \A i, j \in DOMAIN leaves : i < j => end(leaves[i]) <= leaves[j].block
    BY <2>3, <2>5, <2>6, ShapeCases
  <2>8. QED
    BY <2>2, <2>4, <2>7 DEF ExtentsSorted
<1>2. QED
  BY <1>1, TreeInvariant, PTL

-----------------------------------------------------------------------------
(* The binary search of find_index_for_block.                              *)

LEMMA Middle ==
    ASSUME NEW lo \in Nat, NEW hi \in Nat, lo < hi
    PROVE  lo + (hi - lo) \div 2 \in lo..(hi - 1)
<1>1. hi - lo \in Nat /\ 2 \in Nat \ {0}
  OBVIOUS
<1>2. PICK q, r : q = (hi - lo) \div 2 /\ r = (hi - lo) % 2
  OBVIOUS
<1>3. q \in Nat /\ r \in 0..1 /\ hi - lo = 2 * q + r
  BY <1>1, <1>2, DivMod
<1>4. lo + q \in lo..(hi - 1)
  BY <1>3
<1>5. QED
  BY <1>2, <1>4

\* Where a search between lo and hi ends, when the first c entries start at or
\* before the block.
Clamp(lo, hi, c) == IF lo >= hi \/ c < lo THEN lo ELSE IF c > hi THEN hi ELSE c

\* One step of the search keeps that.
LEMMA ClampStep ==
    ASSUME NEW c \in Nat, NEW lo \in Nat, NEW hi \in Nat, NEW mid \in lo..(hi - 1)
    PROVE  Clamp(lo, hi, c) = IF mid + 1 <= c THEN Clamp(mid + 1, hi, c) ELSE Clamp(lo, mid, c)
  BY DEF Clamp

\* The first c indices, and no others, start at or before the block.
FirstOnes(indices, l, c) ==
    /\ c \in 0..Len(indices)
    /\ \A k \in 1..Len(indices) : indices[k].block <= l <=> k <= c

Searches(S, indices, l) ==
    S = [lo \in 0..Len(indices) |-> [hi \in 0..Len(indices) |->
            LET mid == lo + (hi - lo) \div 2
            IN  IF lo >= hi THEN lo
                ELSE IF indices[mid + 1].block <= l THEN S[mid + 1][hi]
                ELSE S[lo][mid]]]

LEMMA SearchesExists ==
    ASSUME NEW indices, Len(indices) \in Nat, NEW l, NEW c, FirstOnes(indices, l, c)
    PROVE  \E S : Searches(S, indices, l)
<1> DEFINE n == Len(indices)
           S == [lo \in 0..n |-> [hi \in 0..n |-> Clamp(lo, hi, c)]]
           cell(lo, hi) == LET mid == lo + (hi - lo) \div 2
                           IN  IF lo >= hi THEN lo
                               ELSE IF indices[mid + 1].block <= l THEN S[mid + 1][hi]
                               ELSE S[lo][mid]
<1>1. c \in 0..n /\ n \in Nat /\ \A k \in 1..n : indices[k].block <= l <=> k <= c
  BY DEF FirstOnes
<1>2. ASSUME NEW lo \in 0..n, NEW hi \in 0..n
      PROVE  Clamp(lo, hi, c) = cell(lo, hi)
  <2>1. CASE lo >= hi
    BY <2>1 DEF Clamp
  <2>2. CASE ~ (lo >= hi)
    <3>1. PICK mid : mid = lo + (hi - lo) \div 2
      OBVIOUS
    <3>2. mid \in lo..(hi - 1)
      BY <2>2, <3>1, Middle
    <3>3. mid + 1 \in 1..n /\ mid + 1 \in 0..n /\ mid \in 0..n
      BY <1>1, <3>2
    <3>4. cell(lo, hi) = IF indices[mid + 1].block <= l THEN S[mid + 1][hi] ELSE S[lo][mid]
      BY <2>2, <3>1
    <3>5. S[mid + 1][hi] = Clamp(mid + 1, hi, c) /\ S[lo][mid] = Clamp(lo, mid, c)
      BY <3>3
    <3>6. indices[mid + 1].block <= l <=> mid + 1 <= c
      BY <1>1, <3>3
    <3>7. Clamp(lo, hi, c) = IF mid + 1 <= c THEN Clamp(mid + 1, hi, c) ELSE Clamp(lo, mid, c)
      BY <1>1, <3>2, ClampStep
    <3> HIDE DEF cell
    <3>8. QED
      BY <3>4, <3>5, <3>6, <3>7
  <2>3. QED
    BY <2>1, <2>2
<1> HIDE DEF cell
<1>3. S = [lo \in 0..n |-> [hi \in 0..n |-> cell(lo, hi)]]
  BY <1>2
<1> HIDE DEF S
<1>4. Searches(S, indices, l)
  BY <1>3, Zenon DEF Searches, cell
<1>5. QED
  BY <1>4

LEMMA SearchesEnd ==
    ASSUME NEW indices, Len(indices) \in Nat, NEW l, NEW c, FirstOnes(indices, l, c),
           NEW S, Searches(S, indices, l)
    PROVE  S[0][Len(indices)] = c
<1> DEFINE n == Len(indices)
           cell(lo, hi) == LET mid == lo + (hi - lo) \div 2
                           IN  IF lo >= hi THEN lo
                               ELSE IF indices[mid + 1].block <= l THEN S[mid + 1][hi]
                               ELSE S[lo][mid]
           Bad == {g \in 0..n : \E lo, hi \in 0..n : g = hi - lo /\ S[lo][hi] # Clamp(lo, hi, c)}
<1>1. c \in 0..n /\ n \in Nat /\ \A k \in 1..n : indices[k].block <= l <=> k <= c
  BY DEF FirstOnes
<1>2. S = [lo \in 0..n |-> [hi \in 0..n |-> cell(lo, hi)]]
  BY Zenon DEF Searches
<1>3. \A lo, hi \in 0..n : S[lo][hi] = cell(lo, hi)
  <2> HIDE DEF cell
  <2>1. QED
    BY <1>2
<1>4. \A lo, hi \in 0..n : lo >= hi => S[lo][hi] = Clamp(lo, hi, c)
  BY <1>3 DEF Clamp
<1>5. ASSUME Bad # {} PROVE FALSE
  <2>1. PICK g \in Bad : \A j \in Bad : g <= j
    <3>1. Bad \in SUBSET Nat
      OBVIOUS
    <3> HIDE DEF Bad
    <3>2. QED
      BY <1>5, <3>1, MinExists
  <2>2. PICK lo, hi \in 0..n : g = hi - lo /\ S[lo][hi] # Clamp(lo, hi, c)
    BY <2>1
  <2>3. ~ (lo >= hi)
    BY <1>4, <2>2
  <2>4. PICK mid : mid = lo + (hi - lo) \div 2
    OBVIOUS
  <2>5. mid \in lo..(hi - 1)
    BY <2>3, <2>4, Middle
  <2>6. mid + 1 \in 1..n /\ mid + 1 \in 0..n /\ mid \in 0..n
    BY <1>1, <2>5
  <2>7. S[lo][hi] = IF indices[mid + 1].block <= l THEN S[mid + 1][hi] ELSE S[lo][mid]
    BY <1>3, <2>3, <2>4
  <2>8. indices[mid + 1].block <= l <=> mid + 1 <= c
    BY <1>1, <2>6
  <2>9. Clamp(lo, hi, c) = IF mid + 1 <= c THEN Clamp(mid + 1, hi, c) ELSE Clamp(lo, mid, c)
    BY <1>1, <2>5, ClampStep
  <2>10. ASSUME NEW a \in 0..n, NEW b \in 0..n, b - a < g
         PROVE  S[a][b] = Clamp(a, b, c)
    <3>1. CASE a >= b
      BY <1>4, <3>1
    <3>2. CASE ~ (a >= b)
      <4>1. b - a \in 0..n
        BY <1>1, <3>2
      <4>2. b - a \notin Bad
        <5>1. b - a \in Bad => g <= b - a
          BY <2>1
        <5>2. g \in Nat
          BY <2>1
        <5>3. ~ (g <= b - a)
          BY <1>1, <2>10, <4>1, <5>2
        <5> HIDE DEF Bad
        <5>4. QED
          BY <5>1, <5>3
      <4>3. QED
        BY <4>1, <4>2
    <3>3. QED
      BY <3>1, <3>2
  <2>11. hi - (mid + 1) < g /\ mid - lo < g
    BY <1>1, <2>2, <2>5
  <2>12. S[mid + 1][hi] = Clamp(mid + 1, hi, c) /\ S[lo][mid] = Clamp(lo, mid, c)
    BY <2>6, <2>10, <2>11
  <2>13. QED
    BY <2>2, <2>7, <2>8, <2>9, <2>12
<1>6. 0 \in 0..n /\ n \in 0..n /\ n = n - 0 /\ n \notin Bad
  BY <1>1, <1>5
<1>7. S[0][n] = Clamp(0, n, c)
  BY <1>6
<1>8. Clamp(0, n, c) = c
  BY <1>1 DEF Clamp
<1>9. QED
  BY <1>7, <1>8

\* find_index_for_block counts the entries that start at or before the block.
LEMMA FindIndexIs ==
    ASSUME NEW indices, Len(indices) \in Nat, NEW l \in Nat,
           \A k \in 1..Len(indices) : indices[k].block \in Nat,
           \A j, k \in 1..Len(indices) : j < k => indices[j].block <= indices[k].block
    PROVE  FirstOnes(indices, l, FindIndex(indices, l))
<1> DEFINE n == Len(indices)
           T == {k \in 0..n : k = n \/ ~ (indices[k + 1].block <= l)}
           c == Min(T)
           S == CHOOSE R : Searches(R, indices, l)
<1>1. FirstOnes(indices, l, c)
  <2>1. n \in T /\ T \in SUBSET Nat
    OBVIOUS
  <2>2. c \in T /\ \A y \in T : c <= y
    <3> HIDE DEF T
    <3>1. QED
      BY <2>1, MinExists
  <2> HIDE DEF c
  <2>3. c \in 0..n /\ (c = n \/ ~ (indices[c + 1].block <= l))
    BY <2>2
  <2>4. ASSUME NEW k \in 1..n, k <= c
        PROVE  indices[k].block <= l
    <3>1. k - 1 \in 0..n /\ k - 1 < c /\ k - 1 # n /\ (k - 1) + 1 = k
      BY <2>3, <2>4
    <3>2. k - 1 \notin T
      <4>1. k - 1 \in T => c <= k - 1
        BY <2>2
      <4>2. QED
        BY <2>3, <3>1, <4>1
    <3>3. QED
      BY <3>1, <3>2
  <2>5. ASSUME NEW k \in 1..n, ~ (k <= c)
        PROVE  ~ (indices[k].block <= l)
    <3>1. c # n /\ c + 1 \in 1..n /\ (c + 1 = k \/ c + 1 < k)
      BY <2>3, <2>5
    <3>2. ~ (indices[c + 1].block <= l) /\ indices[c + 1].block <= indices[k].block
          /\ indices[c + 1].block \in Nat /\ indices[k].block \in Nat
      BY <2>3, <3>1
    <3>3. QED
      BY <3>2
  <2>6. QED
    BY <2>3, <2>4, <2>5 DEF FirstOnes
<1> HIDE DEF c
<1>2. Searches(S, indices, l)
  BY <1>1, SearchesExists, Zenon
<1>3. FindIndex(indices, l) = S[0][n]
  BY Zenon DEF FindIndex, Searches
<1> HIDE DEF S
<1>4. S[0][n] = c
  BY <1>1, <1>2, SearchesEnd
<1>5. QED
  BY <1>1, <1>3, <1>4

-----------------------------------------------------------------------------
(* Lookups.                                                                *)

LEMMA PartOf ==
    ASSUME NEW L \in Seq(LeafEntries), NEW from, NEW to, Part(L, from, to), NEW e \in ToSet(L)
    PROVE  e \in LeafEntries /\ from <= e.block /\ LeafEnd(e) <= to
<1>1. PICK k \in 1..Len(L) : L[k] = e
  BY ToSetIs
<1>2. L[k] \in LeafEntries
  BY ElementsOf
<1>3. QED
  BY <1>1, <1>2 DEF Part

\* contains_block is right where no sum wraps around, but for the one length.
LEMMA ContainsIs ==
    ASSUME NEW e \in LeafEntries, LeafEnd(e) < LogicalLimit, NEW l \in Nat
    PROVE  ContainsBlock(e, l) <=> (e.len # LongBit /\ e.block <= l /\ l < LeafEnd(e))
<1>1. /\ e.block \in Nat /\ LeafEnd(e) \in Nat /\ TrueCount(e) \in Nat
      /\ BlockCount(e) = IF e.len = LongBit THEN 0 ELSE TrueCount(e)
      /\ e.block < LeafEnd(e) /\ LogicalLimit \in Nat
  BY LeafCounts, LimitsAssumption
<1>2. e.block + BlockCount(e) \in Nat /\ e.block + BlockCount(e) < LogicalLimit
  BY <1>1 DEF LeafEnd
<1>3. Wrap(e.block + BlockCount(e)) = e.block + BlockCount(e)
  BY <1>1, <1>2 DEF Wrap
<1>4. CASE e.len = LongBit
  BY <1>1, <1>3, <1>4 DEF ContainsBlock
<1>5. CASE e.len # LongBit
  BY <1>1, <1>3, <1>5 DEF ContainsBlock, LeafEnd
<1>6. QED
  BY <1>4, <1>5

\* find_leaf_for_block finds the one extent that contains the block, if any does.
FindsIn(L, l, found) ==
    /\ \A e \in ToSet(L) : ContainsBlock(e, l) => found = MapBlock(e, l)
    /\ (\A e \in ToSet(L) : ~ ContainsBlock(e, l)) => found = Unmapped

LEMMA FindLeafIs ==
    ASSUME NEW L \in Seq(LeafEntries), NEW from \in Nat, NEW to \in Nat, Part(L, from, to),
           to < LogicalLimit, NEW l \in Nat
    PROVE  FindsIn(L, l, FindLeaf(L, l))
<1> DEFINE H == Hits(L, l)
<1>1. DOMAIN L = 1..Len(L) /\ Len(L) \in Nat /\ \A k \in 1..Len(L) : L[k] \in LeafEntries
  BY ElementsOf
<1>2. H = {i \in 1..Len(L) : ContainsBlock(L[i], l)}
  BY <1>1 DEF Hits
<1>3. LogicalLimit \in Nat
  BY LimitsAssumption
<1>4. ASSUME NEW k \in H
      PROVE  L[k].block <= l /\ l < LeafEnd(L[k]) /\ L[k].block \in Nat /\ LeafEnd(L[k]) \in Nat
  <2>1. k \in 1..Len(L) /\ ContainsBlock(L[k], l) /\ L[k] \in LeafEntries
    BY <1>1, <1>2
  <2>2. LeafEnd(L[k]) <= to /\ LeafEnd(L[k]) \in Nat /\ L[k].block \in Nat
    BY <2>1, LeafCounts DEF Part
  <2>3. LeafEnd(L[k]) < LogicalLimit
    BY <1>3, <2>2
  <2>4. QED
    BY <2>1, <2>2, <2>3, ContainsIs
<1>5. \A j, k \in H : j < k => FALSE
  <2>1. SUFFICES ASSUME NEW j \in H, NEW k \in H, j < k PROVE FALSE
    OBVIOUS
  <2>2. LeafEnd(L[j]) <= L[k].block
    BY <1>2, <2>1 DEF Part
  <2> HIDE DEF H
  <2>3. L[k].block <= l /\ l < LeafEnd(L[j]) /\ L[k].block \in Nat /\ LeafEnd(L[j]) \in Nat
    BY <1>4
  <2>4. QED
    BY <2>2, <2>3
<1>6. \A j, k \in H : j = k
  <2>1. \A j, k \in H : j \in Nat /\ k \in Nat
    BY <1>1, <1>2
  <2> HIDE DEF H
  <2>2. QED
    BY <1>5, <2>1
<1>7. FindLeaf(L, l) = IF H = {} THEN Unmapped ELSE MapBlock(L[Min(H)], l)
  BY DEF FindLeaf
<1>8. ASSUME NEW e \in ToSet(L), ContainsBlock(e, l)
      PROVE  FindLeaf(L, l) = MapBlock(e, l)
  <2>1. PICK k \in 1..Len(L) : L[k] = e
    BY ToSetIs
  <2>2. k \in H
    BY <1>2, <1>8, <2>1
  <2>3. H \in SUBSET Nat
    BY <1>1, <1>2
  <2> HIDE DEF H
  <2>4. Min(H) \in H
    BY <2>2, <2>3, MinExists
  <2>5. Min(H) = k
    BY <1>6, <2>2, <2>4
  <2>6. QED
    BY <1>7, <2>1, <2>2, <2>5
<1>9. ASSUME \A e \in ToSet(L) : ~ ContainsBlock(e, l)
      PROVE  FindLeaf(L, l) = Unmapped
  <2>1. \A k \in 1..Len(L) : L[k] \in ToSet(L)
    BY ToSetIs
  <2>2. H = {}
    BY <1>2, <1>9, <2>1
  <2>3. QED
    BY <1>7, <2>2
<1>10. QED
  BY <1>8, <1>9 DEF FindsIn

\* The indices of a node are in the order that the search needs.
LEMMA IndicesSorted ==
    ASSUME NEW t, NEW span, Ordered(t, span), NEW p \in DOMAIN t, NEW l \in Nat
    PROVE  FirstOnes(ParseIndices(t[p]), l, FindIndex(ParseIndices(t[p]), l))
<1>1. Nodes(t)
  BY OrderedNodes
<1> DEFINE es == ParseIndices(t[p])
<1>2. Len(es) \in Nat
  BY <1>1, Parsed, ElementsOf
<1>3. CASE t[p].depth = 0
  <2>1. Len(es) = 0
    <3>1. es = <<>>
      BY <1>1, <1>3, Parsed
    <3> HIDE DEF es
    <3>2. QED
      BY <3>1
  <2> HIDE DEF es
  <2>2. \A k \in 1..Len(es) : FALSE
    BY <2>1
  <2>3. FirstOnes(es, l, FindIndex(es, l))
    BY <1>2, <2>2, FindIndexIs
  <2>4. QED
    BY <2>3 DEF es
<1>4. CASE t[p].depth # 0
  <2>1. es = t[p].entries
    BY <1>1, <1>4, Parsed
  <2>2. \A k \in 1..Len(es) : /\ es[k].child \in DOMAIN t
                              /\ span[es[k].child].from = es[k].block
                              /\ \A j \in 1..Len(es) : k < j => span[es[k].child].to <= es[j].block
    BY <1>4, <2>1, ChildOf
  <2> HIDE DEF es
  <2>3. \A k \in 1..Len(es) :
          /\ span[es[k].child].from \in Nat /\ span[es[k].child].to \in Nat
          /\ span[es[k].child].from <= span[es[k].child].to
    BY <2>2, SpanOf
  <2>4. \A k \in 1..Len(es) : es[k].block \in Nat
    BY <2>2, <2>3
  <2>5. ASSUME NEW j \in 1..Len(es), NEW k \in 1..Len(es), j < k
        PROVE  es[j].block <= es[k].block
    <3>1. /\ span[es[j].child].from = es[j].block
          /\ span[es[j].child].from <= span[es[j].child].to
          /\ span[es[j].child].to <= es[k].block
          /\ span[es[j].child].to \in Nat /\ es[j].block \in Nat /\ es[k].block \in Nat
      BY <2>2, <2>3, <2>4, <2>5
    <3>2. QED
      BY <3>1
  <2>6. FirstOnes(es, l, FindIndex(es, l))
    BY <1>2, <2>4, <2>5, FindIndexIs
  <2>7. QED
    BY <2>6 DEF es
<1>5. QED
  BY <1>3, <1>4

\* The recursion of the descent.
Descends(G, t, l) ==
    G = [d \in 0..MaxDepth |-> [place \in DOMAIN t |->
            IF d = 0 THEN FindLeaf(ParseLeaves(t[place]), l)
            ELSE LET indices == ParseIndices(t[place])
                     at == FindIndex(indices, l)
                 IN  IF at = 0 THEN Unmapped ELSE G[d - 1][indices[at].child]]]

\* The binary search of a node yields a child, or nothing.
Leads(t, l) ==
    \A p \in DOMAIN t :
        LET at == FindIndex(ParseIndices(t[p]), l)
        IN  at # 0 => ParseIndices(t[p])[at].child \in DOMAIN t

LEMMA OrderedLeads ==
    ASSUME NEW t, NEW span, Ordered(t, span), NEW l \in Nat
    PROVE  Leads(t, l)
<1> DEFINE at(p) == FindIndex(ParseIndices(t[p]), l)
           child(p) == ParseIndices(t[p])[at(p)].child
<1>1. \A p \in DOMAIN t : at(p) # 0 => child(p) \in DOMAIN t
  <2>1. SUFFICES ASSUME NEW p \in DOMAIN t, at(p) # 0 PROVE child(p) \in DOMAIN t
    OBVIOUS
  <2> DEFINE S == [block : Nat, child : DOMAIN t]
             es == ParseIndices(t[p])
  <2>2. es \in Seq(S)
    BY OrderedNodes, Parsed
  <2>3. FirstOnes(es, l, at(p))
    BY IndicesSorted
  <2> HIDE DEF S, es, at
  <2>4. at(p) \in 1..Len(es)
    BY <2>1, <2>2, <2>3, ElementsOf DEF FirstOnes
  <2>5. es[at(p)] \in S
    BY <2>2, <2>4, ElementsOf
  <2>6. es[at(p)].child \in DOMAIN t
    BY <2>5 DEF S
  <2>7. QED
    BY <2>6 DEF es
<1>2. QED
  BY <1>1 DEF Leads

LEMMA DescendsExists ==
    ASSUME NEW t, NEW l \in Nat, Leads(t, l)
    PROVE  \E G : Descends(G, t, l)
<1> DEFINE W == {Unmapped} \cup {FindLeaf(ParseLeaves(t[p]), l) : p \in DOMAIN t}
           V == [DOMAIN t -> W]
           first == [p \in DOMAIN t |-> FindLeaf(ParseLeaves(t[p]), l)]
           at(p) == FindIndex(ParseIndices(t[p]), l)
           child(p) == ParseIndices(t[p])[at(p)].child
           step == [d \in 1..MaxDepth |-> [v \in V |->
                       [p \in DOMAIN t |-> IF at(p) = 0 THEN Unmapped ELSE v[child(p)]]]]
           row(G, d) == [place \in DOMAIN t |->
               IF d = 0 THEN FindLeaf(ParseLeaves(t[place]), l)
               ELSE IF at(place) = 0 THEN Unmapped ELSE G[d - 1][child(place)]]
<1>1. MaxDepth \in Nat /\ MaxDepth \in 0..MaxDepth /\ 0 \in 0..MaxDepth
  BY LimitsAssumption
<1>2. first \in V
  OBVIOUS
<1>3. \A p \in DOMAIN t : at(p) # 0 => child(p) \in DOMAIN t
  BY DEF Leads
<1> HIDE DEF at, child
<1>4. \A v \in V : [p \in DOMAIN t |-> IF at(p) = 0 THEN Unmapped ELSE v[child(p)]] \in V
  <2> HIDE DEF W
  <2>1. Unmapped \in W
    BY DEF W
  <2>2. QED
    BY <1>3, <2>1
<1>5. step \in [1..MaxDepth -> [V -> V]]
  <2> HIDE DEF V
  <2>1. QED
    BY <1>4
<1> HIDE DEF V, first, step
<1>6. PICK G \in [0..MaxDepth -> V] : Levels(G, first, step, MaxDepth)
  BY <1>1, <1>2, <1>5, LevelsExist
<1>7. \A d \in 0..MaxDepth : G[d] = IF d = 0 THEN first ELSE step[d][G[d - 1]]
  BY <1>6 DEF Levels
<1>8. ASSUME NEW d \in 0..MaxDepth
      PROVE  G[d] = row(G, d)
  <2>1. CASE d = 0
    BY <1>1, <1>7, <2>1 DEF first
  <2>2. CASE d # 0
    <3>1. d \in 1..MaxDepth /\ d - 1 \in 0..MaxDepth
      BY <1>1, <2>2
    <3>2. G[d - 1] \in V
      BY <1>6, <3>1
    <3>3. G[d] = step[d][G[d - 1]]
      BY <1>7, <2>2
    <3>4. G[d] = [p \in DOMAIN t |-> IF at(p) = 0 THEN Unmapped ELSE G[d - 1][child(p)]]
      BY <3>1, <3>2, <3>3 DEF step
    <3>5. QED
      BY <2>2, <3>4
  <2>3. QED
    BY <2>1, <2>2
<1>9. G = [d \in 0..MaxDepth |-> G[d]]
  BY <1>6
<1> HIDE DEF row
<1>10. G = [d \in 0..MaxDepth |-> row(G, d)]
  BY <1>8, <1>9
<1>11. Descends(G, t, l)
  BY <1>10, Zenon DEF row, at, child, Descends
<1>12. QED
  BY <1>11

LEMMA DescendRow ==
    ASSUME NEW t, NEW l, NEW G, Descends(G, t, l), NEW d \in 0..MaxDepth, NEW p \in DOMAIN t
    PROVE  LET es == ParseIndices(t[p])
               at == FindIndex(es, l)
           IN  G[d][p] = IF d = 0 THEN FindLeaf(ParseLeaves(t[p]), l)
                         ELSE IF at = 0 THEN Unmapped ELSE G[d - 1][es[at].child]
<1> DEFINE cell(e, q) == IF e = 0 THEN FindLeaf(ParseLeaves(t[q]), l)
               ELSE LET indices == ParseIndices(t[q])
                        at == FindIndex(indices, l)
                    IN  IF at = 0 THEN Unmapped ELSE G[e - 1][indices[at].child]
<1>1. G = [e \in 0..MaxDepth |-> [place \in DOMAIN t |-> cell(e, place)]]
  BY Zenon DEF Descends
<1> HIDE DEF cell
<1>2. G[d][p] = cell(d, p)
  BY <1>1
<1>3. QED
  BY <1>2, Zenon DEF cell

\* The descent from an upper node looks into the one child that can have the
\* block.
LEMMA DescendStep ==
    ASSUME NEW t, NEW span, Ordered(t, span), NEW F, LeafLevels(F, t), NEW l \in Nat,
           NEW q \in DOMAIN t, t[q].depth # 0, NEW d, d = t[q].depth,
           NEW c, c = FindIndex(t[q].entries, l)
    PROVE  /\ c = 0 => FindLeaf(F[d][q], l) = Unmapped
           /\ c # 0 => /\ t[q].entries[c].child \in DOMAIN t
                       /\ t[t[q].entries[c].child].depth = d - 1
                       /\ FindLeaf(F[d][q], l) = FindLeaf(F[d - 1][t[q].entries[c].child], l)
<1> DEFINE es == t[q].entries
           n == Len(es)
           L == F[d][q]
           ch(i) == es[i].child
           M(i) == F[d - 1][ch(i)]
<1>1. Nodes(t) /\ LogicalLimit \in Nat
  BY OrderedNodes, LimitsAssumption
<1>2. d \in 1..MaxDepth /\ d - 1 \in 0..MaxDepth /\ d \in 0..MaxDepth
  <2>1. d \in 1..MaxDepth /\ d - 1 \in 0..MaxDepth
    BY <1>1, LevelOf
  <2>2. QED
    BY <2>1
<1>3. PICK ss : Yields(ss, t, F, q, d)
  BY <1>1, LevelOf
<1>4. es = ParseIndices(t[q])
  BY <1>1, Parsed
<1>5. FirstOnes(es, l, c)
  BY <1>4, IndicesSorted
<1>6. n \in Nat
  BY <1>1, <1>4, Parsed, ElementsOf
<1>7. \A i \in 1..n :
        /\ ch(i) \in DOMAIN t /\ t[ch(i)].depth = d - 1
        /\ span[ch(i)].from = es[i].block
        /\ \A j \in 1..n : i < j => span[ch(i)].to <= es[j].block
  BY ChildOf
<1>8. \A p \in DOMAIN t : /\ span[p].from \in Nat /\ span[p].to \in Nat
                          /\ span[p].from <= span[p].to /\ span[p].to < LogicalLimit
  BY SpanOf
<1>9. \A e : e \in ToSet(L) <=> \E i \in 1..n : e \in ToSet(M(i))
  <2>1. SUFFICES ASSUME NEW e
                 PROVE  e \in ToSet(L) <=> \E i \in 1..n : e \in ToSet(M(i))
    OBVIOUS
  <2>2. e \in ToSet(F[d][q]) <=> \E i \in 1..Len(t[q].entries) : e \in ToSet(F[d - 1][t[q].entries[i].child])
    BY <1>3, Yielded
  <2>3. QED
    BY <2>2
<1>10. L \in Seq(LeafEntries) /\ Part(L, span[q].from, span[q].to)
  BY <1>2, LeavesInOrder DEF LeafLevels
<1>11. \A i \in 1..n : M(i) \in Seq(LeafEntries) /\ Part(M(i), span[ch(i)].from, span[ch(i)].to)
  <2>1. SUFFICES ASSUME NEW i \in 1..n
                 PROVE  M(i) \in Seq(LeafEntries) /\ Part(M(i), span[ch(i)].from, span[ch(i)].to)
    OBVIOUS
  <2>2. ch(i) \in DOMAIN t /\ t[ch(i)].depth = d - 1
    BY <1>7
  <2>3. M(i) \in Seq(LeafEntries)
    BY <1>2, <2>2 DEF LeafLevels
  <2>4. Part(F[t[ch(i)].depth][ch(i)], span[ch(i)].from, span[ch(i)].to)
    BY <2>2, LeavesInOrder
  <2>5. QED
    BY <2>2, <2>3, <2>4
<1>12. FindsIn(L, l, FindLeaf(L, l))
  BY <1>8, <1>10, FindLeafIs
<1> HIDE DEF L, M, ch, es
\* A block is in a child's leaf only if the search ends at that child.
<1>13. ASSUME NEW i \in 1..n, NEW e \in ToSet(M(i)), ContainsBlock(e, l)
       PROVE  i = c
  <2>1. e \in LeafEntries /\ span[ch(i)].from <= e.block /\ LeafEnd(e) <= span[ch(i)].to
    BY <1>11, PartOf
  <2>2. e.block \in Nat /\ LeafEnd(e) \in Nat
    BY <2>1, LeafCounts
  <2>3. ch(i) \in DOMAIN t /\ span[ch(i)].from = es[i].block
    BY <1>7
  <2>4. /\ span[ch(i)].from \in Nat /\ span[ch(i)].to \in Nat /\ span[ch(i)].to < LogicalLimit
    BY <1>8, <2>3
  <2>5. LeafEnd(e) < LogicalLimit
    BY <1>1, <2>1, <2>2, <2>4
  <2>6. e.block <= l /\ l < LeafEnd(e)
    BY <1>13, <2>1, <2>5, ContainsIs
  <2>7. es[i].block <= l
    BY <2>1, <2>2, <2>3, <2>4, <2>6
  <2>8. i <= c /\ c \in 0..n
    BY <1>5, <2>7 DEF FirstOnes
  <2>9. CASE i < c
    <3>1. c \in 1..n
      BY <1>6, <2>8, <2>9
    <3>2. es[c].block <= l
      BY <1>5, <3>1 DEF FirstOnes
    <3>3. span[ch(i)].to <= es[c].block
      BY <1>7, <2>9, <3>1
    <3>4. es[c].block \in Nat
      BY <1>7, <1>8, <3>1
    <3>5. QED
      BY <2>1, <2>2, <2>4, <2>6, <3>2, <3>3, <3>4
  <2>10. QED
    BY <1>6, <2>8, <2>9
<1>14. CASE c = 0
  <2>1. ASSUME NEW e \in ToSet(L) PROVE ~ ContainsBlock(e, l)
    <3>1. PICK i \in 1..n : e \in ToSet(M(i))
      BY <1>9
    <3>2. i # c
      BY <1>14
    <3>3. QED
      BY <1>13, <3>1, <3>2
  <2>2. FindLeaf(L, l) = Unmapped
    BY <1>12, <2>1 DEF FindsIn
  <2>3. QED
    BY <1>14, <2>2 DEF L
<1>15. CASE c # 0
  <2>1. c \in 1..n
    BY <1>5, <1>6, <1>15 DEF FirstOnes
  <2>2. ch(c) \in DOMAIN t /\ t[ch(c)].depth = d - 1
    BY <1>7, <2>1
  <2>3. FindsIn(M(c), l, FindLeaf(M(c), l))
    <3>1. M(c) \in Seq(LeafEntries) /\ Part(M(c), span[ch(c)].from, span[ch(c)].to)
      BY <1>11, <2>1
    <3>2. span[ch(c)].from \in Nat /\ span[ch(c)].to \in Nat /\ span[ch(c)].to < LogicalLimit
      BY <1>8, <2>2
    <3>3. QED
      BY <3>1, <3>2, FindLeafIs
  <2>4. FindLeaf(L, l) = FindLeaf(M(c), l)
    <3>1. CASE \E e \in ToSet(M(c)) : ContainsBlock(e, l)
      <4>1. PICK e \in ToSet(M(c)) : ContainsBlock(e, l)
        BY <3>1
      <4>2. e \in ToSet(L)
        BY <1>9, <2>1
      <4>3. FindLeaf(L, l) = MapBlock(e, l) /\ FindLeaf(M(c), l) = MapBlock(e, l)
        BY <1>12, <2>3, <4>1, <4>2 DEF FindsIn
      <4>4. QED
        BY <4>3
    <3>2. CASE \A e \in ToSet(M(c)) : ~ ContainsBlock(e, l)
      <4>1. \A e \in ToSet(L) : ~ ContainsBlock(e, l)
        BY <1>9, <1>13, <3>2
      <4>2. QED
        BY <1>12, <2>3, <3>2, <4>1 DEF FindsIn
    <3>3. QED
      BY <3>1, <3>2
  <2>5. QED
    BY <1>15, <2>2, <2>4 DEF L, M, ch, es
<1>16. QED
  BY <1>14, <1>15

LEMMA DescendLevels ==
    ASSUME NEW t, NEW span, Ordered(t, span), NEW F, LeafLevels(F, t), NEW l \in Nat,
           NEW G, Descends(G, t, l), NEW p \in DOMAIN t
    PROVE  G[t[p].depth][p] = FindLeaf(F[t[p].depth][p], l)
<1> DEFINE Bad == {d \in 0..MaxDepth : \E q \in DOMAIN t :
                      t[q].depth = d /\ G[d][q] # FindLeaf(F[d][q], l)}
<1>1. Nodes(t) /\ MaxDepth \in Nat
  BY OrderedNodes, LimitsAssumption
<1>2. t[p].depth \in 0..MaxDepth
  BY <1>1, Parsed
<1>3. SUFFICES ASSUME Bad # {} PROVE FALSE
  BY <1>2
<1>4. PICK d \in Bad : \A j \in Bad : d <= j
  <2>1. Bad \in SUBSET Nat
    OBVIOUS
  <2> HIDE DEF Bad
  <2>2. QED
    BY <1>3, <2>1, MinExists
<1>5. PICK q \in DOMAIN t : t[q].depth = d /\ G[d][q] # FindLeaf(F[d][q], l)
  BY <1>4
<1>6. CASE d = 0
  <2>1. F[0][q] = ParseLeaves(t[q])
    BY DEF LeafLevels
  <2>2. G[0][q] = FindLeaf(ParseLeaves(t[q]), l)
    BY <1>4, <1>6, DescendRow
  <2>3. QED
    BY <1>5, <1>6, <2>1, <2>2
<1>7. CASE d # 0
  <2>1. d - 1 \in 0..MaxDepth /\ d \in 0..MaxDepth
    BY <1>1, <1>4, <1>7
  <2>2. d - 1 \notin Bad
    <3>1. d - 1 \in Bad => d <= d - 1
      BY <1>4
    <3>2. QED
      BY <2>1, <3>1
  <2>3. PICK c : c = FindIndex(t[q].entries, l)
    OBVIOUS
  <2>4. ParseIndices(t[q]) = t[q].entries
    BY <1>1, <1>5, <1>7, Parsed
  <2>5. G[d][q] = IF c = 0 THEN Unmapped ELSE G[d - 1][t[q].entries[c].child]
    BY <1>7, <2>1, <2>3, <2>4, DescendRow
  <2>6. /\ c = 0 => FindLeaf(F[d][q], l) = Unmapped
        /\ c # 0 => /\ t[q].entries[c].child \in DOMAIN t
                    /\ t[t[q].entries[c].child].depth = d - 1
                    /\ FindLeaf(F[d][q], l) = FindLeaf(F[d - 1][t[q].entries[c].child], l)
    BY <1>5, <1>7, <2>3, DescendStep
  <2>7. c # 0 => G[d - 1][t[q].entries[c].child] = FindLeaf(F[d - 1][t[q].entries[c].child], l)
    BY <2>1, <2>2, <2>6
  <2>8. QED
    BY <1>5, <2>5, <2>6, <2>7
<1>8. QED
  BY <1>6, <1>7

\* find_index_for_block, level by level, finds what the search of all the
\* leaves of resolve_extents finds.
LEMMA DescendIs ==
    ASSUME NEW t, NEW span, Ordered(t, span), NEW l \in Nat
    PROVE  Descend(t, l) = FindLeaf(ResolveExtents(t), l)
<1>1. Nodes(t) /\ Root \in DOMAIN t
  BY OrderedNodes DEF Nodes
<1>2. PICK F : LeafLevels(F, t) /\ ResolveExtents(t) = F[t[Root].depth][Root]
  BY <1>1, ResolveExtentsIs
<1> DEFINE G == CHOOSE H : Descends(H, t, l)
<1>3. Descends(G, t, l)
  BY OrderedLeads, DescendsExists, Zenon
<1>4. Descend(t, l) = G[t[Root].depth][Root]
  BY Zenon DEF Descend, Descends
<1> HIDE DEF G
<1>5. G[t[Root].depth][Root] = FindLeaf(F[t[Root].depth][Root], l)
  BY <1>1, <1>2, <1>3, DescendLevels
<1>6. QED
  BY <1>2, <1>4, <1>5

LEMMA DescendShallow ==
    ASSUME NEW t, Shallow(t), NEW l \in Nat
    PROVE  Descend(t, l) = FindLeaf(ResolveExtents(t), l)
<1>1. /\ Nodes(t) /\ Root \in DOMAIN t /\ t[Root].depth = 0
      /\ ParseLeaves(t[Root]) = ResolveExtents(t)
  BY ShallowTree DEF Shallow
<1> DEFINE G == CHOOSE H : Descends(H, t, l)
<1>2. Descends(G, t, l)
  <2>1. ParseIndices(t[Root]) = <<>> /\ DOMAIN t = {Root}
    BY <1>1 DEF ParseIndices, Shallow
  <2>2. <<>> \in Seq([block : Nat, child : DOMAIN t]) /\ Len(<<>>) = 0
    OBVIOUS
  <2>3. FirstOnes(<<>>, l, FindIndex(<<>>, l))
    <3>1. \A i \in 1..0 : FALSE
      OBVIOUS
    <3>2. QED
      BY <2>2, <3>1, FindIndexIs
  <2>4. FindIndex(<<>>, l) = 0
    BY <2>2, <2>3 DEF FirstOnes
  <2>5. Leads(t, l)
    BY <2>1, <2>4 DEF Leads
  <2>6. QED
    BY <2>5, DescendsExists, Zenon
<1>3. Descend(t, l) = G[t[Root].depth][Root]
  BY Zenon DEF Descend, Descends
<1> HIDE DEF G
<1>4. 0 \in 0..MaxDepth
  BY LimitsAssumption
<1>5. G[0][Root] = FindLeaf(ParseLeaves(t[Root]), l)
  BY <1>1, <1>2, <1>4, DescendRow
<1>6. QED
  BY <1>1, <1>3, <1>5

\* In every tree that appends and rewrites lead to, going down by binary search
\* and looking through all the leaves find the same block.
THEOREM LookupsAlwaysAgree == Spec => []LookupsAgree
<1>1. IInv => LookupsAgree
  <2>1. SUFFICES ASSUME IInv PROVE LookupsAgree
    OBVIOUS
  <2>2. PICK t : t = tree
    OBVIOUS
  <2>3. (\E span : Ordered(t, span)) \/ Shallow(t)
    BY <2>1, <2>2, ShapeCases DEF IInv, Overgrown
  <2>4. \A l \in 0..(LogicalLimit - 1) : Descend(t, l) = FindLeaf(ResolveExtents(t), l)
    BY <2>3, DescendIs, DescendShallow
  <2>5. QED
    BY <2>2, <2>4 DEF LookupsAgree
<1>2. QED
  BY <1>1, TreeInvariant, PTL

-----------------------------------------------------------------------------
(* Reads.                                                                  *)

\* A block is in at most one extent.
LEMMA CoversOnce ==
    ASSUME NEW L \in Seq(LeafEntries), NEW from, NEW to, Part(L, from, to), NEW l \in Nat,
           NEW e \in ToSet(L), NEW f \in ToSet(L), Covers(e, l), Covers(f, l)
    PROVE  e = f
<1>1. PICK i \in 1..Len(L) : L[i] = e
  BY ToSetIs
<1>2. PICK j \in 1..Len(L) : L[j] = f
  BY ToSetIs
<1>3. e \in LeafEntries /\ f \in LeafEntries
  BY PartOf
<1>4. /\ e.block \in Nat /\ LeafEnd(e) \in Nat /\ f.block \in Nat /\ LeafEnd(f) \in Nat
      /\ e.block <= l /\ l < LeafEnd(e) /\ f.block <= l /\ l < LeafEnd(f)
  BY <1>3, LeafCounts DEF Covers, LeafEnd
<1>5. (i < j => LeafEnd(e) <= f.block) /\ (j < i => LeafEnd(f) <= e.block)
  BY <1>1, <1>2 DEF Part
<1>6. Len(L) \in Nat
  OBVIOUS
<1>7. i = j
  BY <1>4, <1>5, <1>6
<1>8. QED
  BY <1>1, <1>2, <1>7

\* What the code's reading and the disk format's of one extent have to do
\* with each other.
LEMMA ReadingsOf ==
    ASSUME NEW L \in Seq(LeafEntries), NEW from, NEW to \in Nat, Part(L, from, to),
           to < LogicalLimit, NEW l \in Nat, NEW e \in ToSet(L)
    PROVE  /\ ContainsBlock(e, l) <=> Covers(e, l) /\ ~ Longest(e)
           /\ ContainsBlock(e, l) <=> e.len # LongBit /\ e.block <= l /\ l < LeafEnd(e)
           /\ Covers(e, l) => MapBlock(e, l) \in Nat
<1>1. e \in LeafEntries /\ LeafEnd(e) <= to
  BY PartOf
<1>2. e.block \in Nat /\ e.start \in Nat /\ LeafEnd(e) \in Nat /\ LogicalLimit \in Nat
  BY <1>1, LeafCounts, LimitsAssumption
<1>3. LeafEnd(e) < LogicalLimit
  BY <1>1, <1>2
<1>4. ContainsBlock(e, l) <=> (e.len # LongBit /\ e.block <= l /\ l < LeafEnd(e))
  BY <1>1, <1>3, ContainsIs
<1>5. Covers(e, l) <=> (e.block <= l /\ l < LeafEnd(e))
  BY DEF Covers, LeafEnd
<1>6. Covers(e, l) => MapBlock(e, l) \in Nat
  BY <1>2, <1>5 DEF MapBlock
<1>7. QED
  BY <1>4, <1>5, <1>6 DEF Longest

LEMMA CorruptIsNoRead ==
    ASSUME NEW n \in Nat, NEW f, f = [l \in 0..(n - 1) |-> f[l]]
    PROVE  f # Corrupt
<1>1. DOMAIN f = 0..(n - 1)
  OBVIOUS
<1>2. DOMAIN Corrupt = 1..1
  BY DEF Corrupt
<1>3. CASE n = 0
  BY <1>1, <1>2, <1>3
<1>4. CASE n # 0
  <2>1. 0 \in 0..(n - 1) /\ 0 \notin 1..1
    BY <1>4
  <2>2. QED
    BY <1>1, <1>2, <2>1
<1>5. QED
  BY <1>3, <1>4

\* One block of a read.
LEMMA ReadBlock ==
    ASSUME NEW L \in Seq(LeafEntries), NEW to \in Nat, Part(L, 0, to),
           to < LogicalLimit, NEW l \in Nat
    PROVE  IF FindLeaf(L, l) = Unmapped
           THEN \A e \in ToSet(L) : Covers(e, l) => Longest(e)
           ELSE {e.start + (l - e.block) : e \in {f \in ToSet(L) : Covers(f, l)}} = {FindLeaf(L, l)}
<1>1. FindsIn(L, l, FindLeaf(L, l))
  BY FindLeafIs
<1>2. CASE \E e \in ToSet(L) : ContainsBlock(e, l)
  <2>1. PICK e \in ToSet(L) : ContainsBlock(e, l)
    BY <1>2
  <2>2. FindLeaf(L, l) = MapBlock(e, l)
    BY <1>1, <2>1 DEF FindsIn
  <2>3. Covers(e, l) /\ MapBlock(e, l) \in Nat
    BY <2>1, ReadingsOf
  <2>4. {f \in ToSet(L) : Covers(f, l)} = {e}
    BY <2>3, CoversOnce
  <2>5. FindLeaf(L, l) # Unmapped
    BY <2>2, <2>3 DEF Unmapped
  <2>6. {g.start + (l - g.block) : g \in {f \in ToSet(L) : Covers(f, l)}} = {FindLeaf(L, l)}
    BY <2>2, <2>4 DEF MapBlock
  <2>7. QED
    BY <2>5, <2>6
<1>3. CASE \A e \in ToSet(L) : ~ ContainsBlock(e, l)
  <2>1. FindLeaf(L, l) = Unmapped
    BY <1>1, <1>3 DEF FindsIn
  <2>2. \A e \in ToSet(L) : Covers(e, l) => Longest(e)
    BY <1>3, ReadingsOf
  <2>3. QED
    BY <2>1, <2>2
<1>4. QED
  BY <1>2, <1>3

RightRead(t, size, read) ==
    IF read = Corrupt
    THEN \E l \in 0..(size - 1) : \A e \in TrueLeaves(t) : Covers(e, l) => Longest(e)
    ELSE \A l \in 0..(size - 1) :
        {e.start + (l - e.block) : e \in {f \in TrueLeaves(t) : Covers(f, l)}} = {read[l]}

LEMMA ReadIs ==
    ASSUME NEW t, NEW span, Ordered(t, span), NEW size \in Nat,
           NEW read, read = ReadInodeData(t, size)
    PROVE  RightRead(t, size, read)
<1> DEFINE L == ResolveExtents(t)
           blocks == [l \in 0..(size - 1) |-> FindLeaf(L, l)]
<1>1. L \in Seq(LeafEntries) /\ Part(L, 0, span[Root].to) /\ ToSet(L) = TrueLeaves(t)
  BY ResolvedTree
<1>2. span[Root].to \in Nat /\ span[Root].to < LogicalLimit
  BY SpanOf DEF Ordered
<1>3. read = IF \E l \in 0..(size - 1) : blocks[l] = Unmapped THEN Corrupt ELSE blocks
  BY DEF ReadInodeData
<1> HIDE DEF L
<1>4. \A l \in 0..(size - 1) : l \in Nat /\ blocks[l] = FindLeaf(L, l)
  OBVIOUS
<1>5. \A l \in 0..(size - 1) :
        IF FindLeaf(L, l) = Unmapped
        THEN \A e \in ToSet(L) : Covers(e, l) => Longest(e)
        ELSE {e.start + (l - e.block) : e \in {f \in ToSet(L) : Covers(f, l)}} = {FindLeaf(L, l)}
  BY <1>1, <1>2, <1>4, ReadBlock
<1>6. blocks # Corrupt
  BY CorruptIsNoRead
<1> HIDE DEF blocks
<1>7. CASE \E l \in 0..(size - 1) : blocks[l] = Unmapped
  BY <1>1, <1>3, <1>4, <1>5, <1>7 DEF RightRead
<1>8. CASE ~ \E l \in 0..(size - 1) : blocks[l] = Unmapped
  <2>1. read = blocks /\ read # Corrupt
    BY <1>3, <1>6, <1>8
  <2>2. ASSUME NEW l \in 0..(size - 1)
        PROVE  {e.start + (l - e.block) : e \in {f \in TrueLeaves(t) : Covers(f, l)}} = {read[l]}
    <3>1. FindLeaf(L, l) # Unmapped /\ read[l] = FindLeaf(L, l)
      BY <1>4, <1>8, <2>1
    <3>2. QED
      BY <1>1, <1>5, <3>1
  <2>3. QED
    BY <2>1, <2>2 DEF RightRead
<1>9. QED
  BY <1>7, <1>8

\* read_file returns the blocks of the file, or an error at a hole or at an
\* extent of the longest length: never other blocks.
THEOREM ReadsExact == Spec => []ReadExact
<1>1. IInv => ReadExact
  <2>1. SUFFICES ASSUME IInv, kind = "file" PROVE ReadExact
    BY DEF ReadExact
  <2>2. PICK t : t = tree
    OBVIOUS
  <2>3. PICK span : Ordered(t, span)
    BY <2>1, <2>2, ShapeCases DEF IInv
  <2>4. \A size \in Sizes : size \in Nat
    BY LimitsAssumption DEF Sizes
  <2>5. \A size \in Sizes : RightRead(t, size, ReadInodeData(t, size))
    BY <2>3, <2>4, ReadIs
  <2>6. QED
    BY <2>2, <2>5, Zenon DEF ReadExact, RightRead
<1>2. QED
  BY <1>1, TreeInvariant, PTL

-----------------------------------------------------------------------------
(* The map of a file or directory.                                         *)

\* The extent e maps the logical block l to the physical block pair[2].
MapsTo(e, pair) ==
    \E l \in Nat : /\ e.len # LongBit /\ e.block <= l /\ l < LeafEnd(e)
                   /\ pair = <<l, MapBlock(e, l)>>

LEMMA MapOfIs ==
    ASSUME NEW t, NEW span, Ordered(t, span), NEW pair
    PROVE  pair \in MapOf(t) <=> \E e \in TrueLeaves(t) : MapsTo(e, pair)
<1> DEFINE L == ResolveExtents(t)
<1>1. L \in Seq(LeafEntries) /\ Part(L, 0, span[Root].to) /\ ToSet(L) = TrueLeaves(t)
  BY ResolvedTree
<1>2. span[Root].to \in Nat /\ span[Root].to < LogicalLimit /\ LogicalLimit \in Nat
  BY SpanOf, LimitsAssumption DEF Ordered
<1>3. pair \in MapOf(t) <=> \E e \in ToSet(L) : pair \in Pairs(e)
  BY DEF MapOf
<1> HIDE DEF L
<1>4. ASSUME NEW e \in ToSet(L)
      PROVE  pair \in Pairs(e) <=> MapsTo(e, pair)
  <2>1. pair \in Pairs(e) <=>
          \E l \in 0..(LogicalLimit - 1) : ContainsBlock(e, l) /\ pair = <<l, MapBlock(e, l)>>
    BY Zenon DEF Pairs
  <2>2. \A l \in Nat : ContainsBlock(e, l) <=> e.len # LongBit /\ e.block <= l /\ l < LeafEnd(e)
    BY <1>1, <1>2, ReadingsOf
  <2>3. \A l \in Nat : l < LeafEnd(e) => l \in 0..(LogicalLimit - 1)
    <3>1. LeafEnd(e) <= span[Root].to /\ LeafEnd(e) \in Nat
      BY <1>1, PartOf, LeafCounts
    <3>2. QED
      BY <1>2, <3>1
  <2>4. \A l \in 0..(LogicalLimit - 1) : l \in Nat
    BY <1>2
  <2>5. QED
    BY <2>1, <2>2, <2>3, <2>4 DEF MapsTo
<1>5. QED
  BY <1>1, <1>3, <1>4

\* The initial map: no two blocks are mapped to one, and none is free.
LEMMA InitialMap ==
    ASSUME NEW t, NEW span, Ordered(t, span), Apart(t)
    PROVE  /\ \A p \in MapOf(t) : p[1] \in Nat
           /\ \A p, q \in MapOf(t) : (p[1] = q[1] \/ p[2] = q[2]) => p = q
           /\ \A p \in MapOf(t) : p[2] \notin Blocks
<1>1. \A e \in TrueLeaves(t) : e \in LeafEntries
  BY ResolvedTree, PartOf
<1>2. ASSUME NEW p \in MapOf(t)
      PROVE  \E e \in TrueLeaves(t) : \E l \in Nat :
                /\ e.block <= l /\ l < LeafEnd(e) /\ e \in LeafEntries
                /\ p = <<l, MapBlock(e, l)>> /\ p[1] = l /\ p[2] = e.start + (l - e.block)
                /\ e.start <= p[2] /\ p[2] < e.start + TrueCount(e)
                /\ p[2] \in Nat /\ e.start \in Nat /\ TrueCount(e) \in Nat
  <2>1. PICK e \in TrueLeaves(t) : MapsTo(e, p)
    BY MapOfIs
  <2>2. PICK l \in Nat : e.block <= l /\ l < LeafEnd(e) /\ p = <<l, MapBlock(e, l)>>
    BY <2>1 DEF MapsTo
  <2>3. e \in LeafEntries
    BY <1>1
  <2>4. e.block \in Nat /\ e.start \in Nat /\ TrueCount(e) \in Nat
    BY <2>3, LeafCounts
  <2>5. p[1] = l /\ p[2] = e.start + (l - e.block)
    BY <2>2 DEF MapBlock
  <2>6. /\ e.start <= e.start + (l - e.block)
        /\ e.start + (l - e.block) < e.start + TrueCount(e)
        /\ e.start + (l - e.block) \in Nat
    BY <2>2, <2>4 DEF LeafEnd
  <2>7. QED
    BY <2>2, <2>3, <2>4, <2>5, <2>6
<1>3. \A p \in MapOf(t) : p[1] \in Nat
  BY <1>2
<1>4. ASSUME NEW p \in MapOf(t), NEW q \in MapOf(t), p[1] = q[1] \/ p[2] = q[2]
      PROVE  p = q
  <2>1. PICK e \in TrueLeaves(t), l \in Nat :
          /\ e.block <= l /\ l < LeafEnd(e) /\ e \in LeafEntries
          /\ p = <<l, MapBlock(e, l)>> /\ p[1] = l /\ p[2] = e.start + (l - e.block)
          /\ e.start <= p[2] /\ p[2] < e.start + TrueCount(e)
          /\ p[2] \in Nat /\ e.start \in Nat /\ TrueCount(e) \in Nat
    BY <1>2
  <2>2. PICK f \in TrueLeaves(t), m \in Nat :
          /\ f.block <= m /\ m < LeafEnd(f) /\ f \in LeafEntries
          /\ q = <<m, MapBlock(f, m)>> /\ q[1] = m /\ q[2] = f.start + (m - f.block)
          /\ f.start <= q[2] /\ q[2] < f.start + TrueCount(f)
          /\ q[2] \in Nat /\ f.start \in Nat /\ TrueCount(f) \in Nat
    BY <1>2
  <2>3. CASE p[1] = q[1]
    <3>1. l = m
      BY <2>1, <2>2, <2>3
    <3>2. Covers(e, l) /\ Covers(f, l)
      BY <2>1, <2>2, <3>1 DEF Covers, LeafEnd
    <3>3. e = f
      BY <3>2, ResolvedTree, CoversOnce
    <3>4. QED
      BY <2>1, <2>2, <3>1, <3>3
  <2>4. CASE p[2] = q[2]
    <3>1. e = f \/ e.start + TrueCount(e) <= f.start \/ f.start + TrueCount(f) <= e.start
      BY DEF Apart
    <3>2. e = f
      BY <2>1, <2>2, <2>4, <3>1
    <3>3. e.block \in Nat
      BY <2>1, LeafCounts
    <3>4. l = m
      BY <2>1, <2>2, <2>4, <3>2, <3>3
    <3>5. QED
      BY <2>1, <2>2, <3>2, <3>4
  <2>5. QED
    BY <1>4, <2>3, <2>4
<1>5. ASSUME NEW p \in MapOf(t), p[2] \in Blocks
      PROVE  FALSE
  <2>1. PICK e \in TrueLeaves(t), l \in Nat :
          /\ e.start <= p[2] /\ p[2] < e.start + TrueCount(e)
          /\ p[2] \in Nat /\ e.start \in Nat /\ TrueCount(e) \in Nat
    BY <1>2
  <2>2. p[2] < e.start \/ e.start + TrueCount(e) <= p[2]
    BY <1>5 DEF Apart
  <2>3. QED
    BY <2>1, <2>2
<1>6. QED
  BY <1>3, <1>4, <1>5

\* The map of a root that append_extent can extend.
LEMMA MapOfShallow ==
    ASSUME NEW t, Shallow(t), NEW pair
    PROVE  pair \in MapOf(t) <=> \E i \in 1..Len(t[Root].entries) : MapsTo(t[Root].entries[i], pair)
<1> DEFINE L == ResolveExtents(t)
<1>1. L = t[Root].entries /\ L \in Seq(LeafEntries)
  BY ShallowTree
<1>2. pair \in MapOf(t) <=> \E e \in ToSet(L) : pair \in Pairs(e)
  BY DEF MapOf
<1> HIDE DEF L
<1>3. LogicalLimit \in Nat
  BY LimitsAssumption
<1>4. ASSUME NEW e \in ToSet(L)
      PROVE  pair \in Pairs(e) <=> MapsTo(e, pair)
  <2>1. pair \in Pairs(e) <=>
          \E l \in 0..(LogicalLimit - 1) : ContainsBlock(e, l) /\ pair = <<l, MapBlock(e, l)>>
    BY Zenon DEF Pairs
  <2>2. PICK k \in 1..Len(L) : L[k] = e
    BY <1>1, ToSetIs
  <2>3. e \in LeafEntries /\ LeafEnd(e) < LogicalLimit /\ LeafEnd(e) \in Nat
    BY <1>1, <2>2, ElementsOf, LeafCounts DEF Shallow
  <2>4. \A l \in Nat : ContainsBlock(e, l) <=> e.len # LongBit /\ e.block <= l /\ l < LeafEnd(e)
    BY <2>3, ContainsIs
  <2>5. \A l \in Nat : l < LeafEnd(e) => l \in 0..(LogicalLimit - 1)
    BY <1>3, <2>3
  <2>6. \A l \in 0..(LogicalLimit - 1) : l \in Nat
    BY <1>3
  <2>7. QED
    BY <2>1, <2>4, <2>5, <2>6 DEF MapsTo
<1>5. \A e : e \in ToSet(L) <=> \E i \in 1..Len(L) : L[i] = e
  BY <1>1, ToSetIs
<1>6. QED
  BY <1>1, <1>2, <1>4, <1>5

LEMMA GrowingShallow ==
    ASSUME NEW t, DOMAIN t = {Root}, NEW to, Growing(t[Root], to)
    PROVE  Shallow(t) /\ Plain(t)
<1>1. PICK span : Ordered(t, span) /\ Full(t, span)
  BY GrowingTree
<1>2. t[Root] \in LeafNodes /\ Part(t[Root].entries, 0, to) /\ to \in 0..(LogicalLimit - 1)
  BY DEF Growing
<1>3. t[Root].entries \in Seq(LeafEntries)
  BY <1>2 DEF LeafNodes
<1>4. \A i \in 1..Len(t[Root].entries) : LeafEnd(t[Root].entries[i]) < LogicalLimit
  <2>1. SUFFICES ASSUME NEW i \in 1..Len(t[Root].entries)
                 PROVE  LeafEnd(t[Root].entries[i]) < LogicalLimit
    OBVIOUS
  <2>2. t[Root].entries[i] \in LeafEntries
    BY <1>3, ElementsOf
  <2>3. LeafEnd(t[Root].entries[i]) \in Nat /\ LeafEnd(t[Root].entries[i]) <= to
    BY <1>2, <2>2, LeafCounts DEF Part
  <2>4. QED
    BY <1>2, <2>3, LimitsAssumption
<1>5. QED
  BY <1>1, <1>2, <1>4 DEF Shallow, Full

LEMMA MapsOne ==
    ASSUME NEW to \in Nat, NEW b \in Nat, NEW pair
    PROVE  MapsTo(Leaf(to, 1, b), pair) <=> pair = <<to, b>>
<1> DEFINE e == Leaf(to, 1, b)
<1>1. LongBit \in Nat /\ LongBit > 1
  BY LimitsAssumption
<1>2. e.block = to /\ e.len = 1 /\ e.start = b /\ LeafEnd(e) = to + 1 /\ e.len # LongBit
  BY <1>1 DEF Leaf, LeafEnd, TrueCount
<1> HIDE DEF e
<1>3. \A l \in Nat : e.block <= l /\ l < LeafEnd(e) <=> l = to
  BY <1>2
<1>4. MapBlock(e, to) = b
  BY <1>2 DEF MapBlock
<1>5. MapsTo(e, pair) <=> pair = <<to, b>>
  BY <1>2, <1>3, <1>4 DEF MapsTo
<1>6. QED
  BY <1>5 DEF e

\* Where append_extent puts its block is just after the map's last one.
LEMMA MapEnds ==
    ASSUME NEW t, DOMAIN t = {Root}, NEW to, Growing(t[Root], to)
    PROVE  /\ \A p \in MapOf(t) : p[1] < to
           /\ to = 0 \/ \E p \in MapOf(t) : p[1] = to - 1
<1> DEFINE es == t[Root].entries
           n == Len(es)
<1>1. es \in Seq(LeafEntries)
  BY DEF Growing, LeafNodes
<1>2. n \in Nat /\ \A i \in 1..n : es[i] \in LeafEntries
  BY <1>1, ElementsOf
<1>3. \A i \in 1..n : es[i].block \in Nat /\ LeafEnd(es[i]) \in Nat /\ es[i].block < LeafEnd(es[i])
  BY <1>2, LeafCounts
<1>4. to \in Nat /\ Part(es, 0, to) /\ Chain(es, 0, to)
  BY LimitsAssumption DEF Growing
<1>5. ASSUME NEW p \in MapOf(t) PROVE p[1] < to
  <2>1. PICK i \in 1..n : MapsTo(es[i], p)
    BY GrowingShallow, MapOfShallow
  <2>2. PICK l \in Nat : l < LeafEnd(es[i]) /\ p = <<l, MapBlock(es[i], l)>>
    BY <2>1 DEF MapsTo
  <2>3. LeafEnd(es[i]) <= to
    BY <1>4 DEF Part
  <2>4. l < to
    BY <1>3, <1>4, <2>2, <2>3
  <2>5. QED
    BY <2>2, <2>4
<1>6. CASE n = 0
  BY <1>4, <1>5, <1>6 DEF Chain
<1>7. CASE n # 0
  <2>1. n \in 1..n
    BY <1>2, <1>7
  <2>2. LeafEnd(es[n]) = to /\ es[n].len < LongBit
    BY <1>4, <1>7, <2>1 DEF Chain
  <2>3. es[n].len # LongBit
    <3>1. es[n].len \in Nat /\ LongBit \in Nat
      BY <1>2, <2>1, LeafCounts, LimitsAssumption
    <3>2. QED
      BY <2>2, <3>1
  <2>4. to - 1 \in Nat /\ es[n].block <= to - 1 /\ to - 1 < to
    BY <1>3, <1>4, <2>1, <2>2
  <2>5. MapsTo(es[n], <<to - 1, MapBlock(es[n], to - 1)>>)
    BY <2>2, <2>3, <2>4 DEF MapsTo
  <2>6. <<to - 1, MapBlock(es[n], to - 1)>> \in MapOf(t)
    BY <2>1, <2>5, GrowingShallow, MapOfShallow
  <2>7. QED
    BY <1>5, <2>6
<1>8. QED
  BY <1>6, <1>7

\* append_extent adds one pair, write_file's new root leaves one or none.
LEMMA MapAppended ==
    ASSUME NEW t, Shallow(t), NEW u, Shallow(u), NEW b \in Blocks, NEW to \in Nat,
           u[Root].entries = Append(t[Root].entries, Leaf(to, 1, b))
    PROVE  /\ MapOf(u) = MapOf(t) \cup {<<to, b>>}
           /\ Plain(u) <=> Plain(t)
<1> DEFINE es == t[Root].entries
           rs == u[Root].entries
           n == Len(es)
<1>1. es \in Seq(LeafEntries) /\ rs \in Seq(LeafEntries) /\ b \in Nat
  BY LimitsAssumption, ShallowTree
<1>2. Leaf(to, 1, b) \in LeafEntries /\ ~Longest(Leaf(to, 1, b))
  BY <1>1, LimitsAssumption DEF Leaf, LeafEntries, Longest
<1>3. n \in Nat /\ Len(rs) = n + 1 /\ (\A k \in 1..n : rs[k] = es[k]) /\ rs[n + 1] = Leaf(to, 1, b)
  BY <1>1, <1>2, AppendIs
<1>4. TrueLeaves(t) = ToSet(es) /\ TrueLeaves(u) = ToSet(rs)
  BY ShallowTree
<1> HIDE DEF es, rs
<1>5. n + 1 \in 1..Len(rs) /\ (\A i \in 1..n : i \in 1..Len(rs))
      /\ \A i \in 1..Len(rs) : i \in 1..n \/ i = n + 1
  BY <1>3
<1>6. ASSUME NEW pair
      PROVE  pair \in MapOf(u) <=> pair \in MapOf(t) \/ pair = <<to, b>>
  <2>1. pair \in MapOf(u) <=> \E i \in 1..Len(rs) : MapsTo(rs[i], pair)
    BY MapOfShallow DEF rs
  <2>2. pair \in MapOf(t) <=> \E i \in 1..n : MapsTo(es[i], pair)
    BY MapOfShallow DEF es
  <2>3. MapsTo(rs[n + 1], pair) <=> pair = <<to, b>>
    BY <1>1, <1>3, MapsOne
  <2>4. QED
    BY <1>3, <1>5, <2>1, <2>2, <2>3
<1>7. Plain(u) <=> Plain(t)
  <2>1. Plain(t) <=> \A i \in 1..n : ~Longest(es[i])
    <3>1. \A e : e \in ToSet(es) <=> \E i \in 1..n : es[i] = e
      BY <1>1, ToSetIs
    <3>2. QED
      BY <1>4, <3>1 DEF Plain
  <2>2. Plain(u) <=> \A i \in 1..Len(rs) : ~Longest(rs[i])
    <3>1. \A e : e \in ToSet(rs) <=> \E i \in 1..Len(rs) : rs[i] = e
      BY <1>1, ToSetIs
    <3>2. QED
      BY <1>4, <3>1 DEF Plain
  <2>3. QED
    BY <1>2, <1>3, <1>5, <2>1, <2>2
<1>8. MapOf(u) = MapOf(t) \cup {<<to, b>>}
  BY <1>6
<1>9. QED
  BY <1>7, <1>8

\* Where append_extent puts its block in an overgrown directory is after all
\* blocks of the map.
LEMMA OvergrownEnds ==
    ASSUME NEW t, Overgrown(t), NEW u, NEW to, NEW b, Overgrows(t, u, to, b), NEW p \in MapOf(t)
    PROVE  p[1] < to
<1> DEFINE es == t[Root].entries
<1>1. Shallow(t) /\ es \in Seq(LeafEntries) /\ to \in Nat
  BY ShallowTree DEF Overgrown, Overgrows
<1>2. PICK i \in 1..Len(es) : MapsTo(es[i], p)
  BY <1>1, MapOfShallow
<1>3. PICK l \in Nat : es[i].len # LongBit /\ l < LeafEnd(es[i]) /\ p = <<l, MapBlock(es[i], l)>>
  BY <1>2 DEF MapsTo
<1>4. CodeEnd(es[i]) <= to /\ CodeEnd(es[i]) = LeafEnd(es[i])
  BY <1>3 DEF Overgrows, CodeEnd, Longest
<1>5. LeafEnd(es[i]) \in Nat
  BY <1>1, ElementsOf, LeafCounts
<1>6. l < to
  BY <1>1, <1>3, <1>4, <1>5
<1>7. QED
  BY <1>3, <1>6

LEMMA MapRewritten ==
    ASSUME NEW b \in Blocks, NEW u, u = Alone(Appended(FreshRoot, b))
    PROVE  MapOf(u) = {<<0, b>>} /\ Plain(u)
<1>1. DOMAIN u = {Root} /\ Growing(u[Root], 1) /\ u[Root].entries = <<Leaf(0, 1, b)>>
  BY RewriteTree
<1>2. b \in Nat /\ 0 \in Nat
  BY LimitsAssumption
<1>3. ASSUME NEW pair
      PROVE  pair \in MapOf(u) <=> pair = <<0, b>>
  <2>1. Len(<<Leaf(0, 1, b)>>) = 1 /\ <<Leaf(0, 1, b)>>[1] = Leaf(0, 1, b)
    OBVIOUS
  <2>2. pair \in MapOf(u) <=> \E i \in 1..1 : MapsTo(u[Root].entries[i], pair)
    BY <1>1, <2>1, GrowingShallow, MapOfShallow
  <2>3. pair \in MapOf(u) <=> MapsTo(Leaf(0, 1, b), pair)
    BY <1>1, <2>1, <2>2
  <2>4. QED
    BY <1>2, <2>3, MapsOne
<1>4. QED
  BY <1>1, <1>3, GrowingShallow

LEMMA MapTruncated ==
    ASSUME NEW u, u = Alone(FreshRoot)
    PROVE  MapOf(u) = {} /\ Plain(u)
<1>1. DOMAIN u = {Root} /\ Growing(u[Root], 0) /\ u[Root].entries = <<>>
  BY TruncateTree
<1>2. Shallow(u) /\ Plain(u)
  BY <1>1, GrowingShallow
<1>3. \A pair : pair \in MapOf(u) <=> \E i \in 1..0 : MapsTo(u[Root].entries[i], pair)
  BY <1>1, <1>2, MapOfShallow
<1>4. MapOf(u) = {}
  BY <1>3
<1>5. QED
  BY <1>2, <1>4

LEMMA InitMap == Init => Map!Init
<1>1. SUFFICES ASSUME Init PROVE Map!Init
  OBVIOUS
<1>2. PICK image \in Images : tree = image.tree
  BY <1>1 DEF Init
<1>3. PICK t : t = tree
  OBVIOUS
<1>4. Ordered(t, image.span) /\ Apart(t)
  BY <1>2, <1>3, ImagesAssumption
<1>5. /\ \A p \in MapOf(t) : p[1] \in Nat
      /\ \A p, q \in MapOf(t) : (p[1] = q[1] \/ p[2] = q[2]) => p = q
      /\ \A p \in MapOf(t) : p[2] \notin Blocks
  BY <1>4, InitialMap
<1>6. spare = Blocks
  BY <1>1 DEF Init
<1>7. (\E e \in TrueLeaves(tree) : Longest(e)) \in BOOLEAN
  OBVIOUS
<1>8. QED
  BY <1>3, <1>5, <1>6, <1>7 DEF Map!Init

LEMMA StepMap == IInv /\ [Next]_vars => [Map!Next]_(Map!vars)
<1>1. SUFFICES ASSUME IInv, [Next]_vars PROVE [Map!Next]_(Map!vars)
  OBVIOUS
<1>2. PICK t : t = tree
  OBVIOUS
<1>3. PICK u : u = tree'
  OBVIOUS
<1>4. PICK m : m = MapOf(t)
  OBVIOUS
<1>5. PICK w : w = MapOf(u)
  OBVIOUS
<1>6. MapOf(tree) = m /\ MapOf(tree)' = w
  BY <1>2, <1>3, <1>4, <1>5
<1> DEFINE skips == \E e \in TrueLeaves(tree) : Longest(e)
<1>7. (skips <=> ~Plain(t)) /\ (skips' <=> ~Plain(u))
  BY <1>2, <1>3 DEF Plain, Longest
<1>8. Shape(t, kind, open) /\ spare \subseteq Blocks
  BY <1>1, <1>2 DEF IInv
\* A block that is taken, and put at the end of the map, or leaked.
<1>9. ASSUME NEW b \in spare, spare' = spare \ {b},
             \/ /\ Plain(u) <=> Plain(t)
                /\ \E to : w = m \cup {<<to, b>>} /\ (\A p \in m : p[1] < to)
                            /\ (to = 0 \/ ~Plain(t) \/ \E p \in m : p[1] = to - 1)
             \/ w = {<<0, b>>} /\ Plain(u)
             \/ w = m /\ (Plain(u) <=> Plain(t))
      PROVE  Map!TakeOne
  <2>1. ASSUME NEW to, w = m \cup {<<to, b>>}, \A p \in m : p[1] < to,
               to = 0 \/ ~Plain(t) \/ \E p \in m : p[1] = to - 1, Plain(u) <=> Plain(t)
        PROVE  Map!Extend(b)
    <3>1. Map!Follows(to)
      BY <1>6, <1>7, <2>1 DEF Map!Follows
    <3>2. <<to, b>> \in w /\ <<to, b>>[1] = to /\ <<to, b>>[2] = b
      BY <2>1
    <3>3. skips' = skips
      BY <1>7, <2>1
    <3>4. QED
      BY <1>6, <2>1, <3>1, <3>2, <3>3 DEF Map!Extend
  <2>2. ASSUME w = {<<0, b>>}, Plain(u) PROVE Map!StartOver(b)
    BY <1>6, <1>7, <2>2 DEF Map!StartOver
  <2>3. ASSUME w = m, Plain(u) <=> Plain(t) PROVE UNCHANGED <<MapOf(tree), skips>>
    BY <1>6, <1>7, <2>3
  <2>4. QED
    BY <1>9, <2>1, <2>2, <2>3 DEF Map!TakeOne
<1>10. CASE Rewrite
  <2>1. PICK b \in spare : tree' = Alone(Appended(FreshRoot, b)) /\ spare' = spare \ {b}
    BY <1>10 DEF Rewrite
  <2>2. b \in Blocks
    BY <1>8
  <2>3. w = {<<0, b>>} /\ Plain(u)
    BY <1>3, <1>5, <2>1, <2>2, MapRewritten
  <2>4. QED
    BY <1>9, <2>1, <2>3 DEF Map!Next
<1>11. CASE Truncate
  <2>1. w = {} /\ spare' = spare /\ Plain(u)
    BY <1>3, <1>5, <1>11, MapTruncated DEF Truncate
  <2>2. QED
    BY <1>6, <1>7, <2>1 DEF Map!Next, Map!Empty
<1>12. CASE AppendExtent
  <2>1. PICK b \in spare :
          tree' = [tree EXCEPT ![Root] = Appended(@, b)] /\ spare' = spare \ {b}
    BY <1>12 DEF AppendExtent
  <2>2. b \in Blocks /\ u = [t EXCEPT ![Root] = Appended(@, b)] /\ Accepts(t[Root])
    BY <1>2, <1>3, <1>8, <1>12, <2>1 DEF AppendExtent
  <2>3. Allowed(t, TRUE) \/ (kind = "dir" /\ Overgrown(t))
    BY <1>8, <1>12, <2>2, Extended DEF AppendExtent
  <2>4. CASE Allowed(t, TRUE)
    <3>1. /\ DOMAIN t = {Root} /\ DOMAIN u = {Root}
          /\ \E to : /\ Growing(t[Root], to) /\ Growing(u[Root], to + 1)
                     /\ u[Root].entries = Append(t[Root].entries, Leaf(to, 1, b))
      BY <2>2, <2>4, AppendTree
    <3>2. PICK to : /\ Growing(t[Root], to) /\ Growing(u[Root], to + 1)
                    /\ u[Root].entries = Append(t[Root].entries, Leaf(to, 1, b))
      BY <3>1
    <3>3. Shallow(t) /\ Shallow(u) /\ to \in Nat
      <4>1. Shallow(t) /\ Shallow(u)
        BY <3>1, <3>2, GrowingShallow
      <4>2. to \in 0..(LogicalLimit - 1)
        BY <3>2 DEF Growing
      <4>3. QED
        BY <4>1, <4>2
    <3>4. b \in Blocks
      BY <2>2
    <3>5. w = m \cup {<<to, b>>} /\ (Plain(u) <=> Plain(t))
      <4>1. MapOf(u) = MapOf(t) \cup {<<to, b>>} /\ (Plain(u) <=> Plain(t))
        BY <3>2, <3>3, <3>4, MapAppended
      <4>2. QED
        BY <1>4, <1>5, <4>1
    <3>6. (\A p \in m : p[1] < to) /\ (to = 0 \/ \E p \in m : p[1] = to - 1)
      BY <1>4, <3>1, <3>2, MapEnds
    <3>7. QED
      BY <1>9, <2>1, <3>5, <3>6 DEF Map!Next
  <2>5. CASE kind = "dir" /\ Overgrown(t)
    <3>1. Overgrown(u) /\ \E to : Overgrows(t, u, to, b)
      BY <2>2, <2>5, OvergrownGrows
    <3>2. PICK to : Overgrows(t, u, to, b)
      BY <3>1
    <3>3. Shallow(t) /\ Shallow(u) /\ to \in Nat /\ b \in Blocks
          /\ u[Root].entries = Append(t[Root].entries, Leaf(to, 1, b))
      BY <2>2, <2>5, <3>1, <3>2 DEF Overgrown, Overgrows
    <3>4. w = m \cup {<<to, b>>} /\ (Plain(u) <=> Plain(t))
      <4>1. MapOf(u) = MapOf(t) \cup {<<to, b>>} /\ (Plain(u) <=> Plain(t))
        BY <3>3, MapAppended
      <4>2. QED
        BY <1>4, <1>5, <4>1
    <3>5. \A p \in m : p[1] < to
      BY <1>4, <2>5, <3>2, OvergrownEnds
    <3>6. ~Plain(t)
      <4>1. PICK i \in 1..Len(t[Root].entries) : Longest(t[Root].entries[i])
        BY <2>5 DEF Overgrown
      <4>2. t[Root].entries[i] \in TrueLeaves(t)
        BY <3>3, ShallowTree, ToSetIs
      <4>3. QED
        BY <4>1, <4>2 DEF Plain
    <3>7. QED
      BY <1>9, <2>1, <3>4, <3>5, <3>6 DEF Map!Next
  <2>6. QED
    BY <2>3, <2>4, <2>5
<1>13. CASE RefuseExtent
  <2>1. PICK b \in spare : spare' = spare \ {b}
    BY <1>13 DEF RefuseExtent
  <2>2. w = m /\ u = t
    BY <1>2, <1>3, <1>4, <1>5, <1>13 DEF RefuseExtent
  <2>3. QED
    BY <1>9, <2>1, <2>2 DEF Map!Next
<1>14. ASSUME tree' = tree, spare' = spare
       PROVE  UNCHANGED Map!vars
  <2>1. w = m /\ u = t
    BY <1>2, <1>3, <1>4, <1>5, <1>14
  <2>2. skips' = skips
    BY <1>7, <2>1
  <2>3. QED
    BY <1>6, <1>14, <2>1, <2>2 DEF Map!vars
<1>15. CASE Close
  BY <1>14, <1>15 DEF Close
<1>16. CASE UNCHANGED vars
  BY <1>14, <1>16 DEF vars
<1>17. QED
  BY <1>1, <1>10, <1>11, <1>12, <1>13, <1>15, <1>16 DEF Next

\* append_extent and write_file's new root are a map that grows at its end by
\* blocks that were free, or starts over: no append hides, moves or doubles a
\* block that was mapped.
THEOREM ImplementsBlockMap == Spec => MapSpec
<1>1. Init => Map!Init
  BY InitMap
<1>2. IInv /\ [Next]_vars => [Map!Next]_(Map!vars)
  BY StepMap
<1>3. QED
  BY <1>1, <1>2, TreeInvariant, PTL DEF Spec, MapSpec, Map!Spec

-----------------------------------------------------------------------------
(* The blocks that the searches of a directory go through.                 *)

LEMMA ChainConcat ==
    ASSUME NEW x \in Seq(LeafEntries), NEW y \in Seq(LeafEntries),
           NEW from, NEW mid, NEW to, Chain(x, from, mid), Chain(y, mid, to)
    PROVE  Chain(x \o y, from, to)
<1> DEFINE r == x \o y
           n == Len(x)
<1>1. /\ n \in Nat /\ Len(y) \in Nat /\ Len(r) = n + Len(y)
      /\ \A k \in 1..n : r[k] = x[k]
      /\ \A k \in 1..Len(y) : r[n + k] = y[k]
  BY ConcatIs
<1> HIDE DEF r
<1>2. ASSUME NEW i \in 1..Len(r)
      PROVE  r[i].block = (IF i = 1 THEN from ELSE LeafEnd(r[i - 1])) /\ r[i].len < LongBit
  <2>1. CASE i \in 1..n
    <3>1. x[i].block = (IF i = 1 THEN from ELSE LeafEnd(x[i - 1])) /\ x[i].len < LongBit
      BY <2>1 DEF Chain
    <3>2. i # 1 => i - 1 \in 1..n
      BY <1>1, <2>1
    <3>3. QED
      BY <1>1, <2>1, <3>1, <3>2
  <2>2. CASE i \notin 1..n
    <3>1. i - n \in 1..Len(y) /\ n + (i - n) = i
      BY <1>1, <2>2
    <3>2. PICK j \in 1..Len(y) : j = i - n
      BY <3>1
    <3>3. /\ y[j].block = (IF j = 1 THEN mid ELSE LeafEnd(y[j - 1])) /\ y[j].len < LongBit
          /\ r[i] = y[j]
      BY <1>1, <3>1, <3>2 DEF Chain
    <3>4. CASE j = 1
      <4>1. mid = IF n = 0 THEN from ELSE LeafEnd(x[n])
        BY DEF Chain
      <4>2. n = 0 => i = 1
        BY <3>2, <3>4
      <4>3. n # 0 => i # 1 /\ i - 1 = n /\ r[n] = x[n]
        BY <1>1, <3>2, <3>4
      <4>4. QED
        BY <3>3, <3>4, <4>1, <4>2, <4>3
    <3>5. CASE j # 1
      <4>1. i # 1 /\ j - 1 \in 1..Len(y) /\ n + (j - 1) = i - 1
        BY <1>1, <3>2, <3>5
      <4>2. r[i - 1] = y[j - 1]
        BY <1>1, <4>1
      <4>3. QED
        BY <3>3, <3>5, <4>1, <4>2
    <3>6. QED
      BY <3>4, <3>5
  <2>3. QED
    BY <2>1, <2>2
<1>3. to = IF Len(r) = 0 THEN from ELSE LeafEnd(r[Len(r)])
  <2>1. CASE Len(y) = 0
    <3>1. to = mid /\ Len(r) = n
      BY <1>1, <2>1 DEF Chain
    <3>2. mid = IF n = 0 THEN from ELSE LeafEnd(x[n])
      BY DEF Chain
    <3>3. n # 0 => r[n] = x[n]
      BY <1>1
    <3>4. QED
      BY <3>1, <3>2, <3>3
  <2>2. CASE Len(y) # 0
    <3>1. to = LeafEnd(y[Len(y)]) /\ Len(y) \in 1..Len(y) /\ Len(r) # 0
      BY <1>1, <2>2 DEF Chain
    <3>2. r[Len(r)] = y[Len(y)]
      BY <1>1, <3>1
    <3>3. QED
      BY <3>1, <3>2
  <2>3. QED
    BY <2>1, <2>2
<1>4. Chain(r, from, to)
  BY <1>2, <1>3 DEF Chain
<1>5. QED
  BY <1>4 DEF r

\* Chains, each of which begins where the one before ends.
Linked(ss, marks) == \A i \in 1..Len(ss) : Chain(ss[i], marks[i - 1], marks[i])

LEMMA FlattenChain ==
    ASSUME NEW ss \in Seq(Seq(LeafEntries)), NEW marks, Linked(ss, marks)
    PROVE  Chain(FlattenSeq(ss), marks[0], marks[Len(ss)])
<1> DEFINE n == Len(ss)
<1>1. PICK f : Grows(f, ss, LeafEntries) /\ FlattenSeq(ss) = f[n]
  BY FlattenGrows
<1>2. /\ f \in [0..n -> Seq(LeafEntries)] /\ f[0] = <<>>
      /\ \A i \in 1..n : f[i] = f[i - 1] \o ss[i]
  BY <1>1 DEF Grows
<1>3. n \in Nat /\ \A i \in 1..n : ss[i] \in Seq(LeafEntries)
  BY ElementsOf
<1> DEFINE Bad == {i \in 0..n : ~ Chain(f[i], marks[0], marks[i])}
<1>4. SUFFICES ASSUME Bad # {} PROVE FALSE
  BY <1>1, <1>3
<1>5. PICK k \in Bad : \A j \in Bad : k <= j
  <2>1. Bad \in SUBSET Nat
    OBVIOUS
  <2> HIDE DEF Bad
  <2>2. QED
    BY <1>4, <2>1, MinExists
<1>6. CASE k = 0
  <2>1. Len(f[0]) = 0
    BY <1>2
  <2>2. Chain(f[0], marks[0], marks[0])
    BY <2>1 DEF Chain
  <2>3. QED
    BY <1>5, <1>6, <2>2
<1>7. CASE k # 0
  <2>1. k \in 1..n /\ k - 1 \in 0..n
    BY <1>3, <1>5, <1>7
  <2>2. k - 1 \notin Bad
    <3>1. k - 1 \in Bad => k <= k - 1
      BY <1>5
    <3>2. QED
      BY <2>1, <3>1
  <2>3. Chain(f[k - 1], marks[0], marks[k - 1])
    BY <2>1, <2>2
  <2>4. Chain(ss[k], marks[k - 1], marks[k])
    BY <2>1 DEF Linked
  <2>5. f[k - 1] \in Seq(LeafEntries) /\ ss[k] \in Seq(LeafEntries)
    BY <1>2, <1>3, <2>1
  <2>6. Chain(f[k - 1] \o ss[k], marks[0], marks[k])
    BY <2>3, <2>4, <2>5, ChainConcat
  <2>7. QED
    BY <1>2, <1>5, <2>1, <2>6
<1>8. QED
  BY <1>6, <1>7

\* The leaves of a whole tree leave no hole.
LEMMA LeafNodeChain ==
    ASSUME NEW t, NEW span, Ordered(t, span), Full(t, span),
           NEW p \in DOMAIN t, t[p].depth = 0
    PROVE  Chain(ParseLeaves(t[p]), span[p].from, span[p].to)
<1>1. ParseLeaves(t[p]) = t[p].entries
  BY OrderedNodes, Parsed
<1>2. \A i : End(t, span, p, i) = LeafEnd(t[p].entries[i])
  BY DEF End, LeafEnd
<1>3. QED
  BY <1>1, <1>2, FullLength DEF Full, Whole, Chain

LEMMA LeavesChain ==
    ASSUME NEW t, NEW span, Ordered(t, span), Full(t, span),
           NEW F, LeafLevels(F, t), NEW p \in DOMAIN t
    PROVE  Chain(F[t[p].depth][p], span[p].from, span[p].to)
<1> DEFINE Bad == {d \in 0..MaxDepth : \E q \in DOMAIN t :
                      t[q].depth = d /\ ~ Chain(F[d][q], span[q].from, span[q].to)}
<1>1. Nodes(t) /\ MaxDepth \in Nat
  BY OrderedNodes, LimitsAssumption
<1>2. t[p].depth \in 0..MaxDepth
  BY <1>1, Parsed
<1>3. SUFFICES ASSUME Bad # {} PROVE FALSE
  BY <1>2
<1>4. PICK d \in Bad : \A j \in Bad : d <= j
  <2>1. Bad \in SUBSET Nat
    OBVIOUS
  <2> HIDE DEF Bad
  <2>2. QED
    BY <1>3, <2>1, MinExists
<1>5. PICK q \in DOMAIN t : t[q].depth = d /\ ~ Chain(F[d][q], span[q].from, span[q].to)
  BY <1>4
<1>6. d # 0
  BY <1>5, LeafNodeChain DEF LeafLevels
<1> DEFINE es == t[q].entries
           f == F[d - 1]
           n == Len(es)
           marks == [i \in 0..n |-> IF i = 0 THEN span[q].from ELSE span[es[i].child].to]
<1>7. d \in 1..MaxDepth /\ d - 1 \in 0..MaxDepth /\ \E ss : Yields(ss, t, F, q, d)
  BY <1>1, <1>5, <1>6, LevelOf
<1>8. \A r \in DOMAIN t : t[r].depth = d - 1 => Chain(f[r], span[r].from, span[r].to)
  <2>1. d - 1 \notin Bad
    <3>1. d - 1 \in Bad => d <= d - 1
      BY <1>4
    <3>2. QED
      BY <1>7, <3>1
  <2>2. QED
    BY <1>7, <2>1
<1>9. PICK ss \in Seq(Seq(LeafEntries)) :
        /\ Len(ss) = n
        /\ \A i \in 1..Len(ss) : ss[i] = f[es[i].child]
        /\ F[d][q] = FlattenSeq(ss)
  BY <1>7 DEF Yields
<1>10. \A i \in 1..n :
          /\ es[i].child \in DOMAIN t /\ t[es[i].child].depth = d - 1
          /\ span[es[i].child].from = es[i].block
  <2>1. SUFFICES ASSUME NEW i \in 1..n
                 PROVE  /\ es[i].child \in DOMAIN t /\ t[es[i].child].depth = d - 1
                        /\ span[es[i].child].from = es[i].block
    OBVIOUS
  <2>2. PICK c : c = t[q].entries[i].child
    OBVIOUS
  <2>3. i \in 1..Len(t[q].entries) /\ t[q].depth # 0 /\ t[q].depth = d
    BY <1>5, <1>6
  <2>4. /\ c \in DOMAIN t /\ t[c].depth = t[q].depth - 1
        /\ span[c].from = t[q].entries[i].block
    BY <2>2, <2>3, ChildOf
  <2>5. QED
    BY <2>2, <2>3, <2>4
<1>11. n \in Nat
  BY <1>9, ElementsOf
<1>12. \A i : End(t, span, q, i) = span[es[i].child].to
  BY <1>5, <1>6 DEF End
<1>13. /\ \A i \in 1..n : es[i].block = IF i = 1 THEN span[q].from ELSE span[es[i - 1].child].to
       /\ span[q].to = IF n = 0 THEN span[q].from ELSE span[es[n].child].to
  BY <1>12 DEF Full, Whole
<1>14. \A i \in 1..n : marks[i - 1] = es[i].block /\ marks[i] = span[es[i].child].to
  <2>1. SUFFICES ASSUME NEW i \in 1..n
                 PROVE  marks[i - 1] = es[i].block /\ marks[i] = span[es[i].child].to
    OBVIOUS
  <2>2. i - 1 \in 0..n /\ i \in 0..n /\ i # 0 /\ (i = 1 <=> i - 1 = 0)
    BY <1>11
  <2>3. QED
    BY <1>13, <2>2
<1>15. marks[0] = span[q].from /\ marks[n] = span[q].to
  BY <1>11, <1>13
<1> HIDE DEF marks, f
<1>16. \A i \in 1..n : Chain(ss[i], marks[i - 1], marks[i])
  BY <1>8, <1>9, <1>10, <1>14
<1>17. Linked(ss, marks)
  BY <1>9, <1>16 DEF Linked
<1>18. Chain(FlattenSeq(ss), marks[0], marks[Len(ss)])
  BY <1>17, FlattenChain
<1>19. QED
  BY <1>5, <1>9, <1>15, <1>18

LEMMA ResolvedChain ==
    ASSUME NEW t, NEW span, Ordered(t, span), Full(t, span)
    PROVE  Chain(ResolveExtents(t), 0, span[Root].to)
<1>1. Nodes(t) /\ Root \in DOMAIN t /\ span[Root].from = 0
  BY OrderedNodes DEF Nodes, Ordered
<1>2. PICK F : LeafLevels(F, t) /\ ResolveExtents(t) = F[t[Root].depth][Root]
  BY <1>1, ResolveExtentsIs
<1>3. Chain(F[t[Root].depth][Root], span[Root].from, span[Root].to)
  BY <1>1, <1>2, LeavesChain
<1>4. QED
  BY <1>1, <1>2, <1>3

\* The blocks of one extent.
Run(e) == [k \in 1..BlockCount(e) |-> e.start + (k - 1)]

LEMMA RunIs ==
    ASSUME NEW e \in LeafEntries, e.len < LongBit
    PROVE  /\ Run(e) \in Seq(Nat) /\ e.block \in Nat
           /\ e.block + Len(Run(e)) = LeafEnd(e)
           /\ \A k \in 1..Len(Run(e)) : MapsTo(e, <<e.block + (k - 1), Run(e)[k]>>)
<1>1. /\ e.block \in Nat /\ e.start \in Nat /\ e.len \in Nat /\ TrueCount(e) \in Nat
      /\ BlockCount(e) = IF e.len = LongBit THEN 0 ELSE TrueCount(e)
  BY LeafCounts
<1>2. e.len # LongBit
  BY <1>1, LimitsAssumption
<1>3. BlockCount(e) = TrueCount(e)
  BY <1>1, <1>2
<1>4. Run(e) \in Seq(Nat) /\ Len(Run(e)) = TrueCount(e)
  BY <1>1, <1>3 DEF Run
<1>5. ASSUME NEW k \in 1..Len(Run(e))
      PROVE  MapsTo(e, <<e.block + (k - 1), Run(e)[k]>>)
  <2>1. PICK l : l = e.block + (k - 1)
    OBVIOUS
  <2>2. l \in Nat /\ e.block <= l /\ l < LeafEnd(e)
    BY <1>1, <1>4, <2>1 DEF LeafEnd
  <2>3. Run(e)[k] = MapBlock(e, l)
    <3>1. Run(e)[k] = e.start + (k - 1)
      BY <1>3, <1>4 DEF Run
    <3>2. l - e.block = k - 1
      BY <1>1, <2>1
    <3>3. QED
      BY <3>1, <3>2 DEF MapBlock
  <2>4. QED
    BY <1>2, <2>1, <2>2, <2>3 DEF MapsTo
<1>6. QED
  BY <1>1, <1>4, <1>5 DEF LeafEnd

\* The blocks of the first i extents, in the order of the logical ones.
Visits(g, L, i) ==
    /\ Len(g[i]) = IF i = 0 THEN 0 ELSE LeafEnd(L[i])
    /\ \A k \in 1..Len(g[i]) : \E j \in 1..i : MapsTo(L[j], <<k - 1, g[i][k]>>)

LEMMA VisitedIs ==
    ASSUME NEW L \in Seq(LeafEntries), NEW to, Chain(L, 0, to)
    PROVE  /\ Visited(L) \in Seq(Nat)
           /\ Len(Visited(L)) = to
           /\ \A k \in 1..Len(Visited(L)) : \E j \in 1..Len(L) : MapsTo(L[j], <<k - 1, Visited(L)[k]>>)
<1> DEFINE n == Len(L)
           vs == [i \in DOMAIN L |-> [k \in 1..BlockCount(L[i]) |-> L[i].start + (k - 1)]]
<1>1. DOMAIN L = 1..n /\ n \in Nat /\ \A i \in 1..n : L[i] \in LeafEntries
  BY ElementsOf
<1>2. \A i \in 1..n : L[i].len < LongBit
  BY DEF Chain
<1>3. \A i \in 1..n : vs[i] = Run(L[i])
  BY <1>1 DEF Run
<1>4. \A i \in 1..n : vs[i] \in Seq(Nat)
  BY <1>1, <1>2, <1>3, RunIs
<1>5. vs = [i \in 1..n |-> vs[i]]
  BY <1>1
<1>6. Visited(L) = FlattenSeq(vs)
  BY DEF Visited
<1> HIDE DEF vs
<1>7. vs \in Seq(Seq(Nat)) /\ Len(vs) = n
  <2>1. vs \in [1..n -> Seq(Nat)]
    BY <1>4, <1>5
  <2>2. QED
    BY <1>1, <2>1
<1>8. PICK g : Grows(g, vs, Nat) /\ FlattenSeq(vs) = g[Len(vs)]
  BY <1>7, FlattenGrows
<1>9. /\ g \in [0..n -> Seq(Nat)] /\ g[0] = <<>>
      /\ \A i \in 1..n : g[i] = g[i - 1] \o vs[i]
  BY <1>7, <1>8 DEF Grows
<1> DEFINE Bad == {i \in 0..n : ~ Visits(g, L, i)}
<1>10. ASSUME Bad # {} PROVE FALSE
  <2>1. PICK i \in Bad : \A j \in Bad : i <= j
    <3>1. Bad \in SUBSET Nat
      OBVIOUS
    <3> HIDE DEF Bad
    <3>2. QED
      BY <1>10, <3>1, MinExists
  <2>2. CASE i = 0
    <3>1. Len(g[0]) = 0
      BY <1>9
    <3>2. Visits(g, L, 0)
      BY <3>1 DEF Visits
    <3>3. QED
      BY <2>1, <2>2, <3>2
  <2>3. CASE i # 0
    <3>1. i \in 1..n /\ i - 1 \in 0..n /\ i - 1 \in Nat
      BY <1>1, <2>1, <2>3
    <3>2. i - 1 \notin Bad
      <4>1. i - 1 \in Bad => i <= i - 1
        BY <2>1
      <4>2. QED
        BY <3>1, <4>1
    <3>3. Visits(g, L, i - 1)
      BY <3>1, <3>2
    <3> DEFINE e == L[i]
               a == g[i - 1]
               b == vs[i]
    <3>4. /\ e \in LeafEntries /\ b = Run(e) /\ b \in Seq(Nat) /\ a \in Seq(Nat)
          /\ g[i] = a \o b
      BY <1>1, <1>3, <1>4, <1>9, <3>1
    <3>5. /\ e.block \in Nat /\ e.block + Len(b) = LeafEnd(e)
          /\ \A k \in 1..Len(b) : MapsTo(e, <<e.block + (k - 1), b[k]>>)
      BY <1>2, <3>1, <3>4, RunIs
    <3>6. Len(a) = e.block
      <4>1. e.block = IF i = 1 THEN 0 ELSE LeafEnd(L[i - 1])
        BY <3>1 DEF Chain
      <4>2. Len(a) = IF i - 1 = 0 THEN 0 ELSE LeafEnd(L[i - 1])
        BY <3>3 DEF Visits
      <4>3. i = 1 <=> i - 1 = 0
        BY <3>1
      <4>4. QED
        BY <4>1, <4>2, <4>3
    <3>7. /\ Len(a \o b) = Len(a) + Len(b)
          /\ \A k \in 1..Len(a) : (a \o b)[k] = a[k]
          /\ \A k \in 1..Len(a \o b) : k > Len(a) =>
                k - Len(a) \in 1..Len(b) /\ (a \o b)[k] = b[k - Len(a)]
          /\ Len(a) \in Nat /\ Len(b) \in Nat
      <4> HIDE DEF a, b
      <4>1. /\ Len(a \o b) = Len(a) + Len(b)
            /\ \A k \in 1..Len(a) : (a \o b)[k] = a[k]
            /\ \A k \in 1..Len(a \o b) : k > Len(a) =>
                  k - Len(a) \in 1..Len(b) /\ (a \o b)[k] = b[k - Len(a)]
        BY <3>4, ConcatIs
      <4>2. Len(a) \in Nat /\ Len(b) \in Nat
        BY <3>4, ElementsOf
      <4>3. QED
        BY <4>1, <4>2
    <3>8. Len(g[i]) = LeafEnd(e) /\ Len(g[i]) \in Nat
      BY <3>4, <3>5, <3>6, <3>7
    <3>9. ASSUME NEW k \in 1..Len(g[i])
          PROVE  \E j \in 1..i : MapsTo(L[j], <<k - 1, g[i][k]>>)
      <4>1. CASE k \in 1..Len(a)
        <5>1. PICK j \in 1..(i - 1) : MapsTo(L[j], <<k - 1, a[k]>>)
          BY <3>3, <4>1 DEF Visits
        <5>2. j \in 1..i /\ g[i][k] = a[k]
          BY <3>1, <3>4, <3>7, <4>1
        <5>3. QED
          BY <5>1, <5>2
      <4>2. CASE k \notin 1..Len(a)
        <5>1. k > Len(a)
          BY <3>7, <4>2
        <5>2. PICK c : c = k - Len(a)
          OBVIOUS
        <5>3. c \in 1..Len(b) /\ g[i][k] = b[c]
          BY <3>4, <3>7, <3>9, <5>1, <5>2
        <5>4. e.block + (c - 1) = k - 1
          <6>1. k \in Nat /\ c \in Nat /\ e.block \in Nat
            BY <3>5, <3>7, <3>8, <3>9, <5>3
          <6>2. c = k - e.block
            BY <3>6, <5>2
          <6> HIDE DEF e
          <6>3. QED
            BY <6>1, <6>2
        <5>5. MapsTo(e, <<k - 1, b[c]>>)
          BY <3>5, <5>3, <5>4
        <5>6. i \in 1..i
          BY <3>1
        <5>7. QED
          BY <5>3, <5>5, <5>6
      <4>3. QED
        BY <4>1, <4>2
    <3>10. Visits(g, L, i)
      BY <2>3, <3>8, <3>9 DEF Visits
    <3>11. QED
      BY <2>1, <3>10
  <2>4. QED
    BY <2>2, <2>3
<1>11. Visits(g, L, n)
  BY <1>1, <1>10
<1>12. Visited(L) = g[n] /\ g[n] \in Seq(Nat)
  BY <1>1, <1>6, <1>7, <1>8, <1>9
<1>13. Len(g[n]) = to
  BY <1>11 DEF Visits, Chain
<1>14. QED
  BY <1>11, <1>12, <1>13 DEF Visits

\* What an extent maps, by the disk format.
FormatPair(e, pair) == \E k \in 0..(TrueCount(e) - 1) : pair = <<e.block + k, e.start + k>>

LEMMA FormatMapIs ==
    ASSUME NEW leaves, NEW pair
    PROVE  pair \in FormatMap(leaves) <=> \E e \in leaves : FormatPair(e, pair)
<1> DEFINE Of(e) == {<<e.block + k, e.start + k>> : k \in 0..(TrueCount(e) - 1)}
<1>1. \A e : pair \in Of(e) <=> FormatPair(e, pair)
  BY Zenon DEF FormatPair
<1>2. FormatMap(leaves) = UNION {Of(e) : e \in leaves}
  BY Zenon DEF FormatMap
<1> HIDE DEF Of
<1>3. QED
  BY <1>1, <1>2

LEMMA FormatReading ==
    ASSUME NEW e \in LeafEntries, e.len # LongBit, NEW pair
    PROVE  MapsTo(e, pair) <=> FormatPair(e, pair)
<1>1. e.block \in Nat /\ e.start \in Nat /\ TrueCount(e) \in Nat \ {0} /\ LeafEnd(e) = e.block + TrueCount(e)
  BY LeafCounts DEF LeafEnd
<1>2. ASSUME NEW l \in Nat, e.block <= l, l < LeafEnd(e), pair = <<l, MapBlock(e, l)>>
      PROVE  FormatPair(e, pair)
  <2>1. PICK k : k = l - e.block
    OBVIOUS
  <2>2. k \in 0..(TrueCount(e) - 1) /\ l = e.block + k
    BY <1>1, <1>2, <2>1
  <2>3. MapBlock(e, l) = e.start + k
    BY <2>1 DEF MapBlock
  <2>4. QED
    BY <1>2, <2>2, <2>3 DEF FormatPair
<1>3. ASSUME NEW k \in 0..(TrueCount(e) - 1), pair = <<e.block + k, e.start + k>>
      PROVE  MapsTo(e, pair)
  <2>1. PICK l : l = e.block + k
    OBVIOUS
  <2>2. l \in Nat /\ e.block <= l /\ l < LeafEnd(e) /\ l - e.block = k
    BY <1>1, <2>1
  <2>3. MapBlock(e, l) = e.start + k
    BY <2>2 DEF MapBlock
  <2>4. QED
    BY <1>3, <2>1, <2>2, <2>3 DEF MapsTo
<1>4. QED
  BY <1>2, <1>3 DEF MapsTo, FormatPair

LEMMA PlainReading ==
    ASSUME NEW t, NEW span, Ordered(t, span), Plain(t), NEW pair
    PROVE  pair \in MapOf(t) <=> pair \in FormatMap(TrueLeaves(t))
<1>1. \A e \in TrueLeaves(t) : e \in LeafEntries /\ e.len # LongBit
  BY ResolvedTree, PartOf DEF Plain, Longest
<1>2. QED
  BY <1>1, MapOfIs, FormatMapIs, FormatReading

\* The blocks that a search goes through, in any order.
LEMMA VisitedBlocks ==
    ASSUME NEW L \in Seq(LeafEntries), \A i \in 1..Len(L) : L[i].len <= LongBit,
           NEW read, read = {e \in ToSet(L) : ~Longest(e)}, NEW b
    PROVE  b \in ToSet(Visited(L)) <=> \E pair \in FormatMap(read) : pair[2] = b
<1> DEFINE n == Len(L)
           vs == [i \in DOMAIN L |-> [k \in 1..BlockCount(L[i]) |-> L[i].start + (k - 1)]]
<1>1. DOMAIN L = 1..n /\ n \in Nat /\ \A i \in 1..n : L[i] \in LeafEntries
  BY ElementsOf
<1>2. \A i \in 1..n : vs[i] = Run(L[i])
  BY <1>1 DEF Run
<1>3. ASSUME NEW i \in 1..n
      PROVE  /\ Run(L[i]) \in Seq(Nat) /\ DOMAIN Run(L[i]) = 1..BlockCount(L[i])
             /\ Len(Run(L[i])) = BlockCount(L[i])
             /\ \A k \in 1..BlockCount(L[i]) : Run(L[i])[k] = L[i].start + (k - 1)
  <2>1. BlockCount(L[i]) \in Nat /\ L[i].start \in Nat
    BY <1>1, LeafCounts
  <2>2. PICK m, a : m = BlockCount(L[i]) /\ a = L[i].start
    OBVIOUS
  <2>3. Run(L[i]) = [k \in 1..m |-> a + (k - 1)]
    BY <2>2 DEF Run
  <2>4. Run(L[i]) \in [1..m -> Nat]
    BY <2>1, <2>2, <2>3
  <2>5. Run(L[i]) \in Seq(Nat) /\ Len(Run(L[i])) = m
    BY <2>1, <2>2, <2>4
  <2>6. QED
    BY <2>2, <2>3, <2>4, <2>5
<1>4. Visited(L) = FlattenSeq(vs)
  BY DEF Visited
<1>5. vs = [i \in 1..n |-> vs[i]]
  BY <1>1
<1> HIDE DEF vs
<1>6. vs \in Seq(Seq(Nat)) /\ Len(vs) = n
  <2>1. vs \in [1..n -> Seq(Nat)]
    BY <1>2, <1>3, <1>5
  <2>2. QED
    BY <1>1, <2>1
<1>7. Visited(L) \in Seq(Nat) /\ InOrder(Visited(L), vs, n)
  BY <1>4, <1>6, FlattenInOrder
<1>8. b \in ToSet(Visited(L)) <=> \E k \in 1..Len(Visited(L)) : Visited(L)[k] = b
  BY <1>7, ToSetIs
<1>9. b \in ToSet(Visited(L)) <=> \E i \in 1..n : \E j \in 1..Len(vs[i]) : vs[i][j] = b
  <2>1. \A k \in 1..Len(Visited(L)) : \E i, j : Found(Visited(L), vs, n, k, i, j)
    BY <1>7 DEF InOrder
  <2>2. \A i \in 1..n : \A j \in 1..Len(vs[i]) : \E k \in 1..Len(Visited(L)) : Visited(L)[k] = vs[i][j]
    BY <1>7 DEF InOrder
  <2>3. ASSUME NEW k \in 1..Len(Visited(L)), Visited(L)[k] = b
        PROVE  \E i \in 1..n : \E j \in 1..Len(vs[i]) : vs[i][j] = b
    <3>1. PICK i, j : Found(Visited(L), vs, n, k, i, j)
      BY <2>1
    <3>2. QED
      BY <2>3, <3>1 DEF Found
  <2>4. QED
    BY <1>8, <2>2, <2>3
<1>10. ASSUME NEW i \in 1..n
       PROVE  (\E j \in 1..Len(vs[i]) : vs[i][j] = b)
                <=> ~Longest(L[i]) /\ \E k \in 0..(TrueCount(L[i]) - 1) : b = L[i].start + k
  <2>1. PICK e : e = L[i]
    OBVIOUS
  <2>2. e \in LeafEntries /\ vs[i] = Run(e) /\ Len(vs[i]) = BlockCount(e)
        /\ \A k \in 1..BlockCount(e) : vs[i][k] = e.start + (k - 1)
    BY <1>1, <1>2, <1>3, <2>1
  <2>3. e.start \in Nat /\ TrueCount(e) \in Nat \ {0}
        /\ BlockCount(e) = IF e.len = LongBit THEN 0 ELSE TrueCount(e)
    BY <2>2, LeafCounts
  <2>4. CASE Longest(e)
    BY <2>1, <2>2, <2>3, <2>4 DEF Longest
  <2>5. CASE ~Longest(e)
    <3>1. BlockCount(e) = TrueCount(e)
      BY <2>3, <2>5 DEF Longest
    <3>2. \A k \in 0..(TrueCount(e) - 1) : k + 1 \in 1..TrueCount(e) /\ (k + 1) - 1 = k
      BY <2>3
    <3>3. \A j \in 1..TrueCount(e) : j - 1 \in 0..(TrueCount(e) - 1)
      BY <2>3
    <3>4. QED
      BY <2>1, <2>2, <2>5, <3>1, <3>2, <3>3
  <2>6. QED
    BY <2>4, <2>5
<1>11. b \in ToSet(Visited(L)) <=>
          \E e \in read : \E k \in 0..(TrueCount(e) - 1) : b = e.start + k
  <2>1. \A e : e \in ToSet(L) <=> \E i \in 1..n : L[i] = e
    BY ToSetIs
  <2>2. QED
    BY <1>9, <1>10, <2>1
<1>12. \A e \in read : \A k \in 0..(TrueCount(e) - 1) :
          <<e.block + k, e.start + k>> \in FormatMap(read) /\ <<e.block + k, e.start + k>>[2] = e.start + k
  <2>1. \A e \in read : \A k \in 0..(TrueCount(e) - 1) : FormatPair(e, <<e.block + k, e.start + k>>)
    BY Zenon DEF FormatPair
  <2>2. QED
    BY <2>1, FormatMapIs
<1>13. \A pair \in FormatMap(read) : \E e \in read : \E k \in 0..(TrueCount(e) - 1) : pair[2] = e.start + k
  <2>1. SUFFICES ASSUME NEW pair \in FormatMap(read)
                 PROVE  \E e \in read : \E k \in 0..(TrueCount(e) - 1) : pair[2] = e.start + k
    OBVIOUS
  <2>2. PICK e \in read : FormatPair(e, pair)
    BY FormatMapIs
  <2>3. PICK k \in 0..(TrueCount(e) - 1) : pair = <<e.block + k, e.start + k>>
    BY <2>2 DEF FormatPair
  <2>4. QED
    BY <2>3
<1>14. ASSUME NEW e \in read, NEW k \in 0..(TrueCount(e) - 1), b = e.start + k
       PROVE  \E pair \in FormatMap(read) : pair[2] = b
  BY <1>12, <1>14
<1>15. QED
  BY <1>11, <1>13, <1>14

\* The extents of a directory, whichever they are.
LEMMA DirectoryLeaves ==
    ASSUME NEW t, Directory(t), NEW L, L = ResolveExtents(t)
    PROVE  /\ L \in Seq(LeafEntries) /\ ToSet(L) = TrueLeaves(t)
           /\ \A i \in 1..Len(L) : L[i].len <= LongBit
<1>1. ASSUME NEW span, Ordered(t, span), \A e \in TrueLeaves(t) : e.len <= LongBit
      PROVE  /\ L \in Seq(LeafEntries) /\ ToSet(L) = TrueLeaves(t)
             /\ \A i \in 1..Len(L) : L[i].len <= LongBit
  <2>1. L \in Seq(LeafEntries) /\ ToSet(L) = TrueLeaves(t)
    BY <1>1, ResolvedTree
  <2>2. \A i \in 1..Len(L) : L[i] \in ToSet(L)
    BY <2>1, ToSetIs
  <2>3. QED
    BY <1>1, <2>1, <2>2
<1>2. CASE Allowed(t, TRUE)
  BY <1>1, <1>2, WholeShort DEF Allowed, Full
<1>3. CASE Fixed(t)
  BY <1>1, <1>3 DEF Fixed
<1>4. CASE Overgrown(t)
  BY <1>4, ShallowTree DEF Overgrown, Laid
<1>5. QED
  BY <1>2, <1>3, <1>4 DEF Directory

LEMMA SearchesAre ==
    ASSUME NEW t, NEW span, Ordered(t, span), Full(t, span), NEW visited,
           visited = Visited(ResolveExtents(t)), NEW pair
    PROVE  pair \in MapOf(t) <=> \E k \in DOMAIN visited : pair = <<k - 1, visited[k]>>
<1> DEFINE L == ResolveExtents(t)
           to == span[Root].to
<1>1. L \in Seq(LeafEntries) /\ Part(L, 0, to) /\ ToSet(L) = TrueLeaves(t)
  BY ResolvedTree
<1>2. Chain(L, 0, to)
  BY ResolvedChain
<1> HIDE DEF L
<1>3. /\ visited \in Seq(Nat) /\ Len(visited) = to
      /\ \A k \in 1..Len(visited) : \E j \in 1..Len(L) : MapsTo(L[j], <<k - 1, visited[k]>>)
  BY <1>1, <1>2, VisitedIs DEF L
<1>4. DOMAIN visited = 1..to
  BY <1>3, ElementsOf
<1>5. \A k \in 1..to : \E e \in TrueLeaves(t) : MapsTo(e, <<k - 1, visited[k]>>)
  BY <1>1, <1>3, ToSetIs
<1>6. pair \in MapOf(t) <=> \E e \in TrueLeaves(t) : MapsTo(e, pair)
  BY MapOfIs
<1>7. ASSUME NEW e \in TrueLeaves(t), MapsTo(e, pair)
      PROVE  \E k \in 1..to : pair = <<k - 1, visited[k]>>
  <2>1. PICK l \in Nat : e.block <= l /\ l < LeafEnd(e) /\ pair = <<l, MapBlock(e, l)>>
    BY <1>7 DEF MapsTo
  <2>2. LeafEnd(e) <= to /\ LeafEnd(e) \in Nat /\ to \in Nat
    BY <1>1, PartOf, LeafCounts, SpanOf DEF Ordered
  <2>3. l + 1 \in 1..to /\ (l + 1) - 1 = l
    BY <2>1, <2>2
  <2>4. PICK f \in TrueLeaves(t) : MapsTo(f, <<l, visited[l + 1]>>)
    BY <1>5, <2>3
  <2>5. f.block <= l /\ l < LeafEnd(f) /\ visited[l + 1] = MapBlock(f, l)
    BY <2>4 DEF MapsTo
  <2>6. e = f
    BY <1>1, <2>1, <2>5, CoversOnce DEF Covers, LeafEnd
  <2>7. pair = <<(l + 1) - 1, visited[l + 1]>>
    BY <2>1, <2>3, <2>5, <2>6
  <2>8. QED
    BY <2>3, <2>7
<1>8. QED
  BY <1>4, <1>5, <1>6, <1>7

\* A search of a directory, for a name or for space, goes through the blocks
\* that the disk format maps, each once and in order; it skips those of extents
\* of the longest length, and only those.
THEOREM SearchesAlwaysComplete == Spec => []SearchesComplete
<1>1. IInv => SearchesComplete
  <2>1. SUFFICES ASSUME IInv, kind = "dir" PROVE SearchesComplete
    BY DEF SearchesComplete
  <2>2. PICK t : t = tree
    OBVIOUS
  <2>3. PICK visited : visited = Visited(ResolveExtents(t))
    OBVIOUS
  <2>4. PICK read : read = {e \in TrueLeaves(t) : ~Longest(e)}
    OBVIOUS
  <2>5. Directory(t)
    BY <2>1, <2>2 DEF IInv, Shape
  <2>6. ToSet(visited) = {pair[2] : pair \in FormatMap(read)}
    <3>1. PICK L : L = ResolveExtents(t)
      OBVIOUS
    <3>2. /\ L \in Seq(LeafEntries) /\ ToSet(L) = TrueLeaves(t)
          /\ \A i \in 1..Len(L) : L[i].len <= LongBit
      BY <2>5, <3>1, DirectoryLeaves
    <3>3. read = {e \in ToSet(L) : ~Longest(e)} /\ visited = Visited(L)
      BY <2>3, <2>4, <3>1, <3>2
    <3>4. \A b : b \in ToSet(visited) <=> \E pair \in FormatMap(read) : pair[2] = b
      BY <3>2, <3>3, VisitedBlocks
    <3>5. QED
      BY <3>4
  <2>7. ASSUME read = TrueLeaves(t)
        PROVE  FormatMap(read) = {<<k - 1, visited[k]>> : k \in DOMAIN visited}
    <3>1. Plain(t)
      BY <2>4, <2>7 DEF Plain
    <3>2. ~Fixed(t)
      BY <3>1 DEF Fixed
    <3>3. ~Overgrown(t)
      <4>1. SUFFICES ASSUME Overgrown(t) PROVE FALSE
        OBVIOUS
      <4>2. PICK i \in 1..Len(t[Root].entries) : Longest(t[Root].entries[i])
        BY <4>1 DEF Overgrown
      <4>3. t[Root].entries[i] \in TrueLeaves(t)
        BY <4>1, ShallowTree, ToSetIs DEF Overgrown
      <4>4. QED
        BY <3>1, <4>2, <4>3 DEF Plain
    <3>4. PICK span : Ordered(t, span) /\ Full(t, span)
      BY <2>5, <3>2, <3>3 DEF Directory, Allowed
    <3>5. \A pair : pair \in MapOf(t) <=> \E k \in DOMAIN visited : pair = <<k - 1, visited[k]>>
      BY <2>3, <3>4, SearchesAre
    <3>6. \A pair : pair \in FormatMap(read) <=> \E k \in DOMAIN visited : pair = <<k - 1, visited[k]>>
      BY <2>7, <3>1, <3>4, <3>5, PlainReading
    <3>7. QED
      BY <3>6, Zenon
  <2>8. QED
    BY <2>2, <2>3, <2>4, <2>6, <2>7 DEF SearchesComplete
<1>2. QED
  BY <1>1, TreeInvariant, PTL

=============================================================================
