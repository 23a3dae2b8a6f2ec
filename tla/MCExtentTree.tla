---------------------------- MODULE MCExtentTree ----------------------------
(* Instances of ExtentTree for TLC: every file of up to three extents that   *)
(* start and end at or around the limits, in trees of up to three levels,    *)
(* and every directory of up to three.  Logical blocks take four bits and    *)
(* lengths three.                                                            *)
EXTENDS ExtentTree

\* Extents: lengths 1 and 3, the longest one that is initialised (4), and 2
\* blocks that are not (6).
Starts == {0, 1, 2, 5, 8, 11, 14}
Pieces == {<<block, len>> \in Starts \X {1, 3, 4, 6} :
              block + TrueCount(Leaf(block, len, 0)) < LogicalLimit}
Sorted(s) ==
    \A i, j \in DOMAIN s : i < j => s[i][1] + TrueCount(Leaf(s[i][1], s[i][2], 0)) <= s[j][1]
Lists(pieces) == {s \in UNION {[1..n -> pieces] : n \in 0..3} : Sorted(s)}

\* Physical blocks far apart, in another order than the logical ones.
Leaves(s) == [i \in DOMAIN s |-> Leaf(s[i][1], s[i][2], 100 - 20 * i)]

\* Nodes below the root, by number.
Place(i) == 200 + i

Flat(s) == Alone(Node(0, RootMax, Leaves(s)))

\* One leaf node per extent.
Wide(s) ==
    [p \in {Root} \cup {Place(i) : i \in DOMAIN s} |->
        IF p = Root THEN Node(1, RootMax, [i \in DOMAIN s |-> Index(s[i][1], Place(i))])
        ELSE Node(0, 8, <<Leaves(s)[p - Place(0)]>>)]

\* Two leaf nodes, with the first k extents in the left one, under the root
\* or under a node each.
Halves(s, k) == <<SubSeq(Leaves(s), 1, k), SubSeq(Leaves(s), k + 1, Len(s))>>
Split(s, k) ==
    [p \in {Root, Place(1), Place(2)} |->
        IF p = Root THEN Node(1, RootMax, <<Index(s[1][1], Place(1)), Index(s[k + 1][1], Place(2))>>)
        ELSE Node(0, 8, Halves(s, k)[p - Place(0)])]
Deep(s, k) ==
    [p \in {Root} \cup {Place(i) : i \in 1..4} |->
        IF p = Root THEN Node(2, RootMax, <<Index(s[1][1], Place(3)), Index(s[k + 1][1], Place(4))>>)
        ELSE IF p \in {Place(3), Place(4)}
        THEN Node(1, 8, <<Index(IF p = Place(3) THEN s[1][1] ELSE s[k + 1][1], p - 2)>>)
        ELSE Node(0, 8, Halves(s, k)[p - Place(0)])]

Contiguous(s) == \A i \in DOMAIN s : s[i][1] = IF i = 1 THEN 0 ELSE s[i - 1][1] + s[i - 1][2]
DirPieces == (0..8) \X (1..4)

\* Where a child's extent ends: at the next child, or where its parent's does.
Next1(s, k, to) == IF k + 1 \in DOMAIN s THEN s[k + 1][1] ELSE to

\* The extent of each node of a tree of the extents `s', cut after the k-th,
\* when the root's extent ends at `to'.
Extent(from, to) == [from |-> from, to |-> to]
FlatSpan(to) == [p \in {Root} |-> Extent(0, to)]
WideSpan(s, to) ==
    [p \in {Root} \cup {Place(i) : i \in DOMAIN s} |->
        IF p = Root THEN Extent(0, to)
        ELSE Extent(s[p - Place(0)][1], Next1(s, p - Place(0), to))]
CutSpan(s, k, to, places) ==
    [p \in {Root} \cup places |->
        IF p = Root THEN Extent(0, to)
        ELSE IF p \in {Place(1), Place(3)} THEN Extent(s[1][1], s[k + 1][1])
        ELSE Extent(s[k + 1][1], to)]

\* The trees of the extents `s', with the extents of their nodes.
Trees(s, to) ==
    {<<Flat(s), FlatSpan(to)>>}
    \cup (IF s = <<>> THEN {} ELSE {<<Wide(s), WideSpan(s, to)>>})
    \cup {<<Split(s, k), CutSpan(s, k, to, {Place(1), Place(2)})>> : k \in 1..(Len(s) - 1)}
    \cup {<<Deep(s, k), CutSpan(s, k, to, {Place(i) : i \in 1..4})>> : k \in 1..(Len(s) - 1)}

Image(type, pair) == [tree |-> pair[1], kind |-> type, span |-> pair[2]]

MCImages ==
    UNION {{Image("file", t) : t \in Trees(s, LogicalLimit - 1)} : s \in Lists(Pieces)}
    \cup UNION {{Image("dir", t) : t \in Trees(s, s[Len(s)][1] + s[Len(s)][2])} :
                  s \in {d \in Lists(DirPieces) : d # <<>> /\ Contiguous(d)}}
=============================================================================
