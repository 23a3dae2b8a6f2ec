----------------------------- MODULE ExtentTree -----------------------------
(***************************************************************************)
(* The extent tree of one inode: src/src/extent.rs, and its callers        *)
(* resolve_extents, read_inode_data, append_extent and the reset of the    *)
(* root by write_file (src/src/readwrite.rs).                              *)
(*                                                                         *)
(* A tree is a function from the places of its nodes, Root for i_block and *)
(* blocks for the others, to [depth, max, entries].  Trees that other      *)
(* implementations made may have any depth; append_extent only extends a   *)
(* root that is a leaf.  A directory is appended to as it is, a file only  *)
(* after a reset.                                                          *)
(***************************************************************************)
EXTENDS Integers, SequencesExt

CONSTANTS
    Root,          \* the place of the root node
    LogicalLimit,  \* 2^32: logical block numbers are below it
    LongBit,       \* 0x8000
    RootMax,       \* ROOT_MAX_ENTRIES
    MaxDepth,      \* of the trees to start from
    Images,        \* [tree, kind, span] to start from
    Blocks         \* the physical blocks to append

ASSUME LimitsAssumption ==
    /\ {LogicalLimit, LongBit, RootMax, MaxDepth} \subseteq Nat
    /\ LongBit > 1
    /\ RootMax > 0
    /\ RootMax < LogicalLimit
    /\ Root \notin Blocks
    /\ Blocks \subseteq Nat

VARIABLES
    tree,   \* on disk: the nodes that hang from the root
    kind,   \* "file" or "dir"
    spare,  \* the blocks that allocate_block has not given out
    open    \* write_file has reset the root and is appending blocks

vars == <<tree, kind, spare, open>>

\* A leaf entry [block, len, start], an index entry [block, child].
Leaf(block, len, start) == [block |-> block, len |-> len, start |-> start]
Index(block, child) == [block |-> block, child |-> child]
Node(depth, max, entries) == [depth |-> depth, max |-> max, entries |-> entries]

\* block_count: the flag is masked out.
BlockCount(leaf) == IF leaf.len >= LongBit THEN leaf.len - LongBit ELSE leaf.len

\* A sum of u32s, which wraps around (or stops a build with overflow checks).
Wrap(n) == IF n >= LogicalLimit THEN n - LogicalLimit ELSE n

\* Mutant: `<=' for `<'.
ContainsBlockPastEnd(leaf, l) == leaf.block <= l /\ l <= Wrap(leaf.block + BlockCount(leaf))

\* contains_block and map_block.
ContainsBlock(leaf, l) == leaf.block <= l /\ l < Wrap(leaf.block + BlockCount(leaf))
MapBlock(leaf, l) == leaf.start + (l - leaf.block)

-----------------------------------------------------------------------------
(* Reading a tree.                                                         *)

\* parse_leaves and parse_indices: nothing, for a node of the other kind.
ParseLeaves(node) == IF node.depth = 0 THEN node.entries ELSE <<>>
ParseIndices(node) == IF node.depth = 0 THEN <<>> ELSE node.entries

\* Mutant: the children are put in front of each other.
ResolveExtentsReversed(t) ==
    LET leaves[d \in 0..MaxDepth] == [place \in DOMAIN t |->
            IF d = 0 THEN ParseLeaves(t[place])
            ELSE LET indices == ParseIndices(t[place])
                 IN  FlattenSeq(Reverse([i \in DOMAIN indices |->
                                            leaves[d - 1][indices[i].child]]))]
    IN  leaves[t[Root].depth][Root]

\* resolve_extents: the leaves in the order of the tree, down to the depth that
\* the root claims.
ResolveExtents(t) ==
    LET leaves[d \in 0..MaxDepth] == [place \in DOMAIN t |->
            IF d = 0 THEN ParseLeaves(t[place])
            ELSE LET indices == ParseIndices(t[place])
                 IN  FlattenSeq([i \in DOMAIN indices |-> leaves[d - 1][indices[i].child]])]
    IN  leaves[t[Root].depth][Root]

\* The blocks that lookup_in_dir, list_dir and add_dir_entry go through.
Visited(leaves) ==
    FlattenSeq([i \in DOMAIN leaves |->
        [k \in 1..BlockCount(leaves[i]) |-> leaves[i].start + (k - 1)]])

\* What a lookup answers for Rust's None.
Unmapped == -1

\* find_leaf_for_block: the first extent that contains the block, mapped.
Hits(leaves, l) == {i \in DOMAIN leaves : ContainsBlock(leaves[i], l)}
FindLeaf(leaves, l) ==
    IF Hits(leaves, l) = {} THEN Unmapped
    ELSE MapBlock(leaves[Min(Hits(leaves, l))], l)

\* Mutant: `<' for `<='.
FindIndexStrict(indices, l) ==
    LET search[lo \in 0..Len(indices)] == [hi \in 0..Len(indices) |->
            LET mid == lo + (hi - lo) \div 2
            IN  IF lo >= hi THEN lo
                ELSE IF indices[mid + 1].block < l THEN search[mid + 1][hi]
                ELSE search[lo][mid]]
    IN  search[0][Len(indices)]

\* find_index_for_block: the binary search's `lo', the number of entries whose
\* subtree starts at or before the block; 0 is None.
FindIndex(indices, l) ==
    LET search[lo \in 0..Len(indices)] == [hi \in 0..Len(indices) |->
            LET mid == lo + (hi - lo) \div 2
            IN  IF lo >= hi THEN lo
                ELSE IF indices[mid + 1].block <= l THEN search[mid + 1][hi]
                ELSE search[lo][mid]]
    IN  search[0][Len(indices)]

\* A lookup that goes down the tree by find_index_for_block: what this public
\* function is for, though the crate itself has no use for it.
Descend(t, l) ==
    LET found[d \in 0..MaxDepth] == [place \in DOMAIN t |->
            IF d = 0 THEN FindLeaf(ParseLeaves(t[place]), l)
            ELSE LET indices == ParseIndices(t[place])
                     at == FindIndex(indices, l)
                 IN  IF at = 0 THEN Unmapped ELSE found[d - 1][indices[at].child]]
    IN  found[t[Root].depth][Root]

\* read_inode_data, of a file of `size' blocks: the blocks that it reads.
Corrupt == <<Unmapped>>
ReadInodeData(t, size) ==
    LET leaves == ResolveExtents(t)
        blocks == [l \in 0..(size - 1) |-> FindLeaf(leaves, l)]
    IN  IF \E l \in 0..(size - 1) : blocks[l] = Unmapped THEN Corrupt ELSE blocks

-----------------------------------------------------------------------------
(* The disk format, as a reference: which blocks an extent maps.           *)

\* Lengths up to 0x8000 are initialised, longer ones uninitialised.
TrueCount(leaf) == IF leaf.len <= LongBit THEN leaf.len ELSE leaf.len - LongBit
Covers(leaf, l) == leaf.block <= l /\ l < leaf.block + TrueCount(leaf)

TrueLeaves(t) == UNION {ToSet(t[p].entries) : p \in {q \in DOMAIN t : t[q].depth = 0}}

\* The extent of each node: the blocks that it and all below it may map.
Spans(t) == [DOMAIN t -> [from : 0..(LogicalLimit - 1), to : 0..(LogicalLimit - 1)]]

\* Where the part of an entry ends.
End(t, span, p, i) ==
    LET e == t[p].entries[i]
    IN  IF t[p].depth = 0 THEN e.block + TrueCount(e) ELSE span[e.child].to

LeafEntries == [block : Nat, len : 1..(2 * LongBit - 1), start : Nat]
LeafNodes == [depth : {0}, max : Nat, entries : Seq(LeafEntries)]
IndexNodes(t) ==
    [depth : 1..MaxDepth, max : Nat, entries : Seq([block : Nat, child : DOMAIN t])]

\* A node's entries are in order, each in the extent of the node, and each
\* child is one level down, with an extent that begins where its entry says.
OrderedNode(t, span, p) ==
    /\ t[p] \in LeafNodes \cup IndexNodes(t)
    /\ span[p].from <= span[p].to
    /\ \A i \in DOMAIN t[p].entries :
        LET e == t[p].entries[i]
        IN  /\ span[p].from <= e.block /\ End(t, span, p, i) <= span[p].to
            /\ t[p].depth # 0 => t[e.child].depth = t[p].depth - 1 /\ span[e.child].from = e.block
            /\ \A j \in DOMAIN t[p].entries :
                i < j => End(t, span, p, i) <= t[p].entries[j].block

\* A tree that the disk format allows: it is ordered, and has no other nodes
\* than those that hang from the root.  No extent reaches the last block.
Ordered(t, span) ==
    /\ Root \in DOMAIN t
    /\ span \in Spans(t)
    /\ \A p \in DOMAIN t : OrderedNode(t, span, p)
    /\ \A q \in DOMAIN t \ {Root} :
        \E p \in DOMAIN t : t[p].depth # 0 /\ \E i \in DOMAIN t[p].entries : t[p].entries[i].child = q
    /\ span[Root].from = 0
    /\ Len(t[Root].entries) <= t[Root].max

\* The blocks of a directory: no holes, no block that is allocated and not
\* written, and room for what the root can still take.  An extent may have the
\* longest length, LongBit, which block_count reads as 0.
Whole(t, span) ==
    /\ \A p \in DOMAIN t :
        LET n == Len(t[p].entries)
        IN  /\ \A i \in 1..n :
                /\ t[p].entries[i].block = IF i = 1 THEN span[p].from ELSE End(t, span, p, i - 1)
                /\ t[p].depth = 0 => t[p].entries[i].len <= LongBit
            /\ span[p].to = IF n = 0 THEN span[p].from ELSE End(t, span, p, n)
    /\ span[Root].to + (t[Root].max - Len(t[Root].entries)) < LogicalLimit

\* No physical block is mapped twice, or free.
Apart(t) ==
    /\ \A e, f \in TrueLeaves(t) :
        e = f \/ e.start + TrueCount(e) <= f.start \/ f.start + TrueCount(f) <= e.start
    /\ \A e \in TrueLeaves(t), b \in Blocks : b < e.start \/ e.start + TrueCount(e) <= b

\* The extents of the nodes come with the tree: they are not on the disk.
ASSUME ImagesAssumption ==
    \A image \in Images :
        /\ image.kind \in {"file", "dir"}
        /\ Ordered(image.tree, image.span)
        /\ image.kind = "dir" => Whole(image.tree, image.span)
        /\ Apart(image.tree)

-----------------------------------------------------------------------------
(* Changing a tree.                                                        *)

\* The root that init_extent_tree and write_file make, and a tree of one node.
FreshRoot == Node(0, RootMax, <<>>)
Alone(root) == [place \in {Root} |-> root]

\* Mutant: the number of entries, as if each mapped one block.
NextLogicalCounted(root) == Len(ParseLeaves(root))

\* The end of the last extent.
NextLogical(root) ==
    LET leaves == ParseLeaves(root)
    IN  IF leaves = <<>> THEN 0
        ELSE Max({Wrap(leaves[i].block + BlockCount(leaves[i])) : i \in DOMAIN leaves})

\* Mutant: the new entry is the first one.
AppendedInFront(root, b) ==
    [root EXCEPT !.entries = <<Leaf(NextLogical(root), 1, b)>> \o @]

\* append_extent, where it does not refuse.
Appended(root, b) == [root EXCEPT !.entries = Append(@, Leaf(NextLogical(root), 1, b))]

\* Mutant: `>' for `>='.
AcceptsOneMore(root) == root.depth = 0 /\ Len(root.entries) <= root.max

Accepts(root) == root.depth = 0 /\ Len(root.entries) < root.max

Init ==
    /\ \E image \in Images : tree = image.tree /\ kind = image.kind
    /\ spare = Blocks
    /\ open = FALSE

\* write_file up to its first append_extent, which is what writes the new root.
Rewrite ==
    /\ kind = "file" /\ ~open
    /\ \E b \in spare :
        /\ tree' = Alone(Appended(FreshRoot, b))
        /\ spare' = spare \ {b}
    /\ open' = TRUE
    /\ UNCHANGED kind

\* write_file with no data: the new root goes with the last write.
Truncate ==
    /\ kind = "file" /\ ~open
    /\ tree' = Alone(FreshRoot)
    /\ UNCHANGED <<kind, spare, open>>

\* The next block of write_file, or a new block of a directory.
AppendExtent ==
    /\ kind = "dir" \/ open
    /\ Accepts(tree[Root])
    /\ \E b \in spare :
        /\ tree' = [tree EXCEPT ![Root] = Appended(@, b)]
        /\ spare' = spare \ {b}
    /\ UNCHANGED <<kind, open>>

\* The same, refused: the block stays allocated, and the call fails.
RefuseExtent ==
    /\ kind = "dir" \/ open
    /\ ~Accepts(tree[Root])
    /\ \E b \in spare : spare' = spare \ {b}
    /\ open' = FALSE
    /\ UNCHANGED <<tree, kind>>

\* write_file ends, by its last write or by an error.
Close ==
    /\ open
    /\ open' = FALSE
    /\ UNCHANGED <<tree, kind, spare>>

Next == Rewrite \/ Truncate \/ AppendExtent \/ RefuseExtent \/ Close

Spec == Init /\ [][Next]_vars

-----------------------------------------------------------------------------
(* What the code must be right about.                                      *)

\* Sizes of files, in blocks: the last block of the address space is not used.
Sizes == 0..(LogicalLimit - 1)

\* The one length that block_count gets wrong: it says 0, where the disk format
\* says LongBit.
Longest(leaf) == leaf.len = LongBit

\* What the leaves map, by the disk format's reading and by the code's.
FormatMap(leaves) ==
    UNION {{<<e.block + k, e.start + k>> : k \in 0..(TrueCount(e) - 1)} : e \in leaves}
Pairs(leaf) ==
    {<<l, MapBlock(leaf, l)>> : l \in {k \in 0..(LogicalLimit - 1) : ContainsBlock(leaf, k)}}
MapOf(t) == UNION {Pairs(leaf) : leaf \in ToSet(ResolveExtents(t))}

-----------------------------------------------------------------------------

\* Nodes have the shape that their depth says, and the root never has more
\* entries than its max.
TypeOK ==
    /\ Root \in DOMAIN tree
    /\ \A p \in DOMAIN tree :
        /\ tree[p].depth \in 0..MaxDepth
        /\ \A i \in DOMAIN tree[p].entries :
            LET e == tree[p].entries[i]
            IN  /\ e.block \in 0..(LogicalLimit - 1)
                /\ IF tree[p].depth = 0 THEN e.len \in 1..(2 * LongBit - 1)
                   ELSE tree[e.child].depth = tree[p].depth - 1
    /\ Len(tree[Root].entries) <= tree[Root].max
    /\ kind \in {"file", "dir"}
    /\ spare \subseteq Blocks
    /\ open \in BOOLEAN

\* The extents of every tree, appended to or not, are sorted and disjoint in
\* logical blocks, by the disk format's reading of their lengths: what binary
\* searches, ours and those of other implementations, rely on.  The one
\* exception: in a directory, append_extent puts a block at the place where a
\* last extent of the longest length begins, and so on top of it.
ExtentsSorted ==
    LET leaves == ResolveExtents(tree)
        end(leaf) == IF kind = "dir" /\ Longest(leaf) THEN leaf.block
                     ELSE leaf.block + TrueCount(leaf)
    IN  \A i, j \in DOMAIN leaves : i < j => end(leaves[i]) <= leaves[j].block

\* extent.rs, find_index_for_block: going down by binary search and looking
\* through all the leaves that resolve_extents returns find the same block.
LookupsAgree ==
    LET leaves == ResolveExtents(tree)
    IN  \A l \in 0..(LogicalLimit - 1) : Descend(tree, l) = FindLeaf(leaves, l)

\* read_file: a read of any size returns the blocks that the disk format
\* assigns to the file, or an error where there is a hole or, the one exception,
\* an extent of the longest length: never other blocks.
ReadExact ==
    LET leaves == TrueLeaves(tree)
        assigned(l) == {e.start + (l - e.block) : e \in {f \in leaves : Covers(f, l)}}
    IN  kind = "file" =>
        \A size \in Sizes :
            LET read == ReadInodeData(tree, size)
            IN  IF read = Corrupt
                THEN \E l \in 0..(size - 1) : \A e \in leaves : Covers(e, l) => Longest(e)
                ELSE \A l \in 0..(size - 1) : assigned(l) = {read[l]}

\* The blocks of a directory that a search for a name, or for space, goes
\* through are those that the disk format maps, each once and in the order of
\* the logical blocks.  The one exception: it skips the blocks of extents of
\* the longest length, and then still goes through all the others.
SearchesComplete ==
    LET visited == Visited(ResolveExtents(tree))
        read == {e \in TrueLeaves(tree) : ~Longest(e)}
    IN  kind = "dir" =>
        /\ ToSet(visited) = {pair[2] : pair \in FormatMap(read)}
        /\ read = TrueLeaves(tree) =>
              FormatMap(read) = {<<k - 1, visited[k]>> : k \in DOMAIN visited}

\* The tree implements a map that only grows at its end or starts over: no
\* append hides, moves or doubles a block that was mapped, by the code's
\* reading of the lengths, which leaves out the extents of the longest one.
Map == INSTANCE BlockMap WITH map <- MapOf(tree), spare <- spare,
                              partial <- \E e \in TrueLeaves(tree) : Longest(e)
MapSpec == Map!Spec
=============================================================================
