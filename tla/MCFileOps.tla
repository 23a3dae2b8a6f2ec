----------------------------- MODULE MCFileOps ------------------------------
(* Instances of FileOps for TLC: a root directory whose "." and ".." fill    *)
(* its only block, or that has a second block with a file and a free slot,   *)
(* or with the two names of a file and no room.                              *)
EXTENDS FileOpsStore

CONSTANTS dot, dotdot, m, n, x, y

\* The blocks of the first directories and file, and their inodes.
rb == 1
eb == 2
fb == 3
root == 2
f == 11

\* Block 0 and inode 1 are never free.
MCReserved == [block |-> {0}, inode |-> {1}]

MCNames == {dot, dotdot, m, n}
MCNameWords == [name \in MCNames |-> 3]
MCParentPaths == {<<>>, <<m>>}
MCWrites == {<<>>, <<x, y>>, <<x, y, x>>}

Of(extents, type, links) ==
    [type |-> type, extents |-> extents, size |-> Len(extents), links |-> links,
     blocks |-> Len(extents)]

RootBlock == Lists(Dots(root, root))
SlotBlock == Lists([o \in {0, 3} |-> IF o = 0 THEN Entry(f, 3, m) ELSE Entry(Deleted, 3, n)])

Tight ==
    [inodes |-> [i \in Inodes |-> IF i = root THEN Of(<<rb>>, "dir", 2) ELSE Unwritten],
     content |-> [b \in Blocks |-> IF b = rb THEN RootBlock ELSE Junk],
     taken |-> [block |-> {0, rb}, inode |-> {1, root}]]

WithFile ==
    [inodes |-> [i \in Inodes |-> IF i = root THEN Of(<<rb, eb>>, "dir", 2)
                                  ELSE IF i = f THEN Of(<<fb>>, "file", 1) ELSE Unwritten],
     content |-> [b \in Blocks |-> IF b = rb THEN RootBlock ELSE IF b = eb THEN SlotBlock
                                   ELSE IF b = fb THEN Holds(x) ELSE Junk],
     taken |-> [block |-> {0, rb, eb, fb}, inode |-> {1, root, f}]]

Full ==
    [WithFile EXCEPT
        !.inodes[f] = Of(<<fb>>, "file", 2),
        !.content[eb] = Lists([o \in {0, 3} |-> Entry(f, 3, IF o = 0 THEN m ELSE n)])]

MCImages == {Tight, WithFile, Full}

\* First fit, which is what allocate_one makes of a bitmap.
FirstFit(free) == IF free = {} THEN {} ELSE {Min(free)}
=============================================================================
