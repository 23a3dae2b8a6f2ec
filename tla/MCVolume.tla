------------------------------ MODULE MCVolume ------------------------------
(* A disk of two groups, with inode 1 reserved, and a root directory whose   *)
(* only block is full.                                                       *)
EXTENDS Volume, TLC

CONSTANTS dot, dotdot, m, x, y

root == 2
rootBlock == 1

MCNames == {dot, dotdot, m}
MCNameWords == [name \in MCNames |-> 3]
MCParentPaths == {<<>>}
MCWrites == {<<x>>, <<x, y>>}

\* Inode 1, and one that no directory names, so that one inode is left.
MCReserved == [block |-> {}, inode |-> {1, 3}]

\* The entries "." and "..", and nothing.
RootBlock ==
    [data |-> {},
     entries |-> (0 :> [ino |-> root, rec |-> 3, name |-> dot])
                 @@ (3 :> [ino |-> root, rec |-> 3, name |-> dotdot])]
Empty == [data |-> {}, entries |-> <<>>]

Of(type, extents, links) ==
    [type |-> type, extents |-> extents, size |-> Len(extents), links |-> links,
     blocks |-> Len(extents)]

MCImages ==
    {[inodes |-> [i \in Numbers("inode") |->
                    IF i = root THEN Of("dir", <<rootBlock>>, 2) ELSE Of("unwritten", <<>>, 0)],
      content |-> [b \in Numbers("block") |-> IF b = rootBlock THEN RootBlock ELSE Empty],
      taken |-> [block |-> {rootBlock}, inode |-> {1, root, 3}]]}
=============================================================================
