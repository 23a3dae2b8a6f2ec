----------------------------- MODULE InodeTable ------------------------------
(***************************************************************************)
(* The inode table as bytes (src/src/inode.rs): where read_inode and       *)
(* write_inode find an inode, how they parse and serialise it for either   *)
(* size of inode, and how write_file, mkdir and add_dir_entry change an    *)
(* inode that they have read.  A unit is 128 bytes, and the tables of the  *)
(* groups are adjacent, as a flexible layout may place them.               *)
(***************************************************************************)
EXTENDS Naturals

CONSTANTS
    NumGroups,       \* groups.len()
    InodesPerGroup,  \* sb.inodes_per_group
    InodeSizes,      \* the sizes of inodes to start with, in units of 128 bytes
    Base,            \* 2^16
    WordBase,        \* 2^32
    MaxBlocks,       \* bound on the blocks of a written file (the code's is 4)
    MaxCalls         \* bound on the number of calls

ASSUME InodeTableAssumption ==
    /\ NumGroups \in Nat \ {0}
    /\ InodesPerGroup \in Nat \ {0}
    /\ InodeSizes \subseteq Nat \ {0}
    /\ Base \in Nat /\ Base > 2
    /\ WordBase \in Nat /\ WordBase > 1
    /\ MaxBlocks \in Nat /\ MaxBlocks < WordBase
    /\ MaxCalls \in Nat

VARIABLES
    units,       \* on disk: the tables of all groups
    inodeUnits,  \* on disk: sb.inode_size, in units of 128 bytes
    truth,       \* history: the inodes as the calls that succeeded left them
    calls        \* the number of calls so far

vars == <<units, inodeUnits, truth, calls>>

Inodes == 1..(NumGroups * InodesPerGroup)
MaxSize == WordBase * WordBase - 1

\* An inode as a user of the file system sees it; sizes are in blocks.
Whole(size, links, uid) ==
    [size |-> size, links |-> links, uid |-> uid, created |-> "known"]

-----------------------------------------------------------------------------
(* inode.rs.                                                               *)

Size(inode) == inode.size_lo + WordBase * inode.size_hi
FullUid(inode) == inode.uid + Base * inode.uid_hi

\* Mutant: the high half is left as it was.
SetSizeLow(inode, size) == [inode EXCEPT !.size_lo = size % WordBase]

\* set_size.
SetSize(inode, size) ==
    [inode EXCEPT !.size_lo = size % WordBase, !.size_hi = size \div WordBase]

\* The fields of the first 128 bytes, the second part of which is OS-specific,
\* and of the bytes after them: those that are parsed, and the rest, where
\* extended attributes are.
BaseFields == {"size_lo", "size_hi", "uid", "links", "blocks_lo", "blocks_hi", "uid_hi"}
Extra(created, attributes) ==
    [f \in BaseFields \cup {"created", "attributes"} |->
        CASE f = "created" -> created [] f = "attributes" -> attributes [] OTHER -> 0]

\* from_bytes: the OS-specific part is only parsed in a large inode.
FromBytes(buf) ==
    LET large == inodeUnits >= 2
    IN  [f \in BaseFields \cup {"created"} |->
            IF f = "created" THEN (IF large THEN buf[1].created ELSE "zeros")
            ELSE IF f \in {"blocks_hi", "uid_hi"} /\ ~large THEN 0
            ELSE buf[0][f]]

\* to_bytes, for inodes of as many units as given: a buffer of zeros, filled in.
Serialised(inode, size) ==
    [u \in 0..(size - 1) |->
        IF u = 0
        THEN [f \in BaseFields |->
                IF f \in {"blocks_hi", "uid_hi"} /\ size < 2 THEN 0 ELSE inode[f]]
        ELSE Extra(IF u = 1 THEN inode.created ELSE "zeros", "zeros")]

\* Mutant: INODE_DEFAULT_SIZE, whatever the superblock says.
ToBytesDefault(inode) == Serialised(inode, 2)

ToBytes(inode) == Serialised(inode, inodeUnits)

\* new_file, new_dir: nobody's, of no size.
NewInode(links) ==
    [f \in BaseFields \cup {"created"} |->
        IF f = "links" THEN links ELSE IF f = "created" THEN "known" ELSE 0]

-----------------------------------------------------------------------------
(* readwrite.rs.                                                           *)

\* Mutant: inode numbers taken to start at 0.
PlaceFromZero(ino) ==
    LET group == (ino - 1) \div InodesPerGroup
        index == ino % InodesPerGroup
    IN  (group * InodesPerGroup + index) * inodeUnits

\* The offset that read_inode and write_inode compute.
Place(ino) ==
    LET group == (ino - 1) \div InodesPerGroup
        index == (ino - 1) % InodesPerGroup
    IN  (group * InodesPerGroup + index) * inodeUnits

ReadInode(ino) == FromBytes([u \in 0..(inodeUnits - 1) |-> units[Place(ino) + u]])

WriteInode(ino, inode) ==
    LET buf == ToBytes(inode)
    IN  units' = [u \in DOMAIN units |->
                    IF u >= Place(ino) /\ u - Place(ino) \in DOMAIN buf
                    THEN buf[u - Place(ino)] ELSE units[u]]

SaturatingSucc(n) == IF n = Base - 1 THEN n ELSE n + 1

\* A clean image: any inodes, every number stored exactly, some with extended
\* attributes.
Stored(whole, u) ==
    IF u = 0
    THEN [f \in BaseFields |->
            CASE f = "size_lo" -> whole.size % WordBase
              [] f = "size_hi" -> whole.size \div WordBase
              [] f = "blocks_lo" -> whole.size % WordBase
              [] f = "blocks_hi" -> whole.size \div WordBase
              [] f = "uid" -> whole.uid % Base
              [] f = "uid_hi" -> whole.uid \div Base
              [] f = "links" -> whole.links]
    ELSE Extra(IF u = 1 THEN "known" ELSE "zeros", "set")

Init ==
    /\ truth \in [Inodes ->
            {Whole(size, 1, Base + 1) : size \in {WordBase - 1, MaxSize - 1}}]
    /\ inodeUnits \in InodeSizes
    /\ units = [p \in 0..(NumGroups * InodesPerGroup * inodeUnits - 1) |->
                    Stored(truth[p \div inodeUnits + 1], p % inodeUnits)]
    /\ calls = 0

Called(ino, whole) ==
    /\ calls < MaxCalls
    /\ calls' = calls + 1
    /\ UNCHANGED inodeUnits
    /\ truth' = [truth EXCEPT ![ino] = whole]

\* allocate_inode's number, and the inode of write_file or mkdir.
Create(ino, links) ==
    /\ WriteInode(ino, NewInode(links))
    /\ Called(ino, Whole(0, links, 0))

\* write_file, after its last block; blocks_lo is computed, blocks_hi kept.
SizeFile(ino, blocks) ==
    /\ WriteInode(ino, [SetSize(ReadInode(ino), blocks) EXCEPT !.blocks_lo = blocks])
    /\ Called(ino, [truth[ino] EXCEPT !.size = blocks])

\* add_dir_entry in a new block, for a directory: blocks_lo is kept.
SizeParent(ino) ==
    /\ truth[ino].size < MaxSize
    /\ WriteInode(ino, SetSize(ReadInode(ino), Size(ReadInode(ino)) + 1))
    /\ Called(ino, [truth[ino] EXCEPT !.size = @ + 1])

\* mkdir: the parent's link count.
CountLink(ino) ==
    /\ WriteInode(ino, [ReadInode(ino) EXCEPT !.links = SaturatingSucc(@)])
    /\ Called(ino, [truth[ino] EXCEPT !.links = SaturatingSucc(@)])

Next ==
    \E ino \in Inodes :
        \/ \E links \in 1..2 : Create(ino, links)
        \/ \E blocks \in 0..MaxBlocks : SizeFile(ino, blocks)
        \/ SizeParent(ino)
        \/ CountLink(ino)

Spec == Init /\ [][Next]_vars

-----------------------------------------------------------------------------

\* After any calls, every inode of either size reads as they left it: found at
\* its number, the size exact on either side of 2^32, and what a call did not
\* mean to change still there after its read and its write.
InodesReadBack ==
    \A ino \in Inodes :
        LET inode == ReadInode(ino)
        IN  /\ Size(inode) = truth[ino].size
            /\ inode.links = truth[ino].links
            /\ inode.uid = truth[ino].uid % Base
            /\ inodeUnits >= 2 =>
                FullUid(inode) = truth[ino].uid /\ inode.created = truth[ino].created

\* A write of one inode leaves every byte of the others alone, those that are
\* never parsed included.
NeighboursKept ==
    [][\E ino \in Inodes :
            /\ \A other \in Inodes \ {ino} : truth'[other] = truth[other]
            /\ \A p \in DOMAIN units :
                    p \div inodeUnits + 1 # ino => units'[p] = units[p]]_vars
=============================================================================
