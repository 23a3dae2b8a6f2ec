---------------------------- MODULE Descriptors -----------------------------
(***************************************************************************)
(* The counts of Allocator as they are stored: block group descriptors of  *)
(* 32 or 64 bytes in a table (src/src/block_group.rs), numbers split in a  *)
(* low and a high half, and a superblock of which only some fields are     *)
(* parsed (src/src/superblock.rs).  Each step is one of Allocator, and     *)
(* what it does to the stored forms; mkdir also counts directories.        *)
(***************************************************************************)
EXTENDS Allocator

CONSTANTS
    Formats,   \* the formats of the images to start from: whether INCOMPAT_64BIT
               \* is set, the superblock's desc_size, and one more than the
               \* greatest half of a descriptor's count, 2^16
    SuperBase  \* 2^32: the same for a place on the disk and for the superblock

\* 64 bytes with INCOMPAT_64BIT, else 32, which hold the free blocks and inodes
\* of a group in the low half alone.  The number of all inodes has 32 bits.
ASSUME FormatAssumption ==
    /\ SuperBase \in Nat /\ SuperBase > NumGroups
    /\ MaxTotal < SuperBase * SuperBase
    /\ \A f \in Formats :
        /\ f.is64 \in BOOLEAN
        /\ f.desc_size \in IF f.is64 THEN {64} ELSE {0, 32, 64}
        /\ f.base \in Nat
        /\ \A k \in Kinds : PerGroup(k) < IF f.is64 THEN f.base * f.base ELSE f.base
        /\ NumGroups * InodesPerGroup <= f.base * f.base

VARIABLES
    format,   \* on disk: the format of the image
    table,    \* on disk: the descriptor table, in units of 32 bytes
    super,    \* on disk: the superblock
    groups,   \* Ext4Fs.groups
    sb,       \* Ext4Fs.sb
    pending,  \* mkdir: the group of the parent and that of the new inode
    homes,    \* history: the number of directories whose inode is in each group
    exact,    \* history: no directory was linked without being counted, and no
              \* count was lost at a mount
    spilled   \* history: an inode was allocated in another group than wanted

bytes == <<table, super, groups, sb>>
dirHistory == <<homes, exact, spilled>>
allVars == <<vars, format, bytes, pending, dirHistory>>

\* What a descriptor holds: its counts, and the place of the inode table, for
\* all that never changes.
Fields == Kinds \cup {"dirs", "table"}
Location(g) == IF format.is64 THEN SuperBase + g ELSE g

-----------------------------------------------------------------------------
(* block_group.rs.                                                         *)

\* The halves of a field: of 16 bits for a count, of 32 for a place.
Width(f) == IF f = "table" THEN SuperBase ELSE format.base
Lo(f, n) == n % Width(f)
Hi(f, n) == (n \div Width(f)) % Width(f)
Zeros == [f \in Fields |-> 0]

\* free_blocks_count, free_inodes_count, used_dirs_count, inode_table.
Joined(desc, f) == desc.lo[f] + Width(f) * desc.hi[f]

\* Mutant: the high half is left as it was.
SetCountLow(desc, f, n) == [desc EXCEPT !.lo[f] = Lo(f, n)]

\* set_free_blocks_count, set_free_inodes_count, and used_dirs in mkdir: both
\* halves, whatever the size of the stored descriptor.
SetCount(desc, f, n) == [desc EXCEPT !.lo[f] = Lo(f, n), !.hi[f] = Hi(f, n)]

\* group_desc_size, in units of 32 bytes.
Stride(s) == IF s.is64 /\ s.desc_size >= 64 THEN s.desc_size \div 32 ELSE 1

\* from_bytes.
FromBytes(units, g, stride) ==
    [lo |-> units[g * stride],
     hi |-> IF stride >= 2 THEN units[g * stride + 1] ELSE Zeros]

\* to_bytes, and the write to its place: 32 bytes leave out the high halves.
ToBytes(units, g, stride, desc) ==
    [u \in DOMAIN units |->
        IF u = g * stride THEN desc.lo
        ELSE IF stride >= 2 /\ u = g * stride + 1 THEN desc.hi ELSE units[u]]

-----------------------------------------------------------------------------
(* superblock.rs.                                                          *)

\* from_bytes: "rest" stands for the other fields that it parses.
SuperFromBytes(s) ==
    [blocks_lo |-> s.blocks_lo, blocks_hi |-> s.blocks_hi, inodes |-> s.inodes,
     is64 |-> s.is64, desc_size |-> s.desc_size, rest |-> s.rest]

\* to_bytes: the fields that from_bytes leaves out are zeros.
SuperToBytes(s) ==
    [blocks_lo |-> s.blocks_lo, blocks_hi |-> s.blocks_hi, inodes |-> s.inodes,
     is64 |-> s.is64, desc_size |-> s.desc_size, rest |-> s.rest, unparsed |-> "zeros"]

\* free_blocks and free_inodes_count.
SuperCount(s, k) == IF k = "block" THEN s.blocks_lo + SuperBase * s.blocks_hi ELSE s.inodes

\* One fewer, as allocate_block and allocate_inode do it.
SuperPred(s, k) ==
    LET n == SaturatingPred(SuperCount(s, k))
    IN  IF k = "block"
        THEN [s EXCEPT !.blocks_lo = n % SuperBase, !.blocks_hi = n \div SuperBase]
        ELSE [s EXCEPT !.inodes = n]

-----------------------------------------------------------------------------

\* mount: parse_block_group_table.
Mounted == [g \in Groups |-> FromBytes(table, g, Stride(super))]

\* A clean image: every number is stored exactly.  Inode 1 is reserved, and no
\* directory.
DescriptorsInit ==
    /\ Init
    /\ format \in Formats
    /\ homes \in [Groups -> 0..InodesPerGroup]
    /\ 0 \in bitmap["inode"][0]
    /\ \A g \in Groups : homes[g] <= Cardinality(bitmap["inode"][g] \ (IF g = 0 THEN {0} ELSE {}))
    /\ LET number(g, f) ==
                IF f = "table" THEN Location(g)
                ELSE IF f = "dirs" THEN homes[g] ELSE diskGroup[g][f]
       IN  table = [u \in 0..((IF format.is64 THEN 2 ELSE 1) * NumGroups - 1) |->
                        [f \in Fields |->
                            IF format.is64 /\ u % 2 = 1 THEN Hi(f, number(u \div 2, f))
                            ELSE Lo(f, number(IF format.is64 THEN u \div 2 ELSE u, f))]]
    /\ super = [blocks_lo |-> diskSuper["block"] % SuperBase,
                blocks_hi |-> diskSuper["block"] \div SuperBase,
                inodes |-> diskSuper["inode"],
                is64 |-> format.is64, desc_size |-> format.desc_size, rest |-> "set", unparsed |-> "set"]
    /\ groups = Mounted
    /\ sb = SuperFromBytes(super)
    /\ pending = <<>>
    /\ exact = TRUE
    /\ spilled = FALSE

\* The group in which the step allocates.
Hit(k, g) == bitmap'[k][g] # bitmap[k][g]

\* allocate_block, allocate_inode.
AllocateBytes(k, preferred) ==
    /\ Allocate(k, preferred)
    /\ groups' = [g \in Groups |->
                    IF Hit(k, g)
                    THEN SetCount(groups[g], k, SaturatingPred(Joined(groups[g], k)))
                    ELSE groups[g]]
    /\ sb' = SuperPred(sb, k)
    /\ UNCHANGED <<table, super>>

\* write_file's inode, and anyone's blocks.
AllocateOther(k, preferred) ==
    /\ k = "inode" => pending = <<>>
    /\ AllocateBytes(k, preferred)
    /\ UNCHANGED <<pending, dirHistory>>

\* A call fails for lack of space or by an error: a mkdir among them may have
\* linked its directory already.
CutShort ==
    \/ UNCHANGED <<homes, exact>>
    \/ /\ pending # <<>>
       /\ homes' = [homes EXCEPT ![pending.home] = @ + 1]
       /\ exact' = FALSE

AllocateFails ==
    /\ \E k \in Kinds : AllocateNone(k) \/ \E preferred \in Groups : AllocateIoError(k, preferred)
    /\ CutShort
    /\ pending' = <<>>
    /\ UNCHANGED <<bytes, spilled>>

\* mkdir, in a directory of group p: its inode, ...
BeginMkdir(p) ==
    /\ pending = <<>>
    /\ homes[p] > 0
    /\ AllocateBytes("inode", p)
    /\ \E g \in Groups :
        /\ Hit("inode", g)
        /\ pending' = [parent |-> p, home |-> g]
        /\ spilled' = (spilled \/ g # p)
    /\ UNCHANGED <<homes, exact>>

\* Mutant: counted twice, as by a retry.
EndMkdirTwice ==
    /\ pending # <<>>
    /\ groups' = [groups EXCEPT ![pending.parent] = SetCount(@, "dirs", Joined(@, "dirs") + 2)]
    /\ homes' = [homes EXCEPT ![pending.home] = @ + 1]
    /\ pending' = <<>>
    /\ UNCHANGED <<vars, table, super, sb, exact, spilled>>

\* ... and, after the last write, used_dirs of the group of the parent.
EndMkdir ==
    /\ pending # <<>>
    /\ groups' = [groups EXCEPT ![pending.parent] = SetCount(@, "dirs", Joined(@, "dirs") + 1)]
    /\ homes' = [homes EXCEPT ![pending.home] = @ + 1]
    /\ pending' = <<>>
    /\ UNCHANGED <<vars, table, super, sb, exact, spilled>>

\* sync_metadata.
SyncSuperBytes ==
    /\ pending = <<>>
    /\ SyncSuper
    /\ super' = SuperToBytes(sb)
    /\ UNCHANGED <<table, groups, sb, pending, dirHistory>>

SyncGroupBytes ==
    /\ SyncGroup
    /\ table' = ToBytes(table, sync - 1, Stride(sb), groups[sync - 1])
    /\ UNCHANGED <<super, groups, sb, pending, dirHistory>>

SyncEndBytes == SyncEnd /\ UNCHANGED <<bytes, pending, dirHistory>>

\* A crash or a drop of the handle, and mount: directories counted since the
\* last sync_metadata are forgotten, and of a count that needs 17 bits, for the
\* inodes of other groups that mkdir counted in the parent's, 32 bytes held 16.
RemountBytes ==
    /\ Remount
    /\ groups' = Mounted
    /\ sb' = SuperFromBytes(super)
    /\ \/ UNCHANGED homes
       \/ pending # <<>> /\ homes' = [homes EXCEPT ![pending.home] = @ + 1]
    /\ exact' = (exact /\ homes' = homes /\ groups' = groups)
    /\ pending' = <<>>
    /\ UNCHANGED <<table, super, spilled>>

DescriptorsNext ==
    /\ UNCHANGED format
    /\ \/ \E k \in Kinds, preferred \in Groups : AllocateOther(k, preferred)
       \/ AllocateFails
       \/ \E p \in Groups : BeginMkdir(p)
       \/ EndMkdir
       \/ SyncSuperBytes \/ SyncGroupBytes \/ SyncEndBytes
       \/ RemountBytes

DescriptorsSpec == DescriptorsInit /\ [][DescriptorsNext]_allVars

-----------------------------------------------------------------------------

\* The stored forms stand for the counts of Allocator, in the handle and, at
\* every point of a sync, on disk: no half, place or size of a descriptor goes
\* wrong, and what holds of Allocator's counts holds of the stored ones.  What
\* never changes is not overwritten either, least of all by the descriptor of
\* another group: a mount finds every inode table where it is.
BytesAgree ==
    /\ \A g \in Groups, f \in Kinds \cup {"table"} :
        /\ Joined(groups[g], f) = IF f = "table" THEN Location(g) ELSE memGroup[g][f]
        /\ Joined(Mounted[g], f) = IF f = "table" THEN Location(g) ELSE diskGroup[g][f]
    /\ \A k \in Kinds :
        /\ SuperCount(sb, k) = memSuper[k]
        /\ SuperCount(super, k) = diskSuper[k]

\* The directories counted in all groups are never more than there are, and as
\* many in the handle when none was linked uncounted and no mount since found a
\* count lower than it was.  Each group's count is its own as long as no inode
\* had to be allocated in another group.
UsedDirs(g) == Joined(groups[g], "dirs")
DirsCounted ==
    /\ SumOver([g \in Groups |-> UsedDirs(g)]) <= SumOver(homes)
    /\ \A g \in Groups : Joined(Mounted[g], "dirs") <= UsedDirs(g)
    /\ exact => SumOver([g \in Groups |-> UsedDirs(g)]) = SumOver(homes)
    /\ exact /\ ~spilled => \A g \in Groups : UsedDirs(g) = homes[g]
=============================================================================
