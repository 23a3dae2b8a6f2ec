----------------------------- MODULE Allocator ------------------------------
(***************************************************************************)
(* Block and inode allocation of Ext4Fs (src/src/readwrite.rs): the        *)
(* bitmaps on disk, the free counts cached in the handle (groups, sb), the *)
(* copies of those counts on disk, which only sync_metadata refreshes, and *)
(* mount, which reads them back.                                           *)
(*                                                                         *)
(* One step is one device write: between two of them, power may be lost,   *)
(* and any of them may return an error, having reached the disk or not.    *)
(* Writes reach the disk in the order they are issued.                     *)
(***************************************************************************)
EXTENDS Bitmap

CONSTANTS
    NumGroups,       \* groups.len()
    BlocksPerGroup,  \* sb.blocks_per_group
    InodesPerGroup,  \* sb.inodes_per_group
    FirstDataBlock   \* sb.first_data_block

ASSUME GeometryAssumption ==
    /\ NumGroups \in Nat \ {0}
    /\ BlocksPerGroup \in Nat \ {0}
    /\ InodesPerGroup \in Nat \ {0}
    /\ FirstDataBlock \in Nat

VARIABLES
    bitmap,     \* on disk: the bitmap of each kind and group
    diskGroup,  \* on disk: the free counts of each group descriptor
    diskSuper,  \* on disk: the free counts of the superblock
    memGroup,   \* Ext4Fs.groups: the free counts of each descriptor
    memSuper,   \* Ext4Fs.sb: the free counts of the superblock
    sync,       \* sync_metadata: 0 when not running, else its next write
    reply       \* what the last call returned

counts == <<memGroup, memSuper>>
disk == <<bitmap, diskGroup, diskSuper>>
vars == <<bitmap, diskGroup, diskSuper, memGroup, memSuper, sync, reply>>

Kinds == {"block", "inode"}
Groups == 0..(NumGroups - 1)
PerGroup(k) == IF k = "block" THEN BlocksPerGroup ELSE InodesPerGroup
Bits(k) == 0..(PerGroup(k) - 1)

\* abs_block (0-based after first_data_block) and ino (1-based).
Number(k, g, bit) ==
    g * PerGroup(k) + (IF k = "block" THEN FirstDataBlock ELSE 1) + bit

Numbers(k) == {Number(k, g, b) : g \in Groups, b \in Bits(k)}

\* No kind has more numbers than this.
MaxTotal == NumGroups * BlocksPerGroup + NumGroups * InodesPerGroup

\* The sum of a function on Groups.
SumOver(count) ==
    LET sum[n \in 0..NumGroups] == IF n = 0 THEN 0 ELSE sum[n - 1] + count[n - 1]
    IN  sum[NumGroups]

Silent == [outcome |-> "none"]
Granted(k, n) == [outcome |-> "ok", kind |-> k, number |-> n]
Exhausted(k) == [outcome |-> "no_free", kind |-> k]
Failed(k) == [outcome |-> "io_error", kind |-> k]
Replies ==
    {Silent} \cup {Exhausted(k) : k \in Kinds} \cup {Failed(k) : k \in Kinds}
    \cup UNION {{Granted(k, n) : n \in Numbers(k)} : k \in Kinds}

-----------------------------------------------------------------------------

\* A clean image (the only kind the README allows to mount), mounted: any
\* bitmaps, every count exact.  The padding bits of a short last group are
\* bits that are already set.
Init ==
    /\ bitmap \in [Kinds -> [Groups -> SUBSET UNION {Bits(k) : k \in Kinds}]]
    /\ \A k \in Kinds, g \in Groups : bitmap[k][g] \subseteq Bits(k)
    /\ diskGroup = [g \in Groups |-> [k \in Kinds |-> CountFree(bitmap[k][g], PerGroup(k))]]
    /\ diskSuper \in [Kinds -> 0..MaxTotal]
    /\ \A k \in Kinds : diskSuper[k] = SumOver([g \in Groups |-> diskGroup[g][k]])
    /\ memGroup = diskGroup
    /\ memSuper = diskSuper
    /\ sync = 0
    /\ reply = Silent

-----------------------------------------------------------------------------

\* The loop skips a group whose cached count is 0, and leaves a group whose
\* bitmap turns out to be full.
Usable(k, g) ==
    /\ memGroup[g][k] # 0
    /\ FindFirstFree(bitmap[k][g], 0, PerGroup(k)) # NoBit

\* Mutant: the loop always starts at group 0.
VisitFromZero(preferred, g) == g

\* The iteration of the loop that visits group g.
Visit(preferred, g) ==
    IF g >= preferred THEN g - preferred ELSE g - preferred + NumGroups

\* The group that a call with this preference allocates in.
Chosen(k, preferred, g) ==
    /\ Usable(k, g)
    /\ \A h \in Groups : Usable(k, h) => Visit(preferred, g) <= Visit(preferred, h)

\* Mutant: the bitmap is not written back.
MarkInMemoryOnly(k, g, bit) == bitmap

Mark(k, g, bit) == [bitmap EXCEPT ![k][g] = SetBit(@, PerGroup(k), bit)]

\* Mutant: what is allocated is counted twice.
SaturatingPredTwice(n) == IF n <= 1 THEN 0 ELSE n - 2

SaturatingPred(n) == IF n = 0 THEN 0 ELSE n - 1

\* allocate_block / allocate_inode, returning Ok.
Allocate(k, preferred) ==
    /\ sync = 0
    /\ \E g \in Groups :
        LET bit == FindFirstFree(bitmap[k][g], 0, PerGroup(k))
        IN  /\ Chosen(k, preferred, g)
            /\ bitmap' = Mark(k, g, bit)
            /\ memGroup' = [memGroup EXCEPT ![g][k] = SaturatingPred(@)]
            /\ reply' = Granted(k, Number(k, g, bit))
    /\ memSuper' = [memSuper EXCEPT ![k] = SaturatingPred(@)]
    /\ UNCHANGED <<diskGroup, diskSuper, sync>>

\* Mutant: the loop runs over 0..num_groups - 1.
AllocateNoneShortLoop(k) ==
    /\ sync = 0
    /\ \A g \in Groups \ {NumGroups - 1} : ~Usable(k, g)
    /\ reply' = Exhausted(k)
    /\ UNCHANGED <<disk, counts, sync>>

\* The same, returning NoFreeBlocks / NoFreeInodes.
AllocateNone(k) ==
    /\ sync = 0
    /\ \A g \in Groups : ~Usable(k, g)
    /\ reply' = Exhausted(k)
    /\ UNCHANGED <<disk, counts, sync>>

\* Mutant: the counts go down before the bitmap is written.
AllocateIoErrorCounted(k, preferred) ==
    /\ sync = 0
    /\ \E g \in Groups :
        /\ Chosen(k, preferred, g)
        /\ memGroup' = [memGroup EXCEPT ![g][k] = SaturatingPred(@)]
    /\ reply' = Failed(k)
    /\ UNCHANGED <<bitmap, diskGroup, diskSuper, memSuper, sync>>

\* The same, returning IoError: a bitmap could not be read, or its write
\* failed, with the bit on disk or not.  No count is changed.
AllocateIoError(k, preferred) ==
    /\ sync = 0
    /\ \/ /\ \E g \in Groups : memGroup[g][k] # 0
          /\ UNCHANGED bitmap
       \/ \E g \in Groups :
            /\ Chosen(k, preferred, g)
            /\ bitmap' = Mark(k, g, FindFirstFree(bitmap[k][g], 0, PerGroup(k)))
    /\ reply' = Failed(k)
    /\ UNCHANGED <<diskGroup, diskSuper, counts, sync>>

\* Mutant: the superblock is left out.
SyncSuperSkipped ==
    /\ sync = 0
    /\ sync' = 1
    /\ reply' = Silent
    /\ UNCHANGED <<disk, counts>>

\* sync_metadata: the superblock first ...
SyncSuper ==
    /\ sync = 0
    /\ diskSuper' = memSuper
    /\ sync' = 1
    /\ reply' = Silent
    /\ UNCHANGED <<bitmap, diskGroup, counts>>

\* Mutant: the loop runs over 0..=groups.len().
SyncGroupPastEnd ==
    /\ sync \in 1..(NumGroups + 1)
    /\ diskGroup' = [g \in Groups |-> IF g = sync - 1 THEN memGroup[g] ELSE diskGroup[g]]
    /\ sync' = sync + 1
    /\ UNCHANGED <<bitmap, diskSuper, counts, reply>>

\* ... then the descriptors, one write each, in order ...
SyncGroup ==
    /\ sync \in 1..NumGroups
    /\ diskGroup' = [diskGroup EXCEPT ![sync - 1] = memGroup[sync - 1]]
    /\ sync' = sync + 1
    /\ UNCHANGED <<bitmap, diskSuper, counts, reply>>

\* ... and the call ends: after the flush, or at a write that failed.
SyncEnd ==
    /\ sync # 0
    /\ sync' = 0
    /\ UNCHANGED <<disk, counts, reply>>

\* Power is lost, or the handle dropped, at any point; then mount.
Remount ==
    /\ memGroup' = diskGroup
    /\ memSuper' = diskSuper
    /\ sync' = 0
    /\ reply' = Silent
    /\ UNCHANGED <<disk>>

Next ==
    \/ \E k \in Kinds, preferred \in Groups :
        Allocate(k, preferred) \/ AllocateIoError(k, preferred)
    \/ \E k \in Kinds : AllocateNone(k)
    \/ SyncSuper \/ SyncGroup \/ SyncEnd
    \/ Remount

Spec == Init /\ [][Next]_vars

-----------------------------------------------------------------------------

\* The declared type of every variable.
TypeOK ==
    /\ bitmap \in [Kinds -> [Groups -> SUBSET Nat]]
    /\ \A k \in Kinds, g \in Groups : bitmap[k][g] \subseteq Bits(k)
    /\ diskGroup \in [Groups -> [Kinds -> Nat]]
    /\ diskSuper \in [Kinds -> Nat]
    /\ memGroup \in [Groups -> [Kinds -> Nat]]
    /\ memSuper \in [Kinds -> Nat]
    /\ sync \in 0..(NumGroups + 1)
    /\ reply \in Replies

\* A free count may be stale but never too low: whatever was lost between a
\* bitmap write and sync_metadata, a cached count is at least the number of
\* clear bits, and the copy on disk is at least the cached one.  A count that
\* were too low would hide free space behind the `== 0' test of the loop.
CountsCoverFree ==
    \A k \in Kinds, g \in Groups :
        /\ CountFree(bitmap[k][g], PerGroup(k)) <= memGroup[g][k]
        /\ memGroup[g][k] <= diskGroup[g][k]

\* The superblock's count lies between what is free and what the groups add
\* up to, in the handle and on disk, at every point of a sync that may be cut
\* short: sync_metadata writes the superblock before the descriptors.
SuperBetween ==
    \A k \in Kinds :
        LET free == SumOver([g \in Groups |-> CountFree(bitmap[k][g], PerGroup(k))])
        IN  /\ free <= memSuper[k]
            /\ memSuper[k] <= SumOver([g \in Groups |-> memGroup[g][k]])
            /\ diskSuper[k] <= SumOver([g \in Groups |-> diskGroup[g][k]])

\* NoFreeBlocks / NoFreeInodes is only returned when every bit of every group
\* is set, however stale the counts that made the loop skip groups.
ExhaustedMeansFull ==
    \A k \in Kinds : reply = Exhausted(k) =>
        \A g \in Groups : Bits(k) \subseteq bitmap[k][g]

\* allocate_block "Prefers the given preferred_group if it has free blocks":
\* a clear bit there, whatever the counts say, means the number is from there.
PrefersGroup ==
    [][\A k \in Kinds, p \in Groups :
        Allocate(k, p) /\ Bits(k) \ bitmap[k][p] # {} =>
            \E b \in Bits(k) \ bitmap[k][p] : reply' = Granted(k, Number(k, p, b))]_vars

\* The numbers whose bit is set on disk.
Taken == [k \in Kinds |->
    {n \in Numbers(k) : \E g \in Groups, b \in Bits(k) :
                            n = Number(k, g, b) /\ IsSet(bitmap[k][g], b)}]

\* The allocator implements the abstract pool: a number is granted at most
\* once for as long as the disk lives, and only an empty pool is exhausted.
Pool == INSTANCE ResourcePool WITH taken <- Taken
PoolSpec == Pool!Spec
=============================================================================
