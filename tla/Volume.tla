------------------------------- MODULE Volume -------------------------------
(***************************************************************************)
(* The whole of Ext4Fs on one disk (src/src/readwrite.rs): write_file and  *)
(* mkdir of FileOps, taking their inodes and blocks from Allocator, whose  *)
(* free counts may be stale, and sync_metadata between calls.              *)
(*                                                                         *)
(* FileOps leaves open which free number an allocation picks, and fails    *)
(* for want of space only on a full disk.  Here both are Allocator's       *)
(* doing, and that they agree is what FilesSpec says.                      *)
(***************************************************************************)
EXTENDS Allocator, Sequences

CONSTANTS Names, NameWords, BlockWords, Root, Dot, DotDot, Writes, ParentPaths,
          MaxExtents, Reserved, Images   \* as in FileOps

VARIABLES
    inodes, content, call, acked, torn, clean,   \* as in FileOps
    reliable,   \* whether the device fails no more calls
    failing     \* a write of the call has reached the disk and failed

\* allocate_block and allocate_inode may pick any number that is free.
AnyOf(free) == free

Files ==
    INSTANCE FileOpsLiveness WITH
        Blocks <- Numbers("block"),
        Inodes <- Numbers("inode"),
        taken <- Taken,
        Candidates <- AnyOf

\* The assumptions of FileOps, of this disk.
ASSUME VolumeAssumption ==
    /\ Files!DotsAssumption /\ Files!CandidatesAssumption /\ Files!InodesAssumption
    /\ Files!MaxExtentsAssumption /\ Files!ReservedAssumption /\ Files!ImagesAssumption
    /\ Files!PathsAssumption /\ Files!WritesAssumption /\ Files!DirAssumption

files == <<inodes, content, call, acked, torn, clean>>
volume == <<vars, files, reliable, failing>>

-----------------------------------------------------------------------------
(* allocate_block and allocate_inode, in a call.                           *)

\* The call is at an allocation.
Needs(k) ==
    IF k = "inode" THEN Files!At("allocate_inode")
    ELSE \/ Files!At("allocate_dots")
         \/ Files!At("add") /\ Files!Roomy = {}
         \/ Files!At("data") /\ call.done < Len(call.data)

\* The group of an inode; the parent's, except for the data of a file.
GroupOf(ino) == (ino - 1) \div InodesPerGroup
Preferred == GroupOf(IF Files!At("data") THEN call.ino ELSE call.parent)

\* How the call goes on with the number.
With(k, n) ==
    IF k = "inode"
    THEN [call EXCEPT !.ino = n,
                      !.pc = IF call.op = "mkdir" THEN "allocate_dots" ELSE "new_file"]
    ELSE [call EXCEPT !.block = n,
                      !.pc = IF @ = "allocate_dots" THEN "write_dots"
                             ELSE IF @ = "add" THEN "write_entry" ELSE "write_data"]

GetNumber(k) ==
    /\ Needs(k) /\ ~failing
    /\ \E n \in Numbers(k) :
        /\ Allocate(k, Preferred)
        /\ reply' = Granted(k, n)
        /\ call' = With(k, n)
    /\ UNCHANGED <<inodes, content, acked, torn, clean, reliable, failing>>

GetNothing(k) ==
    /\ Needs(k) /\ ~failing
    /\ AllocateNone(k)
    /\ Files!Fail
    /\ UNCHANGED <<reliable, failing>>

\* The bitmap is written, but its write fails, and no count goes down; the call
\* is cut short next.
GetLost(k) ==
    /\ Needs(k) /\ ~failing /\ ~reliable
    /\ AllocateIoError(k, Preferred)
    /\ \E n \in Numbers(k) \ Taken[k] :
        /\ Taken'[k] = Taken[k] \cup {n}
        /\ call' = With(k, n)
    /\ failing' = TRUE
    /\ UNCHANGED <<inodes, content, acked, torn, clean, reliable>>

-----------------------------------------------------------------------------
(* The other steps.                                                        *)

StartCall ==
    /\ sync = 0
    /\ UNCHANGED <<vars, reliable, failing>>
    /\ Files!WriteFile \/ Files!Mkdir

\* A write of the call that is no allocation, or its flush.
OtherWrite ==
    /\ ~failing
    /\ UNCHANGED <<vars, reliable, failing>>
    /\ \/ Files!WriteNewFile
       \/ Files!WriteDots \/ Files!WriteNewDir \/ Files!SizeNewDir
       \/ Files!AddInPlace \/ Files!WriteEntry \/ Files!AppendEntry \/ Files!SizeParent
       \/ Files!CountLink
       \/ Files!WriteData \/ Files!AppendData \/ Files!SizeFile
       \/ Files!Return

\* The device fails the call; the handle and its counts live on.
DeviceError ==
    /\ ~reliable
    /\ UNCHANGED <<vars, reliable>>
    /\ Files!Abort
    /\ failing' = FALSE

\* Power is lost, or the handle dropped between two calls; and mount.
PowerLoss ==
    /\ Remount
    /\ \/ call = Files!Idle /\ UNCHANGED files
       \/ ~reliable /\ Files!Abort
    /\ failing' = FALSE
    /\ UNCHANGED reliable

SyncMetadata ==
    /\ call = Files!Idle
    /\ SyncSuper \/ SyncGroup \/ SyncEnd
    /\ UNCHANGED <<files, reliable, failing>>

\* From now on the device fails no call.
Repaired ==
    /\ ~failing
    /\ reliable' = TRUE
    /\ UNCHANGED <<vars, files, failing>>

-----------------------------------------------------------------------------

VolumeInit ==
    /\ Init
    /\ Files!ReliableInit
    /\ failing = FALSE

\* What goes on by itself once a call is made.
Work ==
    \/ \E k \in Kinds : GetNumber(k) \/ GetNothing(k)
    \/ OtherWrite
    \/ failing /\ DeviceError

VolumeNext ==
    \/ Work
    \/ \E k \in Kinds : GetLost(k)
    \/ StartCall
    \/ DeviceError \/ PowerLoss \/ SyncMetadata \/ Repaired

\* The code runs in the thread of its caller and waits for nothing but the
\* device: once called, it goes on.  Calls are made and fail at will.
VolumeSpec == VolumeInit /\ [][VolumeNext]_volume /\ WF_volume(Work)

-----------------------------------------------------------------------------

\* The calls with Allocator under them are FileOps's: they get free numbers of
\* this disk, and fail for want of space, on a device that does not fail, only
\* when every bit is set, whatever crashes and errors have done to the counts.
FilesSpec == Files!ReliableSpec

\* FileOps's, in particular that counts do not hide the blocks that a write_file
\* needs, be they stale after a crash, after an error or before a sync.
CallsEnd == Files!CallsEnd
WritesSucceed == Files!WritesSucceed
=============================================================================
