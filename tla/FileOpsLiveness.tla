--------------------------- MODULE FileOpsLiveness --------------------------
(***************************************************************************)
(* What the calls of FileOps do in the end, on a device that fails calls   *)
(* for a while, or for ever.                                               *)
(***************************************************************************)
EXTENDS FileOps

VARIABLE reliable   \* whether the device fails no more calls

ReliableInit == Init /\ reliable \in BOOLEAN
ReliableNext ==
    \/ /\ WriteFile \/ Mkdir \/ Step \/ Return \/ (~reliable /\ Abort)
       /\ UNCHANGED reliable
    \/ reliable' = TRUE /\ UNCHANGED vars
ReliableSpec == ReliableInit /\ [][ReliableNext]_<<vars, reliable>>

-----------------------------------------------------------------------------

\* Every call returns, also from a disk on which earlier ones have failed.
CallsEnd == call # Idle ~> call = Idle

\* A write_file that has found or created its file, whose data fit in the root
\* node and in the free blocks, on a device that fails no more, gets to its Ok
\* with the file reading as the data.  (Nobody has to call again, so that the
\* call that gets there is the same.)
Fits == Len(call.data) <= MaxExtents /\ Len(call.data) <= Cardinality(Blocks \ taken.block)
WritesSucceed ==
    (reliable /\ call # Idle /\ At("data") /\ call.done = 0 /\ Fits)
        ~> (call # Idle /\ At("flush") /\ ReadFile(call.ino) = Reads(call.data))
=============================================================================
