--------------------------- MODULE MCDescriptors ----------------------------
(* The instance of Allocator and Descriptors that TLC checks: two groups, so *)
(* that the loop over groups skips and wraps, and descriptors of 64 bytes,   *)
(* where every count crosses from one half to the other, or of 32 bytes,     *)
(* which hold every free count but not every count of directories.           *)
EXTENDS Descriptors

MCFormats ==
    {[is64 |-> TRUE, desc_size |-> 64, base |-> 2],
     [is64 |-> FALSE, desc_size |-> 0, base |-> 3]}
=============================================================================
