----------------------------- MODULE BitmapOps ------------------------------
(***************************************************************************)
(* Callers of BitmapAllocator (src/src/bitmap.rs) that share one bitmap:   *)
(* they take single bits and runs, and give back ranges of what they hold. *)
(***************************************************************************)
EXTENDS Bitmap

CONSTANTS
    Callers,     \* the holders of bits
    Total,       \* the `total' argument: the valid bits
    BufferBits   \* 8 * bitmap.len()

ASSUME SizeAssumption ==
    /\ Total \in Nat \ {0}
    /\ BufferBits \in Nat
    /\ Total <= BufferBits

VARIABLES
    bitmap,   \* the buffer
    reserved, \* history: the bits that were set at the start
    owned,    \* history: the bits each caller was given and has not freed
    ret       \* the last search: its arguments, the bitmap it saw, its answer

vars == <<bitmap, reserved, owned, ret>>

Valid == 0..(Total - 1)
Starts == 0..Total
Silent == [op |-> "none"]
Answer(op, start, count, found) ==
    [op |-> op, start |-> start, count |-> count, before |-> bitmap, found |-> found]

Init ==
    /\ bitmap \in SUBSET Valid
    /\ reserved = bitmap
    /\ owned = [c \in Callers |-> {}]
    /\ ret = Silent

\* Mutant: the bit is found but not set.
AllocateOneUnset(c, start) ==
    LET found == FindFirstFree(bitmap, start, Total)
    IN  /\ found # NoBit
        /\ ret' = Answer("one", start, 1, found)
        /\ owned' = [owned EXCEPT ![c] = @ \cup {found}]
        /\ UNCHANGED <<bitmap, reserved>>

\* allocate_one.
AllocateOne(c, start) ==
    LET found == FindFirstFree(bitmap, start, Total)
    IN  /\ ret' = Answer("one", start, 1, found)
        /\ \/ found = NoBit /\ UNCHANGED <<bitmap, owned>>
           \/ /\ found # NoBit
              /\ bitmap' = SetBit(bitmap, BufferBits, found)
              /\ owned' = [owned EXCEPT ![c] = @ \cup {found}]
        /\ UNCHANGED reserved

\* allocate_contiguous.
AllocateContiguous(c, start, count) ==
    LET found == FindContiguousFree(bitmap, start, Total, count)
    IN  /\ ret' = Answer("run", start, count, found)
        /\ \/ found = NoBit /\ UNCHANGED <<bitmap, owned>>
           \/ /\ found # NoBit
              /\ bitmap' = SetRange(bitmap, BufferBits, found, count)
              /\ owned' = [owned EXCEPT ![c] = @ \cup RunBits(found, count)]
        /\ UNCHANGED reserved

\* free_range, of bits that the caller holds.
Release(c, first, count) ==
    /\ RunBits(first, count) \subseteq owned[c]
    /\ bitmap' = FreeRange(bitmap, first, count)
    /\ owned' = [owned EXCEPT ![c] = @ \ RunBits(first, count)]
    /\ ret' = Silent
    /\ UNCHANGED reserved

Next ==
    \E c \in Callers :
        \/ \E start \in Starts : AllocateOne(c, start)
        \/ \E start \in Starts, count \in 0..Total : AllocateContiguous(c, start, count)
        \/ \E first \in Valid, count \in 1..Total : Release(c, first, count)

Spec == Init /\ [][Next]_vars

-----------------------------------------------------------------------------

\* The set bits are exactly those reserved at the start and those that callers
\* hold, and no bit is held twice: no search hands out a bit in use, and a
\* release gives back what was taken and nothing of a neighbour.
OwnershipExact ==
    /\ bitmap = reserved \cup UNION {owned[c] : c \in Callers}
    /\ \A c \in Callers : owned[c] \cap reserved = {}
    /\ \A c, d \in Callers : c # d => owned[c] \cap owned[d] = {}

\* The first bit of the cyclic order start, start+1, .., total-1, 0, .., start-1
\* that is clear is the one returned, and None means that none is.
NearestFree ==
    ret.op = "one" =>
        LET distance(i) == IF i >= ret.start THEN i - ret.start ELSE i - ret.start + Total
            clear == Valid \ ret.before
        IN  IF ret.found = NoBit THEN clear = {}
            ELSE /\ ret.found \in clear
                 /\ \A i \in clear : distance(ret.found) <= distance(i)

\* The places where `count' clear bits in a row begin.
SuitableRuns(before, count) ==
    {i \in Valid : RunBits(i, count) \subseteq Valid \ before}

\* A run that is returned was clear, and find_contiguous_free gives up only
\* when each run it could have returned has bits on both sides of `start'.
RunFoundUnlessSplit ==
    ret.op = "run" /\ ret.count > 0 =>
        IF ret.found # NoBit THEN ret.found \in SuitableRuns(ret.before, ret.count)
        ELSE \A i \in SuitableRuns(ret.before, ret.count) :
                i < ret.start /\ ret.start < i + ret.count

\* bitmap.rs: find_contiguous_free "Returns the starting index of the run, or
\* `None` if no suitable run exists."
ContiguousComplete ==
    ret.op = "run" /\ ret.count > 0 /\ ret.found = NoBit =>
        SuitableRuns(ret.before, ret.count) = {}
=============================================================================
