------------------------------- MODULE Bitmap -------------------------------
(***************************************************************************)
(* The block and inode bitmaps of src/src/bitmap.rs.                       *)
(*                                                                         *)
(* A bitmap is the set of its bits that are 1 (allocated).  The byte       *)
(* buffer behind it holds `size' bits; a bit at or beyond `size' is never  *)
(* in the set, which is how is_set answers for it (it returns false).      *)
(***************************************************************************)
EXTENDS Integers, FiniteSetsExt

\* What the searches return for Rust's None.
NoBit == -1

\* is_set: a bit outside of the buffer reads as clear.
IsSet(bitmap, i) == i \in bitmap

\* set: outside of the buffer nothing is written.
SetBit(bitmap, size, i) == IF i < size THEN bitmap \cup {i} ELSE bitmap

\* The clear bits that one pass `for i in lo..hi' can meet.
ClearBits(bitmap, lo, hi) == {i \in lo..(hi - 1) : ~IsSet(bitmap, i)}

\* count_free.
CountFree(bitmap, total) == Cardinality(ClearBits(bitmap, 0, total))

\* Mutant: `start' is ignored.
FindFirstFreeIgnoringStart(bitmap, start, total) ==
    LET clear == ClearBits(bitmap, 0, total)
    IN  IF clear # {} THEN Min(clear) ELSE NoBit

\* find_first_free: a pass over start..total, then a pass over 0..start.
FindFirstFree(bitmap, start, total) ==
    LET upper == ClearBits(bitmap, start, total)
        lower == ClearBits(bitmap, 0, start)
    IN  IF upper # {} THEN Min(upper)
        ELSE IF lower # {} THEN Min(lower)
        ELSE NoBit

\* One pass `for i in lo..hi' of find_contiguous_free: runLen[i] is the value
\* of run_len once the bits lo..i-1 are scanned.  The pass stops at the first
\* i where it reaches `count', and run_start is then i - count.
ScanForRun(bitmap, lo, hi, count) ==
    LET runLen[i \in lo..hi] ==
            IF i = lo \/ IsSet(bitmap, i - 1) THEN 0 ELSE runLen[i - 1] + 1
        hits == {i \in lo..hi : runLen[i] >= count}
    IN  IF hits = {} THEN NoBit ELSE Min(hits) - count

\* Mutant: no second pass.
FindContiguousNoWrap(bitmap, start, total, count) ==
    IF count = 0 THEN start ELSE ScanForRun(bitmap, start, total, count)

\* find_contiguous_free: the two passes do not share a run.
FindContiguousFree(bitmap, start, total, count) ==
    LET upper == ScanForRun(bitmap, start, total, count)
    IN  IF count = 0 THEN start
        ELSE IF upper # NoBit THEN upper
        ELSE ScanForRun(bitmap, 0, start, count)

\* The bits `first .. first + count - 1' of a run.
RunBits(first, count) == first..(first + count - 1)

\* allocate_contiguous, once find_contiguous_free has answered `first'.
SetRange(bitmap, size, first, count) ==
    bitmap \cup {i \in RunBits(first, count) : i < size}

\* free_range: clear, which ignores what is outside of the buffer, bit by bit.
FreeRange(bitmap, first, count) == bitmap \ RunBits(first, count)
=============================================================================
