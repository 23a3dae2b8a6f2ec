-------------------------- MODULE BitmapOpsProofs ---------------------------
(***************************************************************************)
(* Theorems about BitmapOps, for every set of callers and every size of    *)
(* the bitmap and of its buffer.                                           *)
(***************************************************************************)
EXTENDS BitmapOps, BitmapProofs

\* The inductive invariant: OwnershipExact, of functions on the callers.
Ownership == owned \in [Callers -> SUBSET Valid] /\ OwnershipExact

LEMMA OwnershipInit == Init => Ownership
BY DEF Init, Ownership, OwnershipExact

\* Bits that nobody holds go to one caller.
LEMMA TakeKeeps ==
    ASSUME Ownership, NEW c \in Callers, NEW bits \in SUBSET Valid, bits \cap bitmap = {},
           bitmap' = bitmap \cup bits, owned' = [owned EXCEPT ![c] = @ \cup bits],
           UNCHANGED reserved
    PROVE  Ownership'
<1>1. /\ bitmap = reserved \cup UNION {owned[d] : d \in Callers}
      /\ \A d \in Callers : owned[d] \cap reserved = {}
      /\ \A d, e \in Callers : d # e => owned[d] \cap owned[e] = {}
      /\ owned \in [Callers -> SUBSET Valid]
  BY DEF Ownership, OwnershipExact
<1>2. \A d \in Callers : owned'[d] = IF d = c THEN owned[c] \cup bits ELSE owned[d]
  BY <1>1
<1>3. owned' \in [Callers -> SUBSET Valid]
  BY <1>1
<1>4. bits \cap reserved = {} /\ \A d \in Callers : bits \cap owned[d] = {}
  BY <1>1
<1>5. bitmap' = reserved' \cup UNION {owned'[d] : d \in Callers}
  BY <1>1, <1>2
<1>6. \A d \in Callers : owned'[d] \cap reserved' = {}
  BY <1>1, <1>2, <1>4
<1>7. \A d, e \in Callers : d # e => owned'[d] \cap owned'[e] = {}
  BY <1>1, <1>2, <1>4
<1>8. QED
  BY <1>3, <1>5, <1>6, <1>7 DEF Ownership, OwnershipExact

LEMMA AllocateOneKeeps ==
    ASSUME Ownership, NEW c \in Callers, NEW start \in Starts, AllocateOne(c, start)
    PROVE  Ownership'
<1> DEFINE found == FindFirstFree(bitmap, start, Total)
<1>1. start \in Nat /\ start <= Total /\ Total \in Nat /\ BufferBits \in Nat /\ Total <= BufferBits
  BY SizeAssumption DEF Starts
<1>2. found = NoBit \/ found \in ClearBits(bitmap, start, Total) \cup ClearBits(bitmap, 0, start)
  BY <1>1, FindFirstFreeCorrect
<1>3. CASE found = NoBit
  <2>1. UNCHANGED <<bitmap, owned, reserved>>
    BY <1>3 DEF AllocateOne
  <2>2. QED
    BY <2>1 DEF Ownership, OwnershipExact
<1>4. CASE found # NoBit
  <2>1. /\ bitmap' = SetBit(bitmap, BufferBits, found) /\ UNCHANGED reserved
        /\ owned' = [owned EXCEPT ![c] = @ \cup {found}]
    BY <1>4 DEF AllocateOne
  <2> HIDE DEF found
  <2>2. found \in Valid /\ found \notin bitmap /\ found < BufferBits
    <3>1. \A i \in ClearBits(bitmap, start, Total) \cup ClearBits(bitmap, 0, start) :
                i \in Valid /\ i \notin bitmap /\ i < BufferBits
      BY <1>1 DEF ClearBits, IsSet, Valid
    <3>2. QED
      BY <1>2, <1>4, <3>1
  <2>3. bitmap' = bitmap \cup {found}
    BY <2>1, <2>2 DEF SetBit
  <2>4. PICK bits : bits = {found}
    OBVIOUS
  <2>5. owned' = [owned EXCEPT ![c] = @ \cup bits]
    BY <2>1, <2>4
  <2>6. bits \in SUBSET Valid /\ bits \cap bitmap = {}
    BY <2>2, <2>4
  <2>7. QED
    BY <2>1, <2>3, <2>4, <2>5, <2>6, TakeKeeps
<1>5. QED
  BY <1>3, <1>4

\* What find_contiguous_free returns.
LEMMA FoundIs ==
    ASSUME NEW bm, NEW start \in Starts, NEW count \in (0..Total) \ {0},
           NEW found, found = FindContiguousFree(bm, start, Total, count)
    PROVE  /\ found # NoBit => found \in SuitableRuns(bm, count)
           /\ found = NoBit => \A i \in SuitableRuns(bm, count) :
                                    i < start /\ start < i + count
<1> DEFINE upper == ScanForRun(bm, start, Total, count)
           lower == ScanForRun(bm, 0, start, count)
<1>1. start \in Nat /\ start <= Total /\ Total \in Nat /\ count \in Nat \ {0}
  BY SizeAssumption DEF Starts
<1>2. found = IF upper # NoBit THEN upper ELSE lower
  BY <1>1 DEF FindContiguousFree
<1>3. /\ upper # NoBit => upper \in Nat /\ ClearRun(bm, start, Total, upper, count)
      /\ upper = NoBit => \A r \in Nat : ~ ClearRun(bm, start, Total, r, count)
  BY <1>1, ScanForRunCorrect
<1>4. /\ lower # NoBit => lower \in Nat /\ ClearRun(bm, 0, start, lower, count)
      /\ lower = NoBit => \A r \in Nat : ~ ClearRun(bm, 0, start, r, count)
  BY <1>1, ScanForRunCorrect
<1> HIDE DEF upper, lower
<1>5. ASSUME NEW lo \in {0, start}, NEW hi \in {start, Total}, NEW r \in Nat,
             ClearRun(bm, lo, hi, r, count)
      PROVE  r \in SuitableRuns(bm, count)
  <2>1. r + count <= Total /\ \A j \in r..(r + count - 1) : j \notin bm
    BY <1>1, <1>5 DEF ClearRun, RunBits, IsSet
  <2>2. QED
    BY <1>1, <2>1 DEF SuitableRuns, RunBits, Valid
<1>6. ASSUME found # NoBit
      PROVE  found \in SuitableRuns(bm, count)
  BY <1>2, <1>3, <1>4, <1>5, <1>6
<1>7. ASSUME found = NoBit, NEW i \in SuitableRuns(bm, count)
      PROVE  i < start /\ start < i + count
  <2>1. i \in Nat /\ i + count <= Total /\ \A j \in RunBits(i, count) : ~ IsSet(bm, j)
    <3>1. i \in Nat /\ i < Total /\ RunBits(i, count) \subseteq Valid \ bm
      BY <1>1, <1>7 DEF SuitableRuns, Valid
    <3>2. i + count - 1 \in RunBits(i, count)
      BY <1>1, <3>1 DEF RunBits
    <3>3. i + count - 1 \in Valid
      BY <3>1, <3>2
    <3>4. i + count <= Total
      BY <1>1, <3>1, <3>3 DEF Valid
    <3>5. QED
      BY <3>1, <3>4 DEF IsSet
  <2>2. ~ ClearRun(bm, start, Total, i, count) /\ ~ ClearRun(bm, 0, start, i, count)
    BY <1>2, <1>3, <1>4, <1>7, <2>1
  <2>3. QED
    BY <1>1, <2>1, <2>2 DEF ClearRun
<1>8. QED
  BY <1>6, <1>7

LEMMA AllocateContiguousKeeps ==
    ASSUME Ownership, NEW c \in Callers, NEW start \in Starts, NEW count \in 0..Total,
           AllocateContiguous(c, start, count)
    PROVE  Ownership'
<1> DEFINE found == FindContiguousFree(bitmap, start, Total, count)
<1>1. start \in Nat /\ Total \in Nat /\ BufferBits \in Nat /\ Total <= BufferBits
  BY SizeAssumption DEF Starts
<1>2. CASE found = NoBit
  <2>1. UNCHANGED <<bitmap, owned, reserved>>
    BY <1>2 DEF AllocateContiguous
  <2>2. QED
    BY <2>1 DEF Ownership, OwnershipExact
<1>3. CASE found # NoBit
  <2>1. /\ bitmap' = SetRange(bitmap, BufferBits, found, count) /\ UNCHANGED reserved
        /\ owned' = [owned EXCEPT ![c] = @ \cup RunBits(found, count)]
    BY <1>3 DEF AllocateContiguous
  <2>2. RunBits(found, count) \subseteq Valid \ bitmap
    <3>1. CASE count = 0
      <4>1. found = start
        BY <3>1 DEF FindContiguousFree
      <4>2. RunBits(found, count) = {}
        BY <1>1, <3>1, <4>1 DEF RunBits
      <4>3. QED
        BY <4>2
    <3>2. CASE count # 0
      <4>1. found \in SuitableRuns(bitmap, count)
        BY <1>3, <3>2, FoundIs
      <4>2. QED
        BY <4>1 DEF SuitableRuns
    <3>3. QED
      BY <3>1, <3>2
  <2> HIDE DEF found
  <2>3. \A i \in RunBits(found, count) : i < BufferBits
    BY <1>1, <2>2 DEF Valid
  <2>4. bitmap' = bitmap \cup RunBits(found, count)
    BY <2>1, <2>3 DEF SetRange
  <2>5. QED
    BY <2>1, <2>2, <2>4, TakeKeeps
<1>4. QED
  BY <1>2, <1>3

LEMMA ReleaseKeeps ==
    ASSUME Ownership, NEW c \in Callers, NEW first, NEW count, Release(c, first, count)
    PROVE  Ownership'
<1> DEFINE bits == RunBits(first, count)
<1>1. /\ bitmap = reserved \cup UNION {owned[d] : d \in Callers}
      /\ \A d \in Callers : owned[d] \cap reserved = {}
      /\ \A d, e \in Callers : d # e => owned[d] \cap owned[e] = {}
      /\ owned \in [Callers -> SUBSET Valid]
  BY DEF Ownership, OwnershipExact
<1>2. /\ bits \subseteq owned[c] /\ bitmap' = bitmap \ bits /\ UNCHANGED reserved
      /\ owned' = [owned EXCEPT ![c] = @ \ bits]
  BY DEF Release, FreeRange
<1> HIDE DEF bits
<1>3. \A d \in Callers : owned'[d] = IF d = c THEN owned[c] \ bits ELSE owned[d]
  BY <1>1, <1>2
<1>4. owned' \in [Callers -> SUBSET Valid]
  BY <1>1, <1>2
<1>5. bitmap' = reserved' \cup UNION {owned'[d] : d \in Callers}
  BY <1>1, <1>2, <1>3
<1>6. \A d \in Callers : owned'[d] \cap reserved' = {}
  BY <1>1, <1>2, <1>3
<1>7. \A d, e \in Callers : d # e => owned'[d] \cap owned'[e] = {}
  BY <1>1, <1>3
<1>8. QED
  BY <1>4, <1>5, <1>6, <1>7 DEF Ownership, OwnershipExact

\* However many callers take bits and runs and give back what they hold, in any
\* order, the searches hand out no bit in use, and the releases take back none
\* of a neighbour's: the set bits are the reserved ones and the callers'.
THEOREM OwnershipIsExact == Spec => []OwnershipExact
<1>1. Ownership /\ [Next]_vars => Ownership'
  <2> SUFFICES ASSUME Ownership, [Next]_vars PROVE Ownership'
    OBVIOUS
  <2>1. CASE Next
    BY <2>1, AllocateOneKeeps, AllocateContiguousKeeps, ReleaseKeeps DEF Next
  <2>2. CASE UNCHANGED vars
    BY <2>2 DEF vars, Ownership, OwnershipExact
  <2>3. QED
    BY <2>1, <2>2
<1>2. Ownership => OwnershipExact
  BY DEF Ownership
<1>3. QED
  BY <1>1, <1>2, OwnershipInit, PTL DEF Spec
\* allocate_one takes the first clear bit from `start' on, around the end, and
\* none only when none is clear.
THEOREM NearestIsFound == Spec => []NearestFree
<1>1. Init => NearestFree
  BY DEF Init, NearestFree, Silent
<1>2. ASSUME NearestFree, [Next]_vars
      PROVE  NearestFree'
  <2>1. ASSUME NEW c \in Callers, NEW start \in Starts, AllocateOne(c, start)
        PROVE  NearestFree'
    <3> DEFINE found == FindFirstFree(bitmap, start, Total)
               upper == ClearBits(bitmap, start, Total)
               lower == ClearBits(bitmap, 0, start)
               clear == Valid \ bitmap
               distance(i) == IF i >= start THEN i - start ELSE i - start + Total
    <3>1. start \in Nat /\ start <= Total /\ Total \in Nat
      BY SizeAssumption DEF Starts
    <3>2. /\ ret'.op = "one" /\ ret'.start = start /\ ret'.before = bitmap
          /\ ret'.found = found
      BY <2>1 DEF AllocateOne, Answer
    <3>3. upper \in SUBSET Nat /\ lower \in SUBSET Nat
      BY <3>1 DEF ClearBits
    <3>4. \A i : i \in upper <=> i \in clear /\ i >= start
      BY <3>1 DEF ClearBits, IsSet, Valid
    <3>5. \A i : i \in lower <=> i \in clear /\ i < start
      BY <3>1 DEF ClearBits, IsSet, Valid
    <3>6. \A i \in clear : i \in Nat /\ i < Total
      BY <3>1 DEF Valid
    <3>7. found = IF upper # {} THEN Min(upper) ELSE IF lower # {} THEN Min(lower) ELSE NoBit
      BY DEF FindFirstFree
    <3>8. \A i \in Nat : i # NoBit
      BY DEF NoBit
    <3> HIDE DEF upper, lower, found
    <3>9. upper # {} => Min(upper) \in upper /\ \A i \in upper : Min(upper) <= i
      BY <3>3, MinExists
    <3>10. lower # {} => Min(lower) \in lower /\ \A i \in lower : Min(lower) <= i
      BY <3>3, MinExists
    <3> HIDE DEF clear
    <3>11. IF found = NoBit THEN clear = {}
           ELSE found \in clear /\ \A i \in clear : distance(found) <= distance(i)
      <4>1. CASE upper # {}
        BY <3>1, <3>3, <3>4, <3>5, <3>6, <3>7, <3>8, <3>9, <4>1
      <4>2. CASE upper = {} /\ lower # {}
        BY <3>1, <3>3, <3>4, <3>5, <3>6, <3>7, <3>8, <3>10, <4>2
      <4>3. CASE upper = {} /\ lower = {}
        BY <3>1, <3>4, <3>5, <3>6, <3>7, <4>3
      <4>4. QED
        BY <4>1, <4>2, <4>3
    <3>12. QED
      BY <3>2, <3>11 DEF NearestFree, clear
  <2>2. ASSUME NEW c \in Callers, NEW start, NEW count, AllocateContiguous(c, start, count)
        PROVE  NearestFree'
    BY <2>2 DEF AllocateContiguous, Answer, NearestFree
  <2>3. ASSUME NEW c \in Callers, NEW first, NEW count, Release(c, first, count)
        PROVE  NearestFree'
    BY <2>3 DEF Release, Silent, NearestFree
  <2>4. CASE UNCHANGED vars
    BY <1>2, <2>4 DEF vars, NearestFree
  <2>5. QED
    BY <1>2, <2>1, <2>2, <2>3, <2>4 DEF Next
<1>3. QED
  BY <1>1, <1>2, PTL DEF Spec

\* allocate_contiguous takes a run that is clear, and none only when every clear
\* run begins before `start' and reaches beyond it.
THEOREM RunsAreFound == Spec => []RunFoundUnlessSplit
<1>1. Init => RunFoundUnlessSplit
  BY DEF Init, RunFoundUnlessSplit, Silent
<1>2. ASSUME RunFoundUnlessSplit, [Next]_vars
      PROVE  RunFoundUnlessSplit'
  <2>1. ASSUME NEW c \in Callers, NEW start \in Starts, NEW count \in 0..Total,
               AllocateContiguous(c, start, count)
        PROVE  RunFoundUnlessSplit'
    <3>1. PICK found : found = FindContiguousFree(bitmap, start, Total, count)
      OBVIOUS
    <3>2. /\ ret'.op = "run" /\ ret'.start = start /\ ret'.count = count
          /\ ret'.before = bitmap /\ ret'.found = found
      BY <2>1, <3>1 DEF AllocateContiguous, Answer
    <3>3. SUFFICES ASSUME count > 0
                   PROVE  IF found # NoBit THEN found \in SuitableRuns(bitmap, count)
                          ELSE \A i \in SuitableRuns(bitmap, count) :
                                i < start /\ start < i + count
      BY <3>2 DEF RunFoundUnlessSplit
    <3>4. count \in (0..Total) \ {0}
      BY <3>3, SizeAssumption
    <3>5. QED
      BY <3>1, <3>4, FoundIs
  <2>2. ASSUME NEW c \in Callers, NEW start, AllocateOne(c, start)
        PROVE  RunFoundUnlessSplit'
    BY <2>2 DEF AllocateOne, Answer, RunFoundUnlessSplit
  <2>3. ASSUME NEW c \in Callers, NEW first, NEW count, Release(c, first, count)
        PROVE  RunFoundUnlessSplit'
    BY <2>3 DEF Release, Silent, RunFoundUnlessSplit
  <2>4. CASE UNCHANGED vars
    BY <1>2, <2>4 DEF vars, RunFoundUnlessSplit
  <2>5. QED
    BY <1>2, <2>1, <2>2, <2>3, <2>4 DEF Next
<1>3. QED
  BY <1>1, <1>2, PTL DEF Spec
=============================================================================
