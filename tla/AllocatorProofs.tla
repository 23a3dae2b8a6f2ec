-------------------------- MODULE AllocatorProofs ---------------------------
(***************************************************************************)
(* Theorems about Allocator, for every number of groups and every number   *)
(* of blocks and inodes in a group; about Descriptors, that its steps are  *)
(* steps of Allocator and that what it stores stands for Allocator's       *)
(* counts, for every format; and about Volume, that it is Allocator and    *)
(* FileOps at once.                                                        *)
(***************************************************************************)
EXTENDS Volume, Descriptors, BitmapProofs

LEMMA PerGroupType ==
    /\ Groups \subseteq Nat
    /\ \A k \in Kinds : PerGroup(k) \in Nat \ {0} /\ Bits(k) \subseteq Nat
BY GeometryAssumption DEF Groups, PerGroup, Bits

\* The clear bits below PerGroup are the bits that are not marked.
LEMMA ClearIsUnmarked ==
    ASSUME NEW k \in Kinds, NEW bm
    PROVE  ClearBits(bm, 0, PerGroup(k)) = Bits(k) \ bm
BY PerGroupType DEF ClearBits, IsSet, Bits

\* What the search does in a group that the loop does not leave.
LEMMA UsableGroup ==
    ASSUME NEW k \in Kinds, NEW g \in Groups, Usable(k, g)
    PROVE  FindFirstFree(bitmap[k][g], 0, PerGroup(k)) \in Bits(k) \ bitmap[k][g]
BY PerGroupType, FindFromZero, ClearIsUnmarked DEF Usable

-----------------------------------------------------------------------------
(* Typing.                                                                 *)

\* What a device write of a marked bitmap does to the typing of the bitmaps.
LEMMA MarkType ==
    ASSUME TypeOK, NEW k \in Kinds, NEW g \in Groups, NEW b \in Bits(k)
    PROVE  /\ Mark(k, g, b) \in [Kinds -> [Groups -> SUBSET Nat]]
           /\ Mark(k, g, b)[k][g] = SetBit(bitmap[k][g], PerGroup(k), b)
           /\ \A l \in Kinds, h \in Groups :
                ~(l = k /\ h = g) => Mark(k, g, b)[l][h] = bitmap[l][h]
           /\ \A l \in Kinds, h \in Groups : Mark(k, g, b)[l][h] \subseteq Bits(l)
<1>1. b \in Nat /\ b < PerGroup(k)
  BY PerGroupType DEF Bits
<1>2. SetBit(bitmap[k][g], PerGroup(k), b) = bitmap[k][g] \cup {b}
  BY <1>1 DEF SetBit
<1>3. SetBit(bitmap[k][g], PerGroup(k), b) \in SUBSET Nat
  BY <1>1, <1>2 DEF TypeOK
<1>4. SetBit(bitmap[k][g], PerGroup(k), b) \subseteq Bits(k)
  BY <1>2 DEF TypeOK
<1>5. QED
  BY <1>3, <1>4 DEF TypeOK, Mark

\* A count that is decremented stays a count.
LEMMA PredType == \A n \in Nat : SaturatingPred(n) \in Nat /\ SaturatingPred(n) <= n
BY DEF SaturatingPred

LEMMA TypeInit == Init => TypeOK
<1> SUFFICES ASSUME Init PROVE TypeOK
  OBVIOUS
<1>1. bitmap \in [Kinds -> [Groups -> SUBSET Nat]]
  BY PerGroupType DEF Init
<1>2. diskGroup \in [Groups -> [Kinds -> Nat]]
  BY PerGroupType, CountFreeType DEF Init
<1>3. diskSuper \in [Kinds -> Nat]
  BY DEF Init
<1>4. QED
  BY <1>1, <1>2, <1>3, GeometryAssumption DEF Init, TypeOK, Replies

LEMMA TypeNext == TypeOK /\ [Next]_vars => TypeOK'
<1> SUFFICES ASSUME TypeOK, [Next]_vars PROVE TypeOK'
  OBVIOUS
<1> USE PerGroupType
<1>1. ASSUME NEW k \in Kinds, NEW p \in Groups, Allocate(k, p)
      PROVE  TypeOK'
  <2>1. PICK g \in Groups :
            LET bit == FindFirstFree(bitmap[k][g], 0, PerGroup(k))
            IN  /\ Chosen(k, p, g)
                /\ bitmap' = Mark(k, g, bit)
                /\ memGroup' = [memGroup EXCEPT ![g][k] = SaturatingPred(@)]
                /\ reply' = Granted(k, Number(k, g, bit))
    BY <1>1 DEF Allocate
  <2> DEFINE bit == FindFirstFree(bitmap[k][g], 0, PerGroup(k))
  <2>2. bit \in Bits(k)
    BY <2>1, UsableGroup DEF Chosen
  <2>3. /\ bitmap' \in [Kinds -> [Groups -> SUBSET Nat]]
        /\ \A l \in Kinds, h \in Groups : bitmap'[l][h] \subseteq Bits(l)
    <3>1. bitmap' = Mark(k, g, bit)
      BY <2>1
    <3> HIDE DEF bit
    <3>2. QED
      BY <2>2, <3>1, MarkType
  <2>4. reply' \in Replies
    BY <2>1, <2>2 DEF Replies, Numbers
  <2>5. memGroup' \in [Groups -> [Kinds -> Nat]]
    BY <2>1, PredType DEF TypeOK
  <2>6. memSuper' \in [Kinds -> Nat]
    BY <1>1, PredType DEF TypeOK, Allocate
  <2>7. QED
    BY <1>1, <2>3, <2>4, <2>5, <2>6 DEF TypeOK, Allocate
<1>2. ASSUME NEW k \in Kinds, NEW p \in Groups, AllocateIoError(k, p)
      PROVE  TypeOK'
  <2>1. CASE UNCHANGED bitmap
    BY <1>2, <2>1 DEF TypeOK, AllocateIoError, counts, Replies
  <2>2. CASE \E g \in Groups :
                /\ Chosen(k, p, g)
                /\ bitmap' = Mark(k, g, FindFirstFree(bitmap[k][g], 0, PerGroup(k)))
    <3>1. PICK g \in Groups :
            /\ Chosen(k, p, g)
            /\ bitmap' = Mark(k, g, FindFirstFree(bitmap[k][g], 0, PerGroup(k)))
      BY <2>2
    <3>2. FindFirstFree(bitmap[k][g], 0, PerGroup(k)) \in Bits(k)
      BY <3>1, UsableGroup DEF Chosen
    <3>3. /\ bitmap' \in [Kinds -> [Groups -> SUBSET Nat]]
          /\ \A l \in Kinds, h \in Groups : bitmap'[l][h] \subseteq Bits(l)
      <4> DEFINE bit == FindFirstFree(bitmap[k][g], 0, PerGroup(k))
      <4>1. bit \in Bits(k) /\ bitmap' = Mark(k, g, bit)
        BY <3>1, <3>2
      <4> HIDE DEF bit
      <4>2. QED
        BY <4>1, MarkType
    <3>4. QED
      BY <1>2, <3>3 DEF TypeOK, AllocateIoError, counts, Replies
  <2>3. QED
    BY <1>2, <2>1, <2>2 DEF AllocateIoError
<1>3. ASSUME NEW k \in Kinds, AllocateNone(k)
      PROVE  TypeOK'
  BY <1>3 DEF TypeOK, AllocateNone, disk, counts, Replies
<1>4. CASE SyncSuper
  BY <1>4, GeometryAssumption DEF TypeOK, SyncSuper, counts, Replies
<1>5. CASE SyncGroup
  BY <1>5, GeometryAssumption DEF TypeOK, SyncGroup, counts, Groups
<1>6. CASE SyncEnd
  BY <1>6, GeometryAssumption DEF TypeOK, SyncEnd, disk, counts
<1>7. CASE Remount
  BY <1>7, GeometryAssumption DEF TypeOK, Remount, disk, Replies
<1>8. CASE UNCHANGED vars
  BY <1>8 DEF TypeOK, vars
<1>9. QED
  BY <1>1, <1>2, <1>3, <1>4, <1>5, <1>6, <1>7, <1>8 DEF Next

\* Every variable keeps its declared type; in particular no bit is ever marked
\* outside of its group, and every number returned exists (allocate_block and
\* allocate_inode, with a failing device and power losses).
THEOREM TypeCorrect == Spec => []TypeOK
BY TypeInit, TypeNext, PTL DEF Spec

-----------------------------------------------------------------------------
(* Counts.                                                                 *)

\* What a call that returns Ok has done: one clear bit of one group, which is
\* a bit of the preferred group when that one is usable.
LEMMA AllocateEffect ==
    ASSUME NEW k \in Kinds, NEW p \in Groups, Allocate(k, p)
    PROVE  \E g \in Groups, b \in Bits(k) :
             /\ b \notin bitmap[k][g]
             /\ bitmap' = Mark(k, g, b)
             /\ memGroup' = [memGroup EXCEPT ![g][k] = SaturatingPred(@)]
             /\ reply' = Granted(k, Number(k, g, b))
             /\ Usable(k, p) => g = p
<1>1. PICK g \in Groups :
          LET bit == FindFirstFree(bitmap[k][g], 0, PerGroup(k))
          IN  /\ Chosen(k, p, g)
              /\ bitmap' = Mark(k, g, bit)
              /\ memGroup' = [memGroup EXCEPT ![g][k] = SaturatingPred(@)]
              /\ reply' = Granted(k, Number(k, g, bit))
  BY DEF Allocate
<1>2. FindFirstFree(bitmap[k][g], 0, PerGroup(k)) \in Bits(k) \ bitmap[k][g]
  BY <1>1, UsableGroup DEF Chosen
<1>3. Usable(k, p) => g = p
  BY <1>1, GeometryAssumption DEF Chosen, Visit, Groups
<1>4. QED
  BY <1>1, <1>2, <1>3

\* The same for a call whose bitmap write failed.
LEMMA IoErrorEffect ==
    ASSUME NEW k \in Kinds, NEW p \in Groups, AllocateIoError(k, p)
    PROVE  \/ UNCHANGED bitmap
           \/ \E g \in Groups, b \in Bits(k) :
                b \notin bitmap[k][g] /\ bitmap' = Mark(k, g, b)
BY UsableGroup DEF AllocateIoError, Chosen

\* A marked bit makes the free count of its group one less, and of no other.
LEMMA MarkLowersCount ==
    ASSUME TypeOK, NEW k \in Kinds, NEW g \in Groups,
           NEW b \in Bits(k), b \notin bitmap[k][g],
           NEW l \in Kinds, NEW h \in Groups
    PROVE  CountFree(Mark(k, g, b)[l][h], PerGroup(l)) =
             CountFree(bitmap[l][h], PerGroup(l)) - (IF l = k /\ h = g THEN 1 ELSE 0)
<1>1. CountFree(bitmap[l][h], PerGroup(l)) \in Nat
  BY PerGroupType, CountFreeType
<1>2. CASE l = k /\ h = g
  <2>1. b \in ClearBits(bitmap[k][g], 0, PerGroup(k))
    BY ClearIsUnmarked
  <2>2. Mark(k, g, b)[l][h] = SetBit(bitmap[k][g], PerGroup(k), b)
    BY <1>2, MarkType
  <2>3. QED
    BY <1>2, <2>1, <2>2, PerGroupType, CountFreeSetBit
<1>3. CASE ~ (l = k /\ h = g)
  <2>1. Mark(k, g, b)[l][h] = bitmap[l][h]
    BY <1>3, MarkType
  <2>2. QED
    BY <1>1, <1>3, <2>1
<1>4. QED
  BY <1>2, <1>3

LEMMA CountsInit == Init => CountsCoverFree
BY PerGroupType, CountFreeType DEF Init, CountsCoverFree

LEMMA CountsNext ==
    TypeOK /\ CountsCoverFree /\ [Next]_vars => CountsCoverFree'
<1> SUFFICES ASSUME TypeOK, CountsCoverFree, [Next]_vars,
                    NEW l \in Kinds, NEW h \in Groups
             PROVE  /\ CountFree(bitmap'[l][h], PerGroup(l)) <= memGroup'[h][l]
                    /\ memGroup'[h][l] <= diskGroup'[h][l]
  BY DEF CountsCoverFree
<1> DEFINE free == CountFree(bitmap[l][h], PerGroup(l))
<1>1. free \in Nat /\ memGroup[h][l] \in Nat /\ diskGroup[h][l] \in Nat
  BY PerGroupType, CountFreeType DEF TypeOK
<1>2. free <= memGroup[h][l] /\ memGroup[h][l] <= diskGroup[h][l]
  BY DEF CountsCoverFree
<1>3. ASSUME NEW k \in Kinds, NEW p \in Groups, Allocate(k, p)
      PROVE  /\ CountFree(bitmap'[l][h], PerGroup(l)) <= memGroup'[h][l]
             /\ memGroup'[h][l] <= diskGroup'[h][l]
  <2>1. PICK g \in Groups, b \in Bits(k) :
             /\ b \notin bitmap[k][g]
             /\ bitmap' = Mark(k, g, b)
             /\ memGroup' = [memGroup EXCEPT ![g][k] = SaturatingPred(@)]
    BY <1>3, AllocateEffect
  <2>2. CountFree(bitmap'[l][h], PerGroup(l)) =
            free - (IF l = k /\ h = g THEN 1 ELSE 0)
    BY <2>1, MarkLowersCount
  <2>3. memGroup'[h][l] =
            IF l = k /\ h = g THEN SaturatingPred(memGroup[h][l]) ELSE memGroup[h][l]
    BY <2>1 DEF TypeOK
  <2>4. diskGroup' = diskGroup
    BY <1>3 DEF Allocate
  <2> HIDE DEF free
  <2>5. QED
    BY <1>1, <1>2, <2>2, <2>3, <2>4 DEF SaturatingPred
<1>4. ASSUME NEW k \in Kinds, NEW p \in Groups, AllocateIoError(k, p)
      PROVE  /\ CountFree(bitmap'[l][h], PerGroup(l)) <= memGroup'[h][l]
             /\ memGroup'[h][l] <= diskGroup'[h][l]
  <2>1. UNCHANGED <<memGroup, diskGroup>>
    BY <1>4 DEF AllocateIoError, counts
  <2>2. CASE UNCHANGED bitmap
    BY <1>2, <2>1, <2>2
  <2>3. CASE \E g \in Groups, b \in Bits(k) :
                b \notin bitmap[k][g] /\ bitmap' = Mark(k, g, b)
    <3>1. PICK g \in Groups, b \in Bits(k) :
                b \notin bitmap[k][g] /\ bitmap' = Mark(k, g, b)
      BY <2>3
    <3>2. CountFree(bitmap'[l][h], PerGroup(l)) =
            free - (IF l = k /\ h = g THEN 1 ELSE 0)
      BY <3>1, MarkLowersCount
    <3> HIDE DEF free
    <3>3. QED
      BY <1>1, <1>2, <2>1, <3>2
  <2>4. QED
    BY <1>4, <2>2, <2>3, IoErrorEffect
<1>5. CASE SyncGroup
  <2>1. diskGroup'[h][l] = memGroup[h][l] \/ diskGroup'[h][l] = diskGroup[h][l]
    BY <1>5 DEF SyncGroup, TypeOK
  <2>2. QED
    BY <1>1, <1>2, <1>5, <2>1 DEF SyncGroup, counts
<1>6. CASE Remount
  BY <1>1, <1>2, <1>6 DEF Remount, disk
<1>7. CASE (\E k \in Kinds : AllocateNone(k)) \/ SyncSuper \/ SyncEnd \/ UNCHANGED vars
  BY <1>2, <1>7 DEF AllocateNone, SyncSuper, SyncEnd, disk, counts, vars
<1>8. QED
  BY <1>3, <1>4, <1>5, <1>6, <1>7 DEF Next

\* No free count is ever too low, in the handle or on disk: the `== 0' test of
\* allocate_block and allocate_inode skips no group that has a clear bit.
THEOREM CountsCorrect == Spec => []CountsCoverFree
<1>1. Init => TypeOK /\ CountsCoverFree
  BY TypeInit, CountsInit
<1>2. TypeOK /\ CountsCoverFree /\ [Next]_vars => (TypeOK /\ CountsCoverFree)'
  BY TypeNext, CountsNext
<1>3. QED
  BY <1>1, <1>2, PTL DEF Spec

\* The loop skips only groups that are full.
LEMMA NotUsableIsFull ==
    ASSUME TypeOK, CountsCoverFree, NEW k \in Kinds, NEW g \in Groups, ~Usable(k, g)
    PROVE  Bits(k) \subseteq bitmap[k][g]
<1>1. memGroup[g][k] = 0 => CountFree(bitmap[k][g], PerGroup(k)) = 0
  <2>1. CountFree(bitmap[k][g], PerGroup(k)) \in Nat
    BY PerGroupType, CountFreeType
  <2>2. QED
    BY <2>1 DEF CountsCoverFree
<1>2. ClearBits(bitmap[k][g], 0, PerGroup(k)) = {}
  BY <1>1, PerGroupType, CountFreeType, FindFromZero DEF Usable
<1>3. QED
  BY <1>2, ClearIsUnmarked

LEMMA FullInit == Init => ExhaustedMeansFull
BY DEF Init, ExhaustedMeansFull, Silent, Exhausted

LEMMA FullNext ==
    TypeOK /\ CountsCoverFree /\ ExhaustedMeansFull /\ [Next]_vars => ExhaustedMeansFull'
<1> SUFFICES ASSUME TypeOK, CountsCoverFree, ExhaustedMeansFull, [Next]_vars,
                    NEW l \in Kinds, reply' = Exhausted(l), NEW h \in Groups
             PROVE  Bits(l) \subseteq bitmap'[l][h]
  BY DEF ExhaustedMeansFull
<1>1. ASSUME NEW k \in Kinds, NEW p \in Groups, Allocate(k, p)
      PROVE  FALSE
  BY <1>1, AllocateEffect DEF Granted, Exhausted
<1>2. ASSUME NEW k \in Kinds, NEW p \in Groups, AllocateIoError(k, p)
      PROVE  FALSE
  BY <1>2 DEF AllocateIoError, Failed, Exhausted
<1>3. ASSUME NEW k \in Kinds, AllocateNone(k)
      PROVE  Bits(l) \subseteq bitmap'[l][h]
  <2>1. k = l
    BY <1>3 DEF AllocateNone, Exhausted
  <2>2. ~Usable(l, h)
    BY <1>3, <2>1 DEF AllocateNone
  <2>3. QED
    BY <1>3, <2>2, NotUsableIsFull DEF AllocateNone, disk
<1>4. CASE SyncSuper \/ Remount
  BY <1>4 DEF SyncSuper, Remount, Silent, Exhausted
<1>5. CASE SyncGroup \/ SyncEnd \/ UNCHANGED vars
  BY <1>5 DEF SyncGroup, SyncEnd, disk, vars, ExhaustedMeansFull
<1>6. QED
  BY <1>1, <1>2, <1>3, <1>4, <1>5 DEF Next

\* NoFreeBlocks and NoFreeInodes are only returned by a full file system.
THEOREM ExhaustionCorrect == Spec => []ExhaustedMeansFull
<1> DEFINE IInv == TypeOK /\ CountsCoverFree /\ ExhaustedMeansFull
<1>1. Init => IInv
  BY TypeInit, CountsInit, FullInit
<1>2. IInv /\ [Next]_vars => IInv'
  BY TypeNext, CountsNext, FullNext
<1>3. QED
  BY <1>1, <1>2, PTL DEF Spec

\* allocate_block and allocate_inode keep to the preferred group for as long
\* as it has a clear bit, however stale the counts are.
THEOREM PreferenceCorrect == Spec => PrefersGroup
<1>1. ASSUME TypeOK, CountsCoverFree, NEW k \in Kinds, NEW p \in Groups,
             Allocate(k, p), Bits(k) \ bitmap[k][p] # {}
      PROVE  \E b \in Bits(k) \ bitmap[k][p] : reply' = Granted(k, Number(k, p, b))
  <2>1. Usable(k, p)
    BY <1>1, NotUsableIsFull
  <2>2. QED
    BY <1>1, <2>1, AllocateEffect
<1>2. TypeOK /\ CountsCoverFree =>
        \A k \in Kinds, p \in Groups :
            Allocate(k, p) /\ Bits(k) \ bitmap[k][p] # {} =>
                \E b \in Bits(k) \ bitmap[k][p] : reply' = Granted(k, Number(k, p, b))
  BY <1>1
<1>3. QED
  BY <1>2, TypeCorrect, CountsCorrect, PTL DEF PrefersGroup

-----------------------------------------------------------------------------
(* The abstract pool.                                                      *)

\* No two bits share a number.
LEMMA NumberInjective ==
    ASSUME NEW k \in Kinds, NEW g \in Groups, NEW h \in Groups,
           NEW b \in Bits(k), NEW c \in Bits(k),
           Number(k, g, b) = Number(k, h, c)
    PROVE  g = h /\ b = c
<1> DEFINE P == PerGroup(k)
<1>1. P \in Nat \ {0} /\ g \in Nat /\ h \in Nat /\ b \in 0..(P - 1) /\ c \in 0..(P - 1)
  BY PerGroupType DEF Bits
<1> DEFINE base == IF k = "block" THEN FirstDataBlock ELSE 1
<1>2. base \in Nat /\ g * P + base + b = h * P + base + c
  BY GeometryAssumption DEF Number
<1> HIDE DEF P, base
<1>3. \A m, n \in Nat : m < n => m * P + P <= n * P
  <2>1. SUFFICES ASSUME NEW m \in Nat, NEW n \in Nat, m < n
                 PROVE  m * P + P <= n * P
    OBVIOUS
  <2>2. PICK d \in Nat : n = m + 1 + d
    <3>1. n - m - 1 \in Nat /\ n = m + 1 + (n - m - 1)
      BY <2>1
    <3>2. QED
      BY <3>1
  <2>3. n * P = m * P + P + d * P /\ d * P >= 0
    BY <1>1, <2>2
  <2>4. m * P \in Int /\ d * P \in Int
    BY <1>1
  <2>5. QED
    BY <1>1, <2>3, <2>4
<1>4. g * P \in Int /\ h * P \in Int
  BY <1>1
<1>5. ~(g < h) /\ ~(h < g)
  BY <1>1, <1>2, <1>3, <1>4
<1>6. QED
  BY <1>1, <1>2, <1>5

\* A marked bit adds its number to the pool's taken numbers, and only it.
LEMMA MarkTakes ==
    ASSUME TypeOK, NEW k \in Kinds, NEW g \in Groups, NEW b \in Bits(k),
           b \notin bitmap[k][g], bitmap' = Mark(k, g, b)
    PROVE  /\ Number(k, g, b) \in Numbers(k) \ Taken[k]
           /\ Taken' = [Taken EXCEPT ![k] = @ \cup {Number(k, g, b)}]
<1> DEFINE n == Number(k, g, b)
<1>1. n \in Numbers(k)
  BY DEF Numbers
<1>2. n \notin Taken[k]
  BY NumberInjective DEF Taken, IsSet
<1>3. \A l \in Kinds : \A h \in Groups, c \in Bits(l) :
        IsSet(bitmap'[l][h], c) <=> IsSet(bitmap[l][h], c) \/ (l = k /\ h = g /\ c = b)
  <2>1. b < PerGroup(k)
    BY PerGroupType DEF Bits
  <2>2. SetBit(bitmap[k][g], PerGroup(k), b) = bitmap[k][g] \cup {b}
    BY <2>1 DEF SetBit
  <2>3. bitmap'[k][g] = SetBit(bitmap[k][g], PerGroup(k), b)
    BY MarkType
  <2>4. \A l \in Kinds, h \in Groups : ~(l = k /\ h = g) => bitmap'[l][h] = bitmap[l][h]
    BY MarkType
  <2>5. QED
    BY <2>2, <2>3, <2>4 DEF IsSet
<1>4. \A l \in Kinds : Taken'[l] = IF l = k THEN Taken[l] \cup {n} ELSE Taken[l]
  BY <1>1, <1>3 DEF Taken
<1>5. Taken' = [l \in Kinds |-> Taken'[l]] /\ Taken = [l \in Kinds |-> Taken[l]]
  BY DEF Taken
<1>6. QED
  BY <1>1, <1>2, <1>4, <1>5

LEMMA PoolInit == Init => Pool!Init
BY DEF Init, Pool!Init, Taken, Silent, Pool!Silent

LEMMA PoolNext ==
    ASSUME TypeOK, CountsCoverFree, [Next]_vars
    PROVE  [Pool!Next]_(Pool!vars)
<1> USE DEF Pool!Next, Pool!Grant, Pool!Refuse, Pool!Fail, Pool!Rest
<1>1. ASSUME NEW k \in Kinds, NEW p \in Groups, Allocate(k, p)
      PROVE  Pool!Grant(k)
  <2>1. PICK g \in Groups, b \in Bits(k) :
            /\ b \notin bitmap[k][g]
            /\ bitmap' = Mark(k, g, b)
            /\ reply' = Granted(k, Number(k, g, b))
    BY <1>1, AllocateEffect
  <2>2. QED
    BY <2>1, MarkTakes DEF Granted, Pool!Granted
<1>2. ASSUME NEW k \in Kinds, NEW p \in Groups, AllocateIoError(k, p)
      PROVE  Pool!Fail(k)
  <2>1. reply' = Pool!Failed(k)
    BY <1>2 DEF AllocateIoError, Failed, Pool!Failed
  <2>2. CASE UNCHANGED bitmap
    BY <2>1, <2>2 DEF Taken
  <2>3. CASE \E g \in Groups, b \in Bits(k) :
                b \notin bitmap[k][g] /\ bitmap' = Mark(k, g, b)
    BY <2>1, <2>3, MarkTakes
  <2>4. QED
    BY <1>2, <2>2, <2>3, IoErrorEffect
<1>3. ASSUME NEW k \in Kinds, AllocateNone(k)
      PROVE  Pool!Refuse(k)
  <2>1. \A g \in Groups : Bits(k) \subseteq bitmap[k][g]
    BY <1>3, NotUsableIsFull DEF AllocateNone
  <2>2. Numbers(k) \subseteq Taken[k]
    BY <2>1 DEF Numbers, Taken, IsSet
  <2>3. QED
    BY <1>3, <2>2 DEF AllocateNone, disk, Taken, Exhausted, Pool!Exhausted
<1>4. CASE SyncSuper \/ Remount
  BY <1>4 DEF SyncSuper, Remount, disk, Taken, Silent, Pool!Silent
<1>5. CASE SyncGroup \/ SyncEnd \/ UNCHANGED vars
  BY <1>5 DEF SyncGroup, SyncEnd, disk, vars, Taken, Pool!vars
<1>6. QED
  BY <1>1, <1>2, <1>3, <1>4, <1>5 DEF Next

\* The allocator implements the pool: a number is granted at most once in the
\* life of a disk, and none is refused while one is left.
THEOREM AllocatorImplementsPool == Spec => PoolSpec
<1>1. TypeOK /\ CountsCoverFree /\ [Next]_vars => [Pool!Next]_(Pool!vars)
  BY PoolNext
<1>2. QED
  BY <1>1, PoolInit, TypeCorrect, CountsCorrect, PTL DEF Spec, PoolSpec, Pool!Spec

-----------------------------------------------------------------------------
(* Sums over groups.                                                       *)

\* What does not hold of 0 but of some number begins to hold somewhere.
LEMMA FirstFailure ==
    ASSUME NEW S \in SUBSET Nat, S # {}, 0 \notin S
    PROVE  \E m \in Nat : m + 1 \in S /\ m \notin S
<1>1. Min(S) \in S /\ \A y \in S : Min(S) <= y
  BY MinExists
<1>2. PICK n \in S : \A y \in S : n <= y
  BY <1>1
<1>3. n - 1 \in Nat /\ (n - 1) + 1 = n /\ n - 1 \notin S
  BY <1>2
<1>4. QED
  BY <1>3

\* The sums of the first groups, as far as m of them.
Sums(s, count, m) == s = [n \in 0..m |-> IF n = 0 THEN 0 ELSE s[n - 1] + count[n - 1]]

LEMMA SumsExist ==
    ASSUME NEW count, NEW top \in Nat
    PROVE  \E s : Sums(s, count, top)
<1> DEFINE Bad == {m \in Nat : ~ \E s : Sums(s, count, m)}
<1>1. SUFFICES ASSUME Bad # {} PROVE FALSE
  OBVIOUS
<1>2. 0 \notin Bad
  <2>1. Sums([n \in 0..0 |-> 0], count, 0)
    BY DEF Sums
  <2>2. QED
    BY <2>1
<1>3. PICK m \in Nat : m + 1 \in Bad /\ m \notin Bad
  <2>1. Bad \in SUBSET Nat
    OBVIOUS
  <2> HIDE DEF Bad
  <2>2. QED
    BY <1>1, <1>2, <2>1, FirstFailure
<1>4. PICK r : Sums(r, count, m)
  BY <1>3
<1> DEFINE step(n, x) == IF n = 0 THEN 0 ELSE x + count[n - 1]
           s == [n \in 0..(m + 1) |-> IF n <= m THEN r[n] ELSE step(m + 1, r[m])]
<1>5. r = [n \in 0..m |-> step(n, r[n - 1])]
  BY <1>4, Zenon DEF Sums
<1>6. \A x, y : step(0, x) = step(0, y)
  OBVIOUS
<1> HIDE DEF step
<1>7. \A n \in 0..(m + 1) : s[n] = step(n, s[n - 1])
  <2>1. \A n \in 0..m : s[n] = r[n] /\ r[n] = step(n, r[n - 1])
    BY <1>5
  <2>2. \A n \in 0..m : n # 0 => s[n] = step(n, s[n - 1])
    <3> HIDE DEF s
    <3>1. \A n \in 0..m : n # 0 => n - 1 \in 0..m
      OBVIOUS
    <3>2. QED
      BY <2>1, <3>1
  <2>3. s[0] = step(0, s[0 - 1])
    <3>1. 0 \in 0..m
      OBVIOUS
    <3> HIDE DEF s
    <3>2. QED
      BY <1>6, <2>1, <3>1
  <2>4. s[m + 1] = step(m + 1, r[m]) /\ s[m] = r[m] /\ (m + 1) - 1 = m
    OBVIOUS
  <2>5. \A n \in 0..(m + 1) : n \in 0..m \/ n = m + 1
    OBVIOUS
  <2> HIDE DEF s
  <2>6. QED
    BY <2>2, <2>3, <2>4, <2>5
<1>8. s = [n \in 0..(m + 1) |-> s[n]]
  OBVIOUS
<1> HIDE DEF s
<1>9. s = [n \in 0..(m + 1) |-> step(n, s[n - 1])]
  BY <1>7, <1>8
<1>10. Sums(s, count, m + 1)
  BY <1>9, Zenon DEF Sums, step
<1>11. QED
  BY <1>3, <1>10

\* Partial sums that add up to SumOver(count).
Adds(s, count) ==
    /\ s \in [0..NumGroups -> Nat]
    /\ s[0] = 0
    /\ \A n \in Groups : s[n + 1] = s[n] + count[n]
    /\ SumOver(count) = s[NumGroups]

LEMMA SumAdds ==
    ASSUME NEW count \in [Groups -> Nat]
    PROVE  \E s : Adds(s, count)
<1> DEFINE s == CHOOSE r : Sums(r, count, NumGroups)
<1>1. SumOver(count) = s[NumGroups]
  BY Zenon DEF SumOver, Sums
<1>2. NumGroups \in Nat
  BY GeometryAssumption
<1>3. Sums(s, count, NumGroups)
  BY <1>2, SumsExist
<1> HIDE DEF s
<1>4. s[0] = 0 /\ \A n \in Groups : n \in 0..NumGroups /\ s[n + 1] = s[n] + count[n]
  BY <1>2, <1>3 DEF Sums, Groups
<1>5. s \in [0..NumGroups -> Nat]
  <2> DEFINE Bad == {n \in Nat : n \in 0..NumGroups /\ s[n] \notin Nat}
  <2>1. SUFFICES ASSUME Bad # {} PROVE FALSE
    BY <1>3 DEF Sums
  <2>2. Bad \in SUBSET Nat /\ 0 \notin Bad
    BY <1>4
  <2>3. PICK m \in Nat : m + 1 \in Bad /\ m \notin Bad
    <3> HIDE DEF Bad
    <3>1. QED
      BY <2>1, <2>2, FirstFailure
  <2>4. m \in Groups /\ m \in 0..NumGroups
    BY <1>2, <2>3 DEF Groups
  <2>5. s[m + 1] = s[m] + count[m]
    BY <1>4, <2>4
  <2>6. QED
    BY <2>3, <2>4, <2>5
<1>6. QED
  BY <1>1, <1>4, <1>5 DEF Adds

LEMMA SumType ==
    ASSUME NEW count \in [Groups -> Nat]
    PROVE  SumOver(count) \in Nat
<1>1. PICK s : Adds(s, count)
  BY SumAdds
<1>2. NumGroups \in 0..NumGroups
  BY GeometryAssumption
<1>3. QED
  BY <1>1, <1>2 DEF Adds

\* Nowhere more, then not more in all.
LEMMA SumMonotone ==
    ASSUME NEW a \in [Groups -> Nat], NEW b \in [Groups -> Nat], \A g \in Groups : a[g] <= b[g]
    PROVE  SumOver(a) <= SumOver(b)
<1>1. PICK s : Adds(s, a)
  BY SumAdds
<1>2. PICK t : Adds(t, b)
  BY SumAdds
<1> DEFINE Bad == {n \in Nat : n \in 0..NumGroups /\ ~ s[n] <= t[n]}
<1>3. SUFFICES ASSUME Bad # {} PROVE FALSE
  <2>1. NumGroups \in Nat /\ NumGroups \in 0..NumGroups /\ NumGroups \notin Bad
    BY <1>3, GeometryAssumption
  <2>2. SumOver(a) = s[NumGroups] /\ SumOver(b) = t[NumGroups]
    BY <1>1, <1>2 DEF Adds
  <2>3. QED
    BY <2>1, <2>2
<1>4. Bad \in SUBSET Nat /\ 0 \notin Bad
  BY <1>1, <1>2 DEF Adds
<1>5. PICK m \in Nat : m + 1 \in Bad /\ m \notin Bad
  <2> HIDE DEF Bad
  <2>1. QED
    BY <1>3, <1>4, FirstFailure
<1>6. m \in Groups /\ m \in 0..NumGroups /\ s[m] <= t[m]
  BY <1>5, GeometryAssumption DEF Groups
<1>7. s[m + 1] = s[m] + a[m] /\ t[m + 1] = t[m] + b[m] /\ s[m] \in Nat /\ t[m] \in Nat
  BY <1>1, <1>2, <1>6 DEF Adds
<1>8. QED
  BY <1>5, <1>6, <1>7

\* What changes in one group changes in the sum.
LEMMA SumChange ==
    ASSUME NEW a \in [Groups -> Nat], NEW b \in [Groups -> Nat], NEW g \in Groups,
           \A h \in Groups \ {g} : b[h] = a[h]
    PROVE  SumOver(b) = SumOver(a) + b[g] - a[g]
<1>1. PICK s : Adds(s, a)
  BY SumAdds
<1>2. PICK t : Adds(t, b)
  BY SumAdds
<1> DEFINE moved(n) == IF n <= g THEN 0 ELSE b[g] - a[g]
           Bad == {n \in Nat : n \in 0..NumGroups /\ t[n] # s[n] + moved(n)}
<1>3. NumGroups \in Nat /\ g \in Nat /\ g < NumGroups
  BY GeometryAssumption DEF Groups
<1>4. SUFFICES ASSUME Bad # {} PROVE FALSE
  <2>1. SumOver(b) = SumOver(a) + (b[g] - a[g])
    <3>1. NumGroups \in 0..NumGroups /\ NumGroups \notin Bad
      BY <1>3, <1>4
    <3>2. SumOver(a) = s[NumGroups] /\ SumOver(b) = t[NumGroups]
      BY <1>1, <1>2 DEF Adds
    <3>3. moved(NumGroups) = b[g] - a[g]
      BY <1>3
    <3> HIDE DEF moved
    <3>4. QED
      BY <1>3, <3>1, <3>2, <3>3
  <2>2. SumOver(a) \in Nat /\ a[g] \in Nat /\ b[g] \in Nat
    BY SumType
  <2>3. QED
    BY <2>1, <2>2
<1>5. Bad \in SUBSET Nat /\ 0 \notin Bad
  BY <1>1, <1>2, <1>3 DEF Adds
<1>6. PICK m \in Nat : m + 1 \in Bad /\ m \notin Bad
  <2> HIDE DEF Bad
  <2>1. QED
    BY <1>4, <1>5, FirstFailure
<1>7. m \in Groups /\ m \in 0..NumGroups /\ t[m] = s[m] + moved(m)
  BY <1>3, <1>6 DEF Groups
<1>8. /\ s[m + 1] = s[m] + a[m] /\ t[m + 1] = t[m] + b[m]
      /\ s[m] \in Nat /\ t[m] \in Nat /\ a[m] \in Nat /\ b[m] \in Nat
  BY <1>1, <1>2, <1>7 DEF Adds
<1>9. t[m + 1] # s[m + 1] + moved(m + 1)
  BY <1>6
<1>10. CASE m = g
  BY <1>3, <1>7, <1>8, <1>9, <1>10
<1>11. CASE m # g
  <2>1. b[m] = a[m]
    BY <1>7, <1>11
  <2>2. moved(m + 1) = moved(m)
    BY <1>3, <1>7, <1>11
  <2>3. moved(m) \in Int
    <3>1. a[g] \in Nat /\ b[g] \in Nat
      OBVIOUS
    <3>2. QED
      BY <3>1
  <2> HIDE DEF moved
  <2>4. QED
    BY <1>7, <1>8, <1>9, <2>1, <2>2, <2>3
<1>12. QED
  BY <1>10, <1>11

LEMMA SumConstant ==
    ASSUME NEW c \in Nat
    PROVE  SumOver([g \in Groups |-> c]) = NumGroups * c
<1> DEFINE a == [g \in Groups |-> c]
<1>1. a \in [Groups -> Nat] /\ \A g \in Groups : a[g] = c
  OBVIOUS
<1> HIDE DEF a
<1>2. PICK s : Adds(s, a)
  BY <1>1, SumAdds
<1> DEFINE Bad == {n \in Nat : n \in 0..NumGroups /\ s[n] # n * c}
<1>3. SUFFICES ASSUME Bad # {} PROVE FALSE
  <2>1. NumGroups \in Nat /\ NumGroups \in 0..NumGroups /\ NumGroups \notin Bad
    BY <1>3, GeometryAssumption
  <2>2. SumOver(a) = s[NumGroups]
    BY <1>2 DEF Adds
  <2>3. SumOver(a) = NumGroups * c
    BY <2>1, <2>2
  <2>4. QED
    BY <2>3 DEF a
<1>4. Bad \in SUBSET Nat /\ 0 \notin Bad
  BY <1>2 DEF Adds
<1>5. PICK m \in Nat : m + 1 \in Bad /\ m \notin Bad
  <2> HIDE DEF Bad
  <2>1. QED
    BY <1>3, <1>4, FirstFailure
<1>6. m \in Groups /\ m \in 0..NumGroups /\ s[m] = m * c
  BY <1>5, GeometryAssumption DEF Groups
<1>7. s[m + 1] = m * c + c
  BY <1>1, <1>2, <1>6 DEF Adds
<1>8. (m + 1) * c = m * c + c
  OBVIOUS
<1>9. QED
  BY <1>5, <1>7, <1>8

\* No group has more than all of them.
LEMMA SumCovers ==
    ASSUME NEW a \in [Groups -> Nat], NEW g \in Groups
    PROVE  a[g] <= SumOver(a)
<1> DEFINE zero == [h \in Groups |-> 0]
           b == [h \in Groups |-> IF h = g THEN a[g] ELSE 0]
<1>1. zero \in [Groups -> Nat] /\ b \in [Groups -> Nat] /\ a[g] \in Nat
  OBVIOUS
<1>2. SumOver(zero) = 0
  <2>1. NumGroups * 0 = 0
    BY GeometryAssumption
  <2>2. QED
    BY <2>1, SumConstant
<1>3. b[g] = a[g] /\ zero[g] = 0 /\ \A h \in Groups \ {g} : b[h] = zero[h]
  OBVIOUS
<1>4. \A h \in Groups : b[h] <= a[h]
  OBVIOUS
<1> HIDE DEF zero, b
<1>5. SumOver(b) = SumOver(zero) + b[g] - zero[g]
  BY <1>1, <1>3, SumChange
<1>6. SumOver(b) <= SumOver(a)
  BY <1>1, <1>4, SumMonotone
<1>7. QED
  BY <1>1, <1>2, <1>3, <1>5, <1>6

-----------------------------------------------------------------------------
(* The superblock's counts.                                                *)

\* The free counts of the groups, counted and as they are kept.
FreeIn(map, k) == [g \in Groups |-> CountFree(map[k][g], PerGroup(k))]
KeptIn(count, k) == [g \in Groups |-> count[g][k]]

LEMMA SumsOfCounts ==
    ASSUME TypeOK, NEW k \in Kinds
    PROVE  /\ FreeIn(bitmap, k) \in [Groups -> Nat]
           /\ KeptIn(memGroup, k) \in [Groups -> Nat]
           /\ KeptIn(diskGroup, k) \in [Groups -> Nat]
<1>1. \A g \in Groups : CountFree(bitmap[k][g], PerGroup(k)) \in Nat
  BY PerGroupType, CountFreeType
<1>2. QED
  BY <1>1 DEF TypeOK, FreeIn, KeptIn

\* What SuperBetween needs to be inductive: only sync_metadata lowers the
\* superblock's count on disk, to the cached one, and while it runs the two
\* are the same.
Stale(k) ==
    /\ SumOver(FreeIn(bitmap, k)) <= memSuper[k]
    /\ memSuper[k] <= diskSuper[k]
    /\ memSuper[k] <= SumOver(KeptIn(memGroup, k))
    /\ diskSuper[k] <= SumOver(KeptIn(diskGroup, k))
    /\ sync # 0 => diskSuper[k] = memSuper[k]

LEMMA StaleIsBetween == (\A k \in Kinds : Stale(k)) => SuperBetween
BY DEF Stale, SuperBetween, FreeIn, KeptIn

LEMMA StaleInit == Init => \A k \in Kinds : Stale(k)
<1> SUFFICES ASSUME Init, NEW k \in Kinds PROVE Stale(k)
  OBVIOUS
<1>1. TypeOK
  BY TypeInit
<1>2. SumOver(KeptIn(diskGroup, k)) = diskSuper[k]
  BY DEF Init, KeptIn
<1>3. \A g \in Groups : diskGroup[g][k] = CountFree(bitmap[k][g], PerGroup(k))
  BY DEF Init
<1>4. FreeIn(bitmap, k) = KeptIn(diskGroup, k)
  BY <1>3 DEF FreeIn, KeptIn
<1>5. diskSuper[k] \in Nat
  BY <1>1 DEF TypeOK
<1>6. QED
  BY <1>2, <1>4, <1>5 DEF Init, Stale

\* Marking a bit takes one from the sum of the clear bits.
LEMMA MarkLowersSum ==
    ASSUME TypeOK, TypeOK', NEW k \in Kinds, NEW g \in Groups,
           NEW b \in Bits(k), b \notin bitmap[k][g], bitmap' = Mark(k, g, b), NEW l \in Kinds
    PROVE  /\ SumOver(FreeIn(bitmap', l)) =
                SumOver(FreeIn(bitmap, l)) - (IF l = k THEN 1 ELSE 0)
           /\ l = k => FreeIn(bitmap, l)[g] > 0
<1>1. PICK free, less : free = FreeIn(bitmap, l) /\ less = FreeIn(bitmap', l)
  OBVIOUS
<1>2. free \in [Groups -> Nat]
  BY <1>1, SumsOfCounts
<1>3. \A h \in Groups : less[h] = free[h] - (IF l = k /\ h = g THEN 1 ELSE 0)
  <2>1. ASSUME NEW h \in Groups
        PROVE  CountFree(Mark(k, g, b)[l][h], PerGroup(l)) =
                 CountFree(bitmap[l][h], PerGroup(l)) - (IF l = k /\ h = g THEN 1 ELSE 0)
    BY MarkLowersCount
  <2>2. QED
    BY <1>1, <2>1 DEF FreeIn
<1>4. less \in [Groups -> Nat]
  <2>1. FreeIn(bitmap, l)' \in [Groups -> Nat]
    <3>1. \A h \in Groups : CountFree(bitmap'[l][h], PerGroup(l)) \in Nat
      BY PerGroupType, CountFreeType
    <3>2. QED
      BY <3>1 DEF FreeIn
  <2>2. FreeIn(bitmap, l)' = FreeIn(bitmap', l)
    BY DEF FreeIn
  <2>3. QED
    BY <1>1, <2>1, <2>2
<1>5. free[g] \in Nat /\ less[g] \in Nat
  BY <1>2, <1>4
<1>6. \A h \in Groups \ {g} : less[h] = free[h]
  BY <1>2, <1>3
<1>7. SumOver(less) = SumOver(free) + less[g] - free[g]
  BY <1>2, <1>4, <1>6, SumChange
<1>8. SumOver(free) \in Nat
  BY <1>2, SumType
<1>9. less[g] = free[g] - (IF l = k THEN 1 ELSE 0)
  BY <1>3
<1>10. QED
  BY <1>1, <1>5, <1>7, <1>8, <1>9

LEMMA StaleNext ==
    TypeOK /\ CountsCoverFree /\ (\A k \in Kinds : Stale(k)) /\ [Next]_vars
        => \A k \in Kinds : Stale(k)'
<1> SUFFICES ASSUME TypeOK, CountsCoverFree, \A k \in Kinds : Stale(k), [Next]_vars,
                    NEW l \in Kinds
             PROVE  Stale(l)'
  OBVIOUS
<1>1. TypeOK' /\ CountsCoverFree'
  BY TypeNext, CountsNext
<1>2. PICK free, mem, kept : /\ free = SumOver(FreeIn(bitmap, l))
                             /\ mem = SumOver(KeptIn(memGroup, l))
                             /\ kept = SumOver(KeptIn(diskGroup, l))
  OBVIOUS
<1>3. free \in Nat /\ mem \in Nat /\ kept \in Nat
  BY <1>2, SumsOfCounts, SumType
<1>4. memSuper[l] \in Nat /\ diskSuper[l] \in Nat
  BY DEF TypeOK
<1>5. /\ free <= memSuper[l] /\ memSuper[l] <= diskSuper[l]
      /\ memSuper[l] <= mem /\ diskSuper[l] <= kept
      /\ sync # 0 => diskSuper[l] = memSuper[l]
  BY <1>2 DEF Stale
<1>6. mem <= kept
  <2>1. \A g \in Groups : KeptIn(memGroup, l)[g] <= KeptIn(diskGroup, l)[g]
    BY DEF CountsCoverFree, KeptIn
  <2>2. PICK a, b : a = KeptIn(memGroup, l) /\ b = KeptIn(diskGroup, l)
    OBVIOUS
  <2>3. a \in [Groups -> Nat] /\ b \in [Groups -> Nat] /\ \A g \in Groups : a[g] <= b[g]
    BY <2>1, <2>2, SumsOfCounts
  <2>4. QED
    BY <1>2, <2>2, <2>3, SumMonotone
<1>7. ASSUME NEW k \in Kinds, NEW p \in Groups, Allocate(k, p)
      PROVE  Stale(l)'
  <2>1. PICK g \in Groups, b \in Bits(k) :
             /\ b \notin bitmap[k][g]
             /\ bitmap' = Mark(k, g, b)
             /\ memGroup' = [memGroup EXCEPT ![g][k] = SaturatingPred(@)]
    BY <1>7, AllocateEffect
  <2>2. SumOver(FreeIn(bitmap', l)) = free - (IF l = k THEN 1 ELSE 0)
    BY <1>1, <1>2, <2>1, MarkLowersSum
  <2>3. /\ memSuper' = [memSuper EXCEPT ![k] = SaturatingPred(@)]
        /\ sync = 0 /\ UNCHANGED <<diskGroup, diskSuper, sync>>
    BY <1>7 DEF Allocate
  <2>4. PICK a, b2 : a = KeptIn(memGroup, l) /\ b2 = KeptIn(memGroup', l)
    OBVIOUS
  <2>5. a \in [Groups -> Nat] /\ b2 \in [Groups -> Nat]
    <3>1. memGroup' \in [Groups -> [Kinds -> Nat]]
      BY <1>1 DEF TypeOK
    <3>2. QED
      BY <2>4, <3>1, SumsOfCounts DEF KeptIn
  <2>6. \A h \in Groups \ {g} : b2[h] = a[h]
    BY <2>1, <2>4 DEF TypeOK, KeptIn
  <2>7. b2[g] = IF l = k THEN SaturatingPred(a[g]) ELSE a[g]
    BY <2>1, <2>4 DEF TypeOK, KeptIn
  <2>8. SumOver(b2) = SumOver(a) + b2[g] - a[g]
    BY <2>5, <2>6, SumChange
  <2>9. CASE l = k
    <3>1. FreeIn(bitmap, l)[g] > 0 /\ FreeIn(bitmap, l)[g] <= a[g]
      <4>1. FreeIn(bitmap, l)[g] > 0
        BY <1>1, <2>1, <2>9, MarkLowersSum
      <4>2. FreeIn(bitmap, l)[g] <= a[g]
        BY <2>4 DEF FreeIn, KeptIn, CountsCoverFree
      <4>3. QED
        BY <4>1, <4>2
    <3>2. a[g] \in Nat /\ b2[g] \in Nat /\ FreeIn(bitmap, l)[g] \in Nat
      BY <2>5, SumsOfCounts
    <3>3. b2[g] = a[g] - 1
      BY <2>7, <2>9, <3>1, <3>2 DEF SaturatingPred
    <3>4. SumOver(KeptIn(memGroup', l)) = mem - 1
      BY <1>2, <1>3, <2>4, <2>8, <3>2, <3>3
    <3>5. free >= 1
      <4>1. SumOver(FreeIn(bitmap', l)) \in Nat
        <5>1. (FreeIn(bitmap, l) \in [Groups -> Nat])'
          BY <1>1, PerGroupType, CountFreeType DEF FreeIn
        <5>2. PICK z : z = FreeIn(bitmap', l)
          OBVIOUS
        <5>3. z \in [Groups -> Nat]
          BY <5>1, <5>2 DEF FreeIn
        <5>4. QED
          BY <5>2, <5>3, SumType
      <4>2. QED
        BY <1>3, <2>2, <2>9, <4>1
    <3>6. memSuper'[l] = memSuper[l] - 1
      BY <1>3, <1>4, <1>5, <2>3, <2>9, <3>5 DEF TypeOK, SaturatingPred
    <3>7. SumOver(KeptIn(diskGroup', l)) = kept /\ diskSuper'[l] = diskSuper[l] /\ sync' = 0
      BY <1>2, <2>3
    <3>8. QED
      BY <1>3, <1>4, <1>5, <2>2, <2>9, <3>4, <3>6, <3>7 DEF Stale, FreeIn, KeptIn
  <2>10. CASE l # k
    <3>1. a[g] \in Nat
      BY <2>5
    <3>2. SumOver(KeptIn(memGroup', l)) = mem
      BY <1>2, <1>3, <2>4, <2>7, <2>8, <2>10, <3>1
    <3>3. memSuper'[l] = memSuper[l]
      BY <2>3, <2>10 DEF TypeOK
    <3>4. SumOver(FreeIn(bitmap', l)) = free
      BY <1>3, <2>2, <2>10
    <3>5. SumOver(KeptIn(diskGroup', l)) = kept /\ diskSuper'[l] = diskSuper[l] /\ sync' = 0
      BY <1>2, <2>3
    <3>6. QED
      BY <1>5, <3>2, <3>3, <3>4, <3>5 DEF Stale, FreeIn, KeptIn
  <2>11. QED
    BY <2>9, <2>10
<1>8. ASSUME NEW k \in Kinds, NEW p \in Groups, AllocateIoError(k, p)
      PROVE  Stale(l)'
  <2>1. sync = 0 /\ UNCHANGED <<memGroup, diskGroup, memSuper, diskSuper, sync>>
    BY <1>8 DEF AllocateIoError, counts
  <2>2. /\ SumOver(KeptIn(memGroup', l)) = mem
        /\ SumOver(KeptIn(diskGroup', l)) = kept
    BY <1>2, <2>1
  <2>3. SumOver(FreeIn(bitmap', l)) <= free
    <3>1. CASE UNCHANGED bitmap
      BY <1>2, <1>3, <3>1
    <3>2. CASE \E g \in Groups, b \in Bits(k) :
                    b \notin bitmap[k][g] /\ bitmap' = Mark(k, g, b)
      <4>1. PICK g \in Groups, b \in Bits(k) :
                    b \notin bitmap[k][g] /\ bitmap' = Mark(k, g, b)
        BY <3>2
      <4>2. SumOver(FreeIn(bitmap', l)) = free - (IF l = k THEN 1 ELSE 0)
        BY <1>1, <1>2, <4>1, MarkLowersSum
      <4>3. QED
        BY <1>3, <4>2
    <3>3. QED
      BY <1>8, <3>1, <3>2, IoErrorEffect
  <2>4. SumOver(FreeIn(bitmap', l)) \in Nat
    <3>1. (FreeIn(bitmap, l) \in [Groups -> Nat])'
      BY <1>1, PerGroupType, CountFreeType DEF FreeIn
    <3>2. PICK z : z = FreeIn(bitmap', l)
      OBVIOUS
    <3>3. z \in [Groups -> Nat]
      BY <3>1, <3>2 DEF FreeIn
    <3>4. QED
      BY <3>2, <3>3, SumType
  <2>5. SumOver(FreeIn(bitmap', l)) <= memSuper[l]
    BY <1>3, <1>4, <1>5, <2>3, <2>4
  <2>6. QED
    BY <1>5, <2>1, <2>2, <2>5 DEF Stale, FreeIn, KeptIn
<1>9. CASE SyncSuper
  <2>1. /\ diskSuper' = memSuper
        /\ UNCHANGED <<bitmap, diskGroup, memGroup, memSuper>>
    BY <1>9 DEF SyncSuper, counts
  <2>2. /\ SumOver(FreeIn(bitmap', l)) = free
        /\ SumOver(KeptIn(memGroup', l)) = mem
        /\ SumOver(KeptIn(diskGroup', l)) = kept
    BY <1>2, <2>1
  <2>3. QED
    BY <1>3, <1>4, <1>5, <1>6, <2>1, <2>2 DEF Stale, FreeIn, KeptIn
<1>10. CASE SyncGroup
  <2>1. sync # 0 /\ UNCHANGED <<bitmap, diskSuper, memGroup, memSuper>>
    BY <1>10 DEF SyncGroup, counts
  <2>2. /\ SumOver(FreeIn(bitmap', l)) = free
        /\ SumOver(KeptIn(memGroup', l)) = mem
    BY <1>2, <2>1
  <2>3. PICK a, b : a = KeptIn(memGroup, l) /\ b = KeptIn(diskGroup', l)
    OBVIOUS
  <2>4. a \in [Groups -> Nat] /\ b \in [Groups -> Nat]
    <3>1. diskGroup' \in [Groups -> [Kinds -> Nat]]
      BY <1>1 DEF TypeOK
    <3>2. QED
      BY <2>3, <3>1, SumsOfCounts DEF KeptIn
  <2>5. \A g \in Groups : a[g] <= b[g]
    BY <1>1, <2>1, <2>3 DEF CountsCoverFree, KeptIn
  <2>6. SumOver(a) <= SumOver(b) /\ SumOver(b) \in Nat
    BY <2>4, <2>5, SumMonotone, SumType
  <2>7. mem <= SumOver(KeptIn(diskGroup', l))
    BY <1>2, <2>3, <2>6
  <2>8. SumOver(KeptIn(diskGroup', l)) \in Nat
    BY <2>3, <2>6
  <2>9. diskSuper[l] = memSuper[l]
    BY <1>5, <2>1
  <2>10. diskSuper[l] <= SumOver(KeptIn(diskGroup', l))
    BY <1>3, <1>4, <1>5, <2>7, <2>8, <2>9
  <2>11. QED
    BY <1>5, <2>1, <2>2, <2>9, <2>10 DEF Stale, FreeIn, KeptIn
<1>11. CASE Remount
  <2>1. /\ memGroup' = diskGroup /\ memSuper' = diskSuper /\ sync' = 0
        /\ UNCHANGED <<bitmap, diskGroup, diskSuper>>
    BY <1>11 DEF Remount, disk
  <2>2. /\ SumOver(FreeIn(bitmap', l)) = free
        /\ SumOver(KeptIn(memGroup', l)) = kept
        /\ SumOver(KeptIn(diskGroup', l)) = kept
    BY <1>2, <2>1
  <2>3. QED
    BY <1>3, <1>4, <1>5, <2>1, <2>2 DEF Stale, FreeIn, KeptIn
<1>12. CASE /\ UNCHANGED <<bitmap, diskGroup, diskSuper, memGroup, memSuper>>
            /\ sync' = 0 \/ sync' = sync
  <2>1. Stale(l)
    OBVIOUS
  <2>2. QED
    BY <1>12, <2>1 DEF Stale, FreeIn, KeptIn
<1>13. ASSUME (\E k \in Kinds : AllocateNone(k)) \/ SyncEnd \/ UNCHANGED vars
       PROVE  /\ UNCHANGED <<bitmap, diskGroup, diskSuper, memGroup, memSuper>>
              /\ sync' = 0 \/ sync' = sync
  BY <1>13 DEF AllocateNone, SyncEnd, disk, counts, vars
<1>14. QED
  BY <1>7, <1>8, <1>9, <1>10, <1>11, <1>12, <1>13 DEF Next

\* The superblock's count is never below what is free nor above what the groups
\* add up to, in the handle and on disk, wherever an allocation, a crash or a
\* sync_metadata is cut short.
THEOREM SuperCountsCorrect == Spec => []SuperBetween
<1> DEFINE IInv == TypeOK /\ CountsCoverFree /\ \A k \in Kinds : Stale(k)
<1>1. Init => IInv
  BY TypeInit, CountsInit, StaleInit
<1>2. IInv /\ [Next]_vars => IInv'
  BY TypeNext, CountsNext, StaleNext
<1>3. IInv => SuperBetween
  BY StaleIsBetween
<1>4. QED
  BY <1>1, <1>2, <1>3, PTL DEF Spec

-----------------------------------------------------------------------------
(* Descriptors refines Allocator.                                          *)

LEMMA DescriptorsSteps == [DescriptorsNext]_allVars => [Next]_vars
<1> SUFFICES ASSUME [DescriptorsNext]_allVars
             PROVE  [Next]_vars
  OBVIOUS
<1>1. CASE \E k \in Kinds, preferred \in Groups : AllocateOther(k, preferred)
  BY <1>1 DEF AllocateOther, AllocateBytes, Next
<1>2. CASE AllocateFails
  BY <1>2 DEF AllocateFails, Next
<1>3. CASE \E p \in Groups : BeginMkdir(p)
  BY <1>3 DEF BeginMkdir, AllocateBytes, Next, Kinds
<1>4. CASE EndMkdir
  BY <1>4 DEF EndMkdir
<1>5. CASE SyncSuperBytes \/ SyncGroupBytes \/ SyncEndBytes \/ RemountBytes
  BY <1>5 DEF SyncSuperBytes, SyncGroupBytes, SyncEndBytes, RemountBytes, Next
<1>6. CASE UNCHANGED allVars
  BY <1>6 DEF allVars
<1>7. QED
  BY <1>1, <1>2, <1>3, <1>4, <1>5, <1>6 DEF DescriptorsNext

\* What is proved of Allocator's counts holds with their bytes: every behaviour
\* with descriptors, a superblock and mkdir's counting is one of Allocator.
THEOREM DescriptorsImplementAllocator == DescriptorsSpec => Spec
<1>1. DescriptorsInit => Init
  BY DEF DescriptorsInit
<1>2. QED
  BY <1>1, DescriptorsSteps, PTL DEF DescriptorsSpec, Spec

-----------------------------------------------------------------------------
(* The invariant.                                                          *)

\* The counts fit in their fields.
Fits ==
    \A k \in Kinds :
        /\ memSuper[k] <= MaxTotal /\ diskSuper[k] <= MaxTotal
        /\ \A g \in Groups : memGroup[g][k] <= PerGroup(k) /\ diskGroup[g][k] <= PerGroup(k)

\* The descriptors' fields that BytesAgree is about.
Stable == Kinds \cup {"table"}

\* A descriptor that is written in 32 bytes has no high halves to lose.
Descriptor(desc) ==
    /\ DOMAIN desc = {"lo", "hi"} /\ DOMAIN desc.lo = Fields /\ DOMAIN desc.hi = Fields
    /\ ~ format.is64 => \A f \in Stable : desc.hi[f] = 0

SuperFields == {"blocks_lo", "blocks_hi", "inodes", "is64", "desc_size", "rest"}

\* The shapes of what is stored, and the format of the image in both copies of
\* the superblock.
Shapes ==
    /\ format \in Formats
    /\ DOMAIN table = 0..((IF format.is64 THEN 2 ELSE 1) * NumGroups - 1)
    /\ \A u \in DOMAIN table : DOMAIN table[u] = Fields
    /\ DOMAIN groups = Groups
    /\ \A g \in Groups : Descriptor(groups[g])
    /\ DOMAIN super = SuperFields \cup {"unparsed"} /\ DOMAIN sb = SuperFields
    /\ super.is64 = format.is64 /\ super.desc_size = format.desc_size
    /\ sb.is64 = format.is64 /\ sb.desc_size = format.desc_size

Units == IF format.is64 THEN 2 ELSE 1

LEMMA StrideIs ==
    ASSUME Shapes
    PROVE  Stride(super) = Units /\ Stride(sb) = Units
<1>1. /\ format.is64 \in BOOLEAN
      /\ format.desc_size \in IF format.is64 THEN {64} ELSE {0, 32, 64}
  BY FormatAssumption DEF Shapes
<1>2. 64 \div 32 = 2
  OBVIOUS
<1>3. QED
  BY <1>1, <1>2 DEF Shapes, Stride, Units

\* What a field of a descriptor on disk must stay below.
Bound(f) == IF format.is64 THEN Width(f) * Width(f) ELSE Width(f)

LEMMA Format ==
    ASSUME format \in Formats
    PROVE  /\ format.is64 \in BOOLEAN
           /\ \A f \in Fields : Width(f) \in Nat \ {0}
           /\ Width("dirs") = format.base /\ Width("table") = SuperBase
           /\ \A k \in Kinds : Width(k) = format.base /\ PerGroup(k) < Bound(k)
<1>1. /\ format.is64 \in BOOLEAN /\ format.base \in Nat
      /\ \A k \in Kinds : PerGroup(k) <
            IF format.is64 THEN format.base * format.base ELSE format.base
  BY FormatAssumption
<1>2. \A k \in Kinds : Width(k) = format.base /\ PerGroup(k) < Bound(k)
  BY <1>1 DEF Width, Bound, Kinds
<1>3. format.base # 0
  <2>1. PerGroup("block") \in Nat
    BY PerGroupType DEF Kinds
  <2>2. PerGroup("block") < IF format.is64 THEN format.base * format.base ELSE format.base
    BY <1>1 DEF Kinds
  <2>3. ~ (PerGroup("block") < 0) /\ 0 * 0 = 0
    BY <2>1
  <2>4. QED
    BY <2>2, <2>3
<1>4. SuperBase \in Nat \ {0}
  BY FormatAssumption, GeometryAssumption
<1>5. QED
  BY <1>1, <1>2, <1>3, <1>4 DEF Width, Fields, Kinds

\* A number that fits is put together again from its halves.
LEMMA StoredNumber ==
    ASSUME format \in Formats, NEW f \in Fields, NEW n \in Nat, n < Width(f) * Width(f)
    PROVE  /\ Lo(f, n) + Width(f) * Hi(f, n) = n
           /\ Lo(f, n) \in Nat /\ Hi(f, n) \in Nat
           /\ n < Width(f) => Hi(f, n) = 0
<1>1. PICK w : w = Width(f)
  OBVIOUS
<1>2. w \in Nat \ {0}
  BY <1>1, Format
<1>3. (n % w) + w * (n \div w) = n /\ n % w \in Nat /\ n \div w \in Nat
  BY <1>2, Halves
<1>4. (n \div w) % w = n \div w
  BY <1>1, <1>2, HighHalf
<1>5. n < w => n \div w = 0
  BY <1>2, Halves
<1>6. QED
  BY <1>1, <1>3, <1>4, <1>5 DEF Lo, Hi

\* A number within the bound of its field has no high half on disk.
LEMMA StoredWhole ==
    ASSUME format \in Formats, NEW f \in Fields, NEW n \in Nat, n < Bound(f)
    PROVE  /\ Lo(f, n) + Width(f) * Hi(f, n) = n
           /\ Lo(f, n) \in Nat /\ Hi(f, n) \in Nat
           /\ ~ format.is64 => Hi(f, n) = 0
<1>1. PICK w : w = Width(f)
  OBVIOUS
<1>2. w \in Nat \ {0} /\ n < IF format.is64 THEN w * w ELSE w
  BY <1>1, Format DEF Bound
<1>3. w <= w * w
  <2>1. PICK e \in Nat : w = e + 1
    <3>1. w - 1 \in Nat /\ w = (w - 1) + 1
      BY <1>2
    <3>2. QED
      BY <3>1
  <2>2. (e + 1) * (e + 1) = e * e + 2 * e + 1 /\ e * e \in Nat
    BY <2>1
  <2>3. QED
    BY <2>1, <2>2
<1>4. n < w * w
  <2>1. w * w \in Nat
    BY <1>2
  <2>2. QED
    BY <1>2, <1>3, <2>1
<1>5. QED
  BY <1>1, <1>2, <1>4, StoredNumber

LEMMA LocationFits ==
    ASSUME format \in Formats, NEW g \in Groups
    PROVE  Location(g) \in Nat /\ Location(g) < Bound("table")
<1>1. PICK b : b = SuperBase
  OBVIOUS
<1>2. g \in Nat /\ g < b /\ b \in Nat /\ b > 1 /\ Width("table") = b
  BY <1>1, Format, FormatAssumption, GeometryAssumption DEF Groups
<1>3. CASE format.is64
  <2>1. PICK e \in Nat : b = e + 2
    <3>1. b - 2 \in Nat /\ b = (b - 2) + 2
      BY <1>2
    <3>2. QED
      BY <3>1
  <2>2. b * b = e * b + 2 * b /\ e * b \in Nat
    BY <1>2, <2>1
  <2>3. b + g \in Nat /\ b + g < b * b
    BY <1>2, <2>2
  <2>4. QED
    BY <1>1, <1>2, <1>3, <2>3 DEF Location, Bound
<1>4. CASE ~ format.is64
  BY <1>1, <1>2, <1>4 DEF Location, Bound
<1>5. QED
  BY <1>3, <1>4

\* A count is stored in a descriptor, and nothing else in it changes.
LEMMA CountSet ==
    ASSUME format \in Formats, NEW desc, Descriptor(desc), NEW c \in Fields \ {"table"}, NEW n
    PROVE  LET set == SetCount(desc, c, n)
           IN  /\ c \in Kinds /\ n \in Nat /\ n <= PerGroup(c) =>
                    Descriptor(set) /\ Joined(set, c) = n
               /\ c = "dirs" => Descriptor(set)
               /\ set.lo[c] = Lo(c, n) /\ set.hi[c] = Hi(c, n)
               /\ \A f \in Fields \ {c} : set.lo[f] = desc.lo[f] /\ set.hi[f] = desc.hi[f]
               /\ \A f \in Fields \ {c} : Joined(set, f) = Joined(desc, f)
<1> DEFINE set == SetCount(desc, c, n)
<1>1. /\ DOMAIN set = {"lo", "hi"}
      /\ set.lo = [desc.lo EXCEPT ![c] = Lo(c, n)] /\ set.hi = [desc.hi EXCEPT ![c] = Hi(c, n)]
  <2>1. set = [[desc EXCEPT !["lo"] = [desc.lo EXCEPT ![c] = Lo(c, n)]]
                    EXCEPT !["hi"] = [desc.hi EXCEPT ![c] = Hi(c, n)]]
    BY DEF SetCount, Descriptor
  <2> DEFINE mid == [desc EXCEPT !["lo"] = [desc.lo EXCEPT ![c] = Lo(c, n)]]
  <2>2. /\ DOMAIN mid = {"lo", "hi"} /\ mid.lo = [desc.lo EXCEPT ![c] = Lo(c, n)]
        /\ mid.hi = desc.hi
    BY DEF Descriptor
  <2>3. set = [mid EXCEPT !["hi"] = [desc.hi EXCEPT ![c] = Hi(c, n)]]
    BY <2>1
  <2> HIDE DEF mid, set
  <2>4. QED
    BY <2>2, <2>3
<1> HIDE DEF set
<1>2. /\ DOMAIN set.lo = Fields /\ DOMAIN set.hi = Fields
      /\ set.lo[c] = Lo(c, n) /\ set.hi[c] = Hi(c, n)
      /\ \A f \in Fields \ {c} : set.lo[f] = desc.lo[f] /\ set.hi[f] = desc.hi[f]
  BY <1>1 DEF Descriptor
<1>3. \A f \in Fields \ {c} : Joined(set, f) = Joined(desc, f)
  BY <1>2 DEF Joined
<1>4. ASSUME c \in Kinds, n \in Nat, n <= PerGroup(c)
      PROVE  Descriptor(set) /\ Joined(set, c) = n
  <2>1. n < Bound(c)
    <3>1. PerGroup(c) \in Nat /\ PerGroup(c) < Bound(c) /\ Width(c) \in Nat
      BY <1>4, Format, PerGroupType
    <3>2. Bound(c) \in Nat
      BY <3>1 DEF Bound
    <3>3. QED
      BY <1>4, <3>1, <3>2
  <2>2. Lo(c, n) + Width(c) * Hi(c, n) = n /\ (~ format.is64 => Hi(c, n) = 0)
    BY <1>4, <2>1, StoredWhole
  <2>3. QED
    BY <1>1, <1>2, <2>2 DEF Descriptor, Joined, Stable, Fields
<1>5. ASSUME c = "dirs"
      PROVE  Descriptor(set)
  BY <1>1, <1>2, <1>5 DEF Descriptor, Stable, Fields, Kinds
<1>6. QED
  BY <1>2, <1>3, <1>4, <1>5 DEF set

\* One fewer in the superblock.
LEMMA SuperLowered ==
    ASSUME NEW s, DOMAIN s = SuperFields, NEW k \in Kinds, SuperCount(s, k) \in Nat
    PROVE  LET less == SuperPred(s, k)
           IN  /\ DOMAIN less = SuperFields
               /\ less.is64 = s.is64 /\ less.desc_size = s.desc_size
               /\ SuperCount(less, k) = SaturatingPred(SuperCount(s, k))
               /\ \A l \in Kinds \ {k} : SuperCount(less, l) = SuperCount(s, l)
<1> DEFINE n == SaturatingPred(SuperCount(s, k))
           less == SuperPred(s, k)
<1>1. n \in Nat /\ SuperBase \in Nat \ {0}
  BY PredType, FormatAssumption, GeometryAssumption
<1>2. CASE k = "block"
  <2>1. less = [[s EXCEPT !.blocks_lo = n % SuperBase] EXCEPT !.blocks_hi = n \div SuperBase]
    BY <1>2 DEF SuperPred
  <2> DEFINE mid == [s EXCEPT !.blocks_lo = n % SuperBase]
  <2>2. /\ DOMAIN mid = SuperFields /\ mid.blocks_lo = n % SuperBase
        /\ mid.is64 = s.is64 /\ mid.desc_size = s.desc_size /\ mid.inodes = s.inodes
    BY DEF SuperFields
  <2>3. less = [mid EXCEPT !.blocks_hi = n \div SuperBase]
    BY <2>1
  <2> HIDE DEF mid, less, n
  <2>4. /\ DOMAIN less = SuperFields /\ less.blocks_lo = n % SuperBase
        /\ less.blocks_hi = n \div SuperBase
        /\ less.is64 = s.is64 /\ less.desc_size = s.desc_size /\ less.inodes = s.inodes
    BY <2>2, <2>3 DEF SuperFields
  <2>5. (n % SuperBase) + SuperBase * (n \div SuperBase) = n
    BY <1>1, Halves
  <2>6. QED
    BY <1>2, <2>4, <2>5 DEF SuperCount, Kinds, less, n
<1>3. CASE k # "block"
  <2>1. k = "inode" /\ less = [s EXCEPT !.inodes = n]
    BY <1>3 DEF SuperPred, Kinds
  <2>2. /\ DOMAIN less = SuperFields /\ less.inodes = n
        /\ less.blocks_lo = s.blocks_lo /\ less.blocks_hi = s.blocks_hi
        /\ less.is64 = s.is64 /\ less.desc_size = s.desc_size
    BY <2>1 DEF SuperFields
  <2>3. QED
    BY <2>1, <2>2 DEF SuperCount, Kinds
<1>4. QED
  BY <1>2, <1>3

\* The places of the descriptors in the table.
LEMMA Places ==
    ASSUME Shapes, NEW g \in Groups
    PROVE  /\ Units \in {1, 2} /\ g \in Nat
           /\ g * Units \in DOMAIN table
           /\ Units = 2 => g * Units + 1 \in DOMAIN table
           /\ Units = 2 <=> format.is64
<1>1. format.is64 \in BOOLEAN
  BY Format DEF Shapes
<1>2. g \in Nat /\ g <= NumGroups - 1 /\ NumGroups \in Nat
  BY GeometryAssumption DEF Groups
<1>3. CASE format.is64
  BY <1>2, <1>3 DEF Shapes, Units
<1>4. CASE ~ format.is64
  BY <1>2, <1>4 DEF Shapes, Units
<1>5. QED
  BY <1>3, <1>4

\* A descriptor as a mount finds it.
LEMMA MountedIs ==
    ASSUME Shapes, NEW g \in Groups
    PROVE  /\ Mounted[g] = [lo |-> table[g * Units],
                            hi |-> IF format.is64 THEN table[g * Units + 1] ELSE Zeros]
           /\ Descriptor(Mounted[g])
<1>1. Stride(super) = Units /\ (Units >= 2 <=> format.is64)
  BY StrideIs, Places
<1>2. Mounted[g] = [lo |-> table[g * Units],
                    hi |-> IF format.is64 THEN table[g * Units + 1] ELSE Zeros]
  BY <1>1 DEF Mounted, FromBytes
<1>3. /\ DOMAIN table[g * Units] = Fields
      /\ format.is64 => DOMAIN table[g * Units + 1] = Fields
  BY Places DEF Shapes
<1>4. DOMAIN Zeros = Fields /\ \A f \in Stable : Zeros[f] = 0
  BY DEF Zeros, Stable, Fields
<1>5. QED
  BY <1>2, <1>3, <1>4 DEF Descriptor

\* A count of directories, in the handle or as a mount finds it.
DirsKept(desc) == desc.lo["dirs"] \in Nat /\ desc.hi["dirs"] \in Nat

LEMMA DirsAre ==
    ASSUME format \in Formats, NEW desc, DirsKept(desc)
    PROVE  /\ Joined(desc, "dirs") = desc.lo["dirs"] + format.base * desc.hi["dirs"]
           /\ Joined(desc, "dirs") \in Nat /\ desc.lo["dirs"] <= Joined(desc, "dirs")
<1>1. PICK l, h, b : l = desc.lo["dirs"] /\ h = desc.hi["dirs"] /\ b = format.base
  OBVIOUS
<1>2. l \in Nat /\ h \in Nat /\ b \in Nat
  BY <1>1, Format DEF DirsKept, Fields
<1>3. b * h \in Nat
  BY <1>2
<1>4. Joined(desc, "dirs") = l + b * h
  BY <1>1, Format DEF Joined
<1>5. QED
  BY <1>1, <1>2, <1>3, <1>4

\* What BytesAgree says of one descriptor and of one count of groups.
Agrees(desc, g, count) ==
    /\ Joined(desc, "table") = Location(g)
    /\ \A k \in Kinds : Joined(desc, k) = count[k]

LEMMA AgreeSplit ==
    BytesAgree <=>
        /\ \A g \in Groups :
            Agrees(groups[g], g, memGroup[g]) /\ Agrees(Mounted[g], g, diskGroup[g])
        /\ \A k \in Kinds :
            SuperCount(sb, k) = memSuper[k] /\ SuperCount(super, k) = diskSuper[k]
BY DEF BytesAgree, Agrees, Kinds

LEMMA FitsInit == Init => Fits
<1> SUFFICES ASSUME Init PROVE Fits
  OBVIOUS
<1>1. ASSUME NEW k \in Kinds, NEW g \in Groups
      PROVE  CountFree(bitmap[k][g], PerGroup(k)) <= PerGroup(k)
  <2> DEFINE clear == ClearBits(bitmap[k][g], 0, PerGroup(k))
             all == 0..(PerGroup(k) - 1)
  <2>1. IsFiniteSet(all) /\ Cardinality(all) = PerGroup(k)
    <3>1. /\ 0 \in Int /\ PerGroup(k) - 1 \in Int /\ ~ (0 > PerGroup(k) - 1)
          /\ (PerGroup(k) - 1) - 0 + 1 = PerGroup(k)
      BY PerGroupType
    <3>2. QED
      BY <3>1, FS_Interval
  <2>2. clear \subseteq all
    BY DEF ClearBits
  <2>3. Cardinality(clear) <= Cardinality(all)
    BY <2>1, <2>2, FS_Subset
  <2>4. QED
    BY <2>1, <2>3 DEF CountFree
<1>2. \A k \in Kinds, g \in Groups :
        memGroup[g][k] <= PerGroup(k) /\ diskGroup[g][k] <= PerGroup(k)
  BY <1>1 DEF Init
<1>3. \A k \in Kinds : memSuper[k] <= MaxTotal /\ diskSuper[k] <= MaxTotal
  BY DEF Init
<1>4. QED
  BY <1>2, <1>3 DEF Fits

LEMMA FitsNext == TypeOK /\ Fits /\ [Next]_vars => Fits'
<1> SUFFICES ASSUME TypeOK, Fits, [Next]_vars, NEW k \in Kinds, NEW g \in Groups
             PROVE  /\ memSuper'[k] <= MaxTotal /\ diskSuper'[k] <= MaxTotal
                    /\ memGroup'[g][k] <= PerGroup(k) /\ diskGroup'[g][k] <= PerGroup(k)
  <2>1. 0 \in Groups
    BY GeometryAssumption DEF Groups
  <2>2. QED
    BY <2>1 DEF Fits
<1>1. /\ memSuper[k] <= MaxTotal /\ diskSuper[k] <= MaxTotal
      /\ memGroup[g][k] <= PerGroup(k) /\ diskGroup[g][k] <= PerGroup(k)
  BY DEF Fits
<1>2. /\ memSuper[k] \in Nat /\ memGroup[g][k] \in Nat
      /\ PerGroup(k) \in Nat /\ MaxTotal \in Nat
  BY PerGroupType, GeometryAssumption DEF TypeOK, MaxTotal
<1>3. ASSUME NEW l \in Kinds, NEW p \in Groups, Allocate(l, p)
      PROVE  /\ memSuper'[k] <= MaxTotal /\ diskSuper'[k] <= MaxTotal
             /\ memGroup'[g][k] <= PerGroup(k) /\ diskGroup'[g][k] <= PerGroup(k)
  <2>1. PICK h \in Groups : memGroup' = [memGroup EXCEPT ![h][l] = SaturatingPred(@)]
    BY <1>3, AllocateEffect
  <2>2. memGroup'[g][k] = memGroup[g][k] \/ memGroup'[g][k] = SaturatingPred(memGroup[g][k])
    BY <2>1 DEF TypeOK
  <2>3. memSuper'[k] = memSuper[k] \/ memSuper'[k] = SaturatingPred(memSuper[k])
    BY <1>3 DEF Allocate, TypeOK
  <2>4. UNCHANGED <<diskGroup, diskSuper>>
    BY <1>3 DEF Allocate
  <2>5. /\ SaturatingPred(memGroup[g][k]) <= memGroup[g][k]
        /\ SaturatingPred(memGroup[g][k]) \in Nat
        /\ SaturatingPred(memSuper[k]) <= memSuper[k] /\ SaturatingPred(memSuper[k]) \in Nat
    BY <1>2, PredType
  <2>6. QED
    BY <1>1, <1>2, <2>2, <2>3, <2>4, <2>5
<1>4. CASE SyncGroup
  <2>1. diskGroup'[g] = diskGroup[g] \/ diskGroup'[g] = memGroup[g]
    BY <1>4 DEF SyncGroup, TypeOK
  <2>2. QED
    BY <1>1, <1>4, <2>1 DEF SyncGroup, counts
<1>5. CASE SyncSuper \/ Remount
  BY <1>1, <1>5 DEF SyncSuper, Remount, counts, disk
<1>6. CASE UNCHANGED <<diskGroup, diskSuper, memGroup, memSuper>>
  BY <1>1, <1>6
<1>7. ASSUME NEW l \in Kinds, NEW p \in Groups, AllocateNone(l) \/ AllocateIoError(l, p)
      PROVE  UNCHANGED <<diskGroup, diskSuper, memGroup, memSuper>>
  BY <1>7 DEF AllocateNone, AllocateIoError, disk, counts
<1>8. SyncEnd \/ UNCHANGED vars => UNCHANGED <<diskGroup, diskSuper, memGroup, memSuper>>
  BY DEF SyncEnd, disk, counts, vars
<1>9. Groups # {}
  BY GeometryAssumption DEF Groups
<1>10. QED
  BY <1>3, <1>4, <1>5, <1>6, <1>7, <1>8, <1>9 DEF Next

-----------------------------------------------------------------------------
(* The steps.                                                              *)

AsStored == TypeOK /\ Fits /\ Shapes /\ BytesAgree

\* A step that leaves the stored forms and the counts alone.
LEMMA NothingStored ==
    ASSUME Shapes, BytesAgree, UNCHANGED <<format, table, super, groups, sb>>,
           UNCHANGED <<diskGroup, diskSuper, memGroup, memSuper>>
    PROVE  Shapes' /\ BytesAgree'
<1>1. Shapes'
  BY DEF Shapes, Descriptor
<1>2. \A g \in Groups, f \in Fields :
        /\ Joined(groups[g], f)' = Joined(groups[g], f)
        /\ Joined(Mounted[g], f)' = Joined(Mounted[g], f)
        /\ Location(g)' = Location(g)
  BY DEF Joined, Width, Mounted, FromBytes, Stride, Zeros, Location
<1>3. \A k \in Kinds :
        SuperCount(sb, k)' = SuperCount(sb, k) /\ SuperCount(super, k)' = SuperCount(super, k)
  BY DEF SuperCount
<1>4. QED
  BY <1>1, <1>2, <1>3 DEF BytesAgree, Fields

\* The handle's side of what is stored, and the disk's.
LEMMA SplitSides ==
    ASSUME format' = format,
           \A g \in Groups : Agrees(groups'[g], g, memGroup'[g]),
           \A g \in Groups : Agrees(Mounted'[g], g, diskGroup'[g]),
           \A k \in Kinds : SuperCount(sb', k) = memSuper'[k],
           \A k \in Kinds : SuperCount(super', k) = diskSuper'[k]
    PROVE  BytesAgree'
<1>1. \A g \in Groups, f \in Fields :
        /\ Joined(groups[g], f)' = Joined(groups'[g], f)
        /\ Joined(Mounted[g], f)' = Joined(Mounted'[g], f)
        /\ Location(g)' = Location(g)
  BY DEF Joined, Width, Location
<1>2. \A k \in Kinds : SuperCount(sb, k)' = SuperCount(sb', k)
                       /\ SuperCount(super, k)' = SuperCount(super', k)
  BY DEF SuperCount
<1>3. QED
  BY <1>1, <1>2 DEF BytesAgree, Agrees, Fields

\* The disk's side of a step that changes only the handle's.
LEMMA MountedSame ==
    ASSUME UNCHANGED <<format, table, super>>
    PROVE  \A g \in Groups : Mounted'[g] = Mounted[g]
BY DEF Mounted, FromBytes, Stride, Zeros

\* An allocation, in the descriptor of its group and in the superblock.
LEMMA AllocateStored ==
    ASSUME AsStored, NEW k \in Kinds, NEW p \in Groups, AllocateBytes(k, p), format' = format
    PROVE  Shapes' /\ BytesAgree'
<1>1. PICK h \in Groups, b \in Bits(k) :
        /\ b \notin bitmap[k][h]
        /\ bitmap' = Mark(k, h, b)
        /\ memGroup' = [memGroup EXCEPT ![h][k] = SaturatingPred(@)]
  BY AllocateEffect DEF AllocateBytes
<1>2. /\ memSuper' = [memSuper EXCEPT ![k] = SaturatingPred(@)]
      /\ UNCHANGED <<diskGroup, diskSuper, table, super>>
      /\ sb' = SuperPred(sb, k)
  BY DEF AllocateBytes, Allocate
<1>3. \A g \in Groups : Hit(k, g) <=> g = h
  <2>1. Mark(k, h, b)[k][h] = bitmap[k][h] \cup {b}
    <3>1. b < PerGroup(k)
      BY PerGroupType DEF Bits
    <3>2. QED
      BY <3>1, MarkType DEF AsStored, SetBit
  <2>2. \A g \in Groups : g # h => Mark(k, h, b)[k][g] = bitmap[k][g]
    BY MarkType DEF AsStored
  <2>3. QED
    BY <1>1, <2>1, <2>2 DEF Hit
<1> DEFINE n == SaturatingPred(memGroup[h][k])
<1>4. n \in Nat /\ n <= PerGroup(k)
  <2>1. memGroup[h][k] \in Nat /\ memGroup[h][k] <= PerGroup(k) /\ PerGroup(k) \in Nat
    BY PerGroupType DEF AsStored, TypeOK, Fits
  <2>2. QED
    BY <2>1, PredType
<1>5. Joined(groups[h], k) = memGroup[h][k]
  BY AgreeSplit DEF AsStored, Agrees
<1>6. /\ DOMAIN groups' = Groups
      /\ groups'[h] = SetCount(groups[h], k, n)
      /\ \A g \in Groups : g # h => groups'[g] = groups[g]
  BY <1>3, <1>5 DEF AllocateBytes
<1>7. format \in Formats /\ \A g \in Groups : Descriptor(groups[g])
  BY DEF AsStored, Shapes
<1>8. k \in Fields \ {"table"}
  BY DEF Fields, Kinds
<1> HIDE DEF n
<1>9. /\ Descriptor(groups'[h]) /\ Joined(groups'[h], k) = n
      /\ \A f \in Fields \ {k} : Joined(groups'[h], f) = Joined(groups[h], f)
  BY <1>4, <1>6, <1>7, <1>8, CountSet
<1>10. /\ DOMAIN sb = SuperFields /\ sb.is64 = format.is64 /\ sb.desc_size = format.desc_size
       /\ SuperCount(sb, k) = memSuper[k] /\ memSuper[k] \in Nat
  BY DEF AsStored, Shapes, BytesAgree, TypeOK
<1>11. /\ DOMAIN sb' = SuperFields /\ sb'.is64 = sb.is64 /\ sb'.desc_size = sb.desc_size
       /\ SuperCount(sb', k) = SaturatingPred(memSuper[k])
       /\ \A l \in Kinds \ {k} : SuperCount(sb', l) = SuperCount(sb, l)
  BY <1>2, <1>10, SuperLowered
<1>12. Shapes'
  <2>1. \A g \in Groups : Descriptor(groups'[g])
    BY <1>6, <1>7, <1>9
  <2>2. \A g \in Groups : Descriptor(groups[g])'
    BY <2>1 DEF Descriptor
  <2>3. QED
    BY <1>2, <1>6, <1>10, <1>11, <2>2 DEF AsStored, Shapes
<1>13. \A g \in Groups : Agrees(groups'[g], g, memGroup'[g])
  <2>1. \A g \in Groups : Agrees(groups[g], g, memGroup[g])
    BY AgreeSplit DEF AsStored
  <2>2. \A g \in Groups : g # h => memGroup'[g] = memGroup[g]
    BY <1>1 DEF AsStored, TypeOK
  <2>3. memGroup'[h][k] = n /\ \A l \in Kinds \ {k} : memGroup'[h][l] = memGroup[h][l]
    BY <1>1 DEF AsStored, TypeOK, n
  <2>4. Agrees(groups'[h], h, memGroup'[h])
    BY <1>8, <1>9, <2>1, <2>3 DEF Agrees, Fields
  <2>5. QED
    BY <1>6, <2>1, <2>2, <2>4
<1>14. \A g \in Groups : Agrees(Mounted'[g], g, diskGroup'[g])
  <2>1. \A g \in Groups : Agrees(Mounted[g], g, diskGroup[g])
    BY AgreeSplit DEF AsStored
  <2>2. \A g \in Groups : Mounted'[g] = Mounted[g]
    BY <1>2, MountedSame
  <2>3. QED
    BY <1>2, <2>1, <2>2
<1>15. \A l \in Kinds : SuperCount(sb', l) = memSuper'[l]
  BY <1>2, <1>11 DEF AsStored, BytesAgree, TypeOK
<1>16. \A l \in Kinds : SuperCount(super', l) = diskSuper'[l]
  BY <1>2 DEF AsStored, BytesAgree
<1>17. QED
  BY <1>12, <1>13, <1>14, <1>15, <1>16, SplitSides

\* mkdir's count of directories disturbs nothing else in the descriptor.
LEMMA EndMkdirStored ==
    ASSUME AsStored, EndMkdir, format' = format
    PROVE  Shapes' /\ BytesAgree'
<1>1. PICK p, n : groups' = [groups EXCEPT ![p] = SetCount(groups[p], "dirs", n)]
  <2>1. groups' = [groups EXCEPT ![pending.parent] =
                    SetCount(groups[pending.parent], "dirs",
                             Joined(groups[pending.parent], "dirs") + 1)]
    BY DEF EndMkdir
  <2>2. QED
    BY <2>1
<1>2. UNCHANGED <<diskGroup, diskSuper, memGroup, memSuper, table, super, sb>>
  BY DEF EndMkdir, vars
<1>3. /\ format \in Formats /\ DOMAIN groups = Groups
      /\ \A g \in Groups : Descriptor(groups[g])
  BY DEF AsStored, Shapes
<1>4. "dirs" \in Fields \ {"table"} /\ Stable \subseteq Fields \ {"dirs"}
  BY DEF Fields, Kinds, Stable
<1>5. ASSUME NEW g \in Groups
      PROVE  /\ Descriptor(groups'[g])
             /\ \A f \in Stable : Joined(groups'[g], f) = Joined(groups[g], f)
  <2>1. CASE g = p
    <3>1. groups'[g] = SetCount(groups[g], "dirs", n)
      BY <1>1, <1>3, <2>1
    <3>2. QED
      BY <1>3, <1>4, <3>1, CountSet
  <2>2. CASE g # p
    BY <1>1, <1>3, <2>2
  <2>3. QED
    BY <2>1, <2>2
<1>6. Shapes'
  <2>1. DOMAIN groups' = Groups
    BY <1>1, <1>3
  <2>2. \A g \in Groups : Descriptor(groups[g])'
    BY <1>5 DEF Descriptor
  <2>3. QED
    BY <1>2, <2>1, <2>2 DEF AsStored, Shapes
<1>7. \A g \in Groups : Agrees(groups'[g], g, memGroup'[g])
  <2>1. \A g \in Groups : Agrees(groups[g], g, memGroup[g])
    BY AgreeSplit DEF AsStored
  <2>2. QED
    BY <1>2, <1>5, <2>1 DEF Agrees, Stable
<1>8. \A g \in Groups : Agrees(Mounted'[g], g, diskGroup'[g])
  <2>1. \A g \in Groups : Agrees(Mounted[g], g, diskGroup[g])
    BY AgreeSplit DEF AsStored
  <2>2. \A g \in Groups : Mounted'[g] = Mounted[g]
    BY <1>2, MountedSame
  <2>3. QED
    BY <1>2, <2>1, <2>2
<1>9. \A l \in Kinds : SuperCount(sb', l) = memSuper'[l] /\ SuperCount(super', l) = diskSuper'[l]
  BY <1>2 DEF AsStored, BytesAgree
<1>10. QED
  BY <1>6, <1>7, <1>8, <1>9, SplitSides

\* sync_metadata's superblock: its format stays, and with it the size of the
\* descriptors.
LEMMA SyncSuperStored ==
    ASSUME AsStored, SyncSuperBytes, format' = format
    PROVE  Shapes' /\ BytesAgree'
<1>1. /\ super' = SuperToBytes(sb)
      /\ UNCHANGED <<table, groups, sb, diskGroup, memGroup, memSuper>>
      /\ diskSuper' = memSuper
  BY DEF SyncSuperBytes, SyncSuper, counts
<1>2. /\ DOMAIN super' = SuperFields \cup {"unparsed"}
      /\ super'.is64 = format.is64 /\ super'.desc_size = format.desc_size
      /\ \A k \in Kinds : SuperCount(super', k) = SuperCount(sb, k)
  BY <1>1 DEF SuperToBytes, SuperCount, SuperFields, AsStored, Shapes
<1>3. Shapes'
  <2>1. \A g \in Groups : Descriptor(groups[g])'
    BY <1>1 DEF AsStored, Shapes, Descriptor
  <2>2. QED
    BY <1>1, <1>2, <2>1 DEF AsStored, Shapes
<1>4. \A g \in Groups : Mounted'[g] = Mounted[g]
  <2>1. Stride(super') = Stride(super)
    BY <1>2 DEF Stride, AsStored, Shapes
  <2>2. QED
    BY <1>1, <2>1 DEF Mounted, FromBytes, Stride, Zeros
<1>5. \A g \in Groups :
        Agrees(groups[g], g, memGroup[g]) /\ Agrees(Mounted[g], g, diskGroup[g])
  BY AgreeSplit DEF AsStored
<1>6. \A k \in Kinds : SuperCount(sb, k) = memSuper[k]
  BY DEF AsStored, BytesAgree
<1>7. QED
  BY <1>1, <1>2, <1>3, <1>4, <1>5, <1>6, SplitSides

\* sync_metadata's descriptors: each to its own place in the table, and none
\* over another's.
LEMMA SyncGroupStored ==
    ASSUME AsStored, SyncGroupBytes, format' = format
    PROVE  /\ Shapes' /\ BytesAgree'
           /\ \E h \in Groups :
                /\ Mounted'[h].lo = groups[h].lo
                /\ Mounted'[h].hi = IF format.is64 THEN groups[h].hi ELSE Zeros
                /\ \A g \in Groups \ {h} : Mounted'[g] = Mounted[g]
<1>1. PICK h \in Groups :
        /\ diskGroup' = [diskGroup EXCEPT ![h] = memGroup[h]]
        /\ table' = ToBytes(table, h, Stride(sb), groups[h])
  <2>1. sync - 1 \in Groups
    BY GeometryAssumption DEF SyncGroupBytes, SyncGroup, Groups
  <2>2. QED
    BY <2>1 DEF SyncGroupBytes, SyncGroup
<1>2. UNCHANGED <<super, groups, sb, memGroup, memSuper, diskSuper>>
  BY DEF SyncGroupBytes, SyncGroup, counts
<1>3. Shapes
  BY DEF AsStored
<1>4. /\ Units \in {1, 2} /\ h \in Nat /\ h * Units \in DOMAIN table
      /\ Units = 2 => h * Units + 1 \in DOMAIN table
      /\ Units = 2 <=> format.is64
  BY <1>3, Places
<1>5. /\ DOMAIN table' = DOMAIN table
      /\ table'[h * Units] = groups[h].lo
      /\ format.is64 => table'[h * Units + 1] = groups[h].hi
      /\ \A u \in DOMAIN table :
            u # h * Units /\ (format.is64 => u # h * Units + 1) => table'[u] = table[u]
  <2>1. Stride(sb) = Units
    BY <1>3, StrideIs
  <2>2. table' = [u \in DOMAIN table |->
                    IF u = h * Units THEN groups[h].lo
                    ELSE IF Units >= 2 /\ u = h * Units + 1 THEN groups[h].hi ELSE table[u]]
    BY <1>1, <2>1 DEF ToBytes
  <2>3. h * Units + 1 # h * Units
    BY <1>4
  <2>4. Units >= 2 <=> format.is64
    BY <1>4
  <2> HIDE DEF Units
  <2>5. QED
    BY <1>4, <2>2, <2>3, <2>4
<1>6. Descriptor(groups[h]) /\ Agrees(groups[h], h, memGroup[h])
  BY AgreeSplit DEF AsStored, Shapes
<1>7. Shapes'
  <2>1. \A u \in DOMAIN table : DOMAIN table'[u] = Fields
    <3>1. \A u \in DOMAIN table : table'[u] \in {table[u], groups[h].lo, groups[h].hi}
      BY <1>4, <1>5
    <3>2. DOMAIN groups[h].lo = Fields /\ DOMAIN groups[h].hi = Fields
      BY <1>6 DEF Descriptor
    <3>3. QED
      BY <1>3, <3>1, <3>2 DEF Shapes
  <2>2. \A g \in Groups : Descriptor(groups[g])'
    BY <1>2, <1>3 DEF Shapes, Descriptor
  <2>3. QED
    BY <1>2, <1>3, <1>5, <2>1, <2>2 DEF Shapes
<1>8. ASSUME NEW g \in Groups
      PROVE  Mounted'[g] = [lo |-> table'[g * Units],
                            hi |-> IF format.is64 THEN table'[g * Units + 1] ELSE Zeros]
  <2>1. Stride(super') = Units /\ (Units >= 2 <=> format.is64)
    <3>1. Stride(super') = Stride(super)
      BY <1>2
    <3>2. QED
      BY <1>3, <1>4, <3>1, StrideIs
  <2>2. Mounted'[g] = FromBytes(table', g, Stride(super'))
    BY DEF Mounted, FromBytes, Stride, Zeros
  <2> HIDE DEF Units
  <2>3. QED
    BY <2>1, <2>2 DEF FromBytes
<1>9. Agrees(Mounted'[h], h, diskGroup'[h])
  <2>1. \A f \in Stable : Joined(Mounted'[h], f) = Joined(groups[h], f)
    <3>1. \A m : m = Mounted'[h] =>
            m = [lo |-> table'[h * Units],
                 hi |-> IF format.is64 THEN table'[h * Units + 1] ELSE Zeros]
      BY <1>8
    <3>2. Mounted'[h].lo = groups[h].lo
      BY <1>5, <3>1
    <3>3. CASE format.is64
      BY <1>5, <3>2, <3>3, <3>1 DEF Joined
    <3>4. CASE ~ format.is64
      <4>1. \A f \in Stable : Mounted'[h].hi[f] = 0
        BY <3>4, <3>1 DEF Zeros, Stable, Fields
      <4>2. \A f \in Stable : groups[h].hi[f] = 0
        BY <1>6, <3>4 DEF Descriptor
      <4>3. QED
        BY <3>2, <4>1, <4>2 DEF Joined
    <3>5. QED
      BY <3>3, <3>4
  <2>2. diskGroup'[h] = memGroup[h]
    BY <1>1 DEF AsStored, TypeOK
  <2>3. QED
    BY <1>6, <2>1, <2>2 DEF Agrees, Stable
<1>10. ASSUME NEW g \in Groups, g # h
       PROVE  Agrees(Mounted'[g], g, diskGroup'[g]) /\ Mounted'[g] = Mounted[g]
  <2>1. /\ g \in Nat /\ g * Units \in DOMAIN table
        /\ Units = 2 => g * Units + 1 \in DOMAIN table
    BY <1>3, Places
  <2>2. /\ g * Units # h * Units
        /\ Units = 2 => /\ g * Units # h * Units + 1
                        /\ g * Units + 1 # h * Units
                        /\ g * Units + 1 # h * Units + 1
    <3>1. CASE Units = 1
      BY <1>4, <1>10, <2>1, <3>1
    <3>2. CASE Units = 2
      BY <1>4, <1>10, <2>1, <3>2
    <3>3. QED
      BY <1>4, <3>1, <3>2
  <2>3. /\ table'[g * Units] = table[g * Units]
        /\ format.is64 => table'[g * Units + 1] = table[g * Units + 1]
    <3> HIDE DEF Units
    <3>1. QED
      BY <1>4, <1>5, <2>1, <2>2
  <2>4. Mounted[g] = [lo |-> table[g * Units],
                      hi |-> IF format.is64 THEN table[g * Units + 1] ELSE Zeros]
    BY <1>3, MountedIs
  <2>5. Mounted'[g] = Mounted[g]
    BY <1>8, <2>3, <2>4
  <2>6. diskGroup'[g] = diskGroup[g]
    BY <1>1, <1>10 DEF AsStored, TypeOK
  <2>7. QED
    BY <2>5, <2>6, AgreeSplit DEF AsStored
<1>11. \A g \in Groups : Agrees(groups'[g], g, memGroup'[g])
  BY <1>2, AgreeSplit DEF AsStored
<1>12. \A k \in Kinds : SuperCount(sb', k) = memSuper'[k] /\ SuperCount(super', k) = diskSuper'[k]
  BY <1>2 DEF AsStored, BytesAgree
<1>13. \A g \in Groups : Agrees(Mounted'[g], g, diskGroup'[g])
  BY <1>9, <1>10
<1>14. /\ Mounted'[h].lo = groups[h].lo
       /\ Mounted'[h].hi = IF format.is64 THEN groups[h].hi ELSE Zeros
  <2>1. PICK l, i, z : l = table'[h * Units] /\ i = table'[h * Units + 1] /\ z = Zeros
    OBVIOUS
  <2>2. Mounted'[h] = [lo |-> l, hi |-> IF format.is64 THEN i ELSE z]
    BY <1>8, <2>1
  <2>3. l = groups[h].lo /\ (format.is64 => i = groups[h].hi)
    BY <1>5, <2>1
  <2>4. QED
    BY <2>1, <2>2, <2>3
<1>15. QED
  BY <1>7, <1>10, <1>11, <1>12, <1>13, <1>14, SplitSides

\* A mount reads what is on disk.
LEMMA RemountStored ==
    ASSUME AsStored, RemountBytes, format' = format
    PROVE  Shapes' /\ BytesAgree'
<1>1. /\ groups' = Mounted /\ sb' = SuperFromBytes(super)
      /\ UNCHANGED <<table, super, diskGroup, diskSuper>>
      /\ memGroup' = diskGroup /\ memSuper' = diskSuper
  BY DEF RemountBytes, Remount, disk
<1>2. Shapes
  BY DEF AsStored
<1>3. \A g \in Groups : Descriptor(Mounted[g]) /\ Agrees(Mounted[g], g, diskGroup[g])
  BY <1>2, MountedIs, AgreeSplit DEF AsStored
<1>4. DOMAIN Mounted = Groups
  BY DEF Mounted
<1>5. /\ DOMAIN sb' = SuperFields
      /\ sb'.is64 = format.is64 /\ sb'.desc_size = format.desc_size
      /\ \A k \in Kinds : SuperCount(sb', k) = SuperCount(super, k)
  BY <1>1, <1>2 DEF SuperFromBytes, SuperCount, SuperFields, Shapes
<1>6. Shapes'
  <2>1. \A g \in Groups : Descriptor(groups[g])'
    BY <1>1, <1>3 DEF Descriptor
  <2>2. QED
    BY <1>1, <1>2, <1>4, <1>5, <2>1 DEF Shapes
<1>7. \A g \in Groups : Mounted'[g] = Mounted[g]
  BY <1>1, MountedSame
<1>8. \A k \in Kinds : SuperCount(super, k) = diskSuper[k]
  BY DEF AsStored, BytesAgree
<1>9. QED
  BY <1>1, <1>3, <1>5, <1>6, <1>7, <1>8, SplitSides

\* A clean image, as mount finds it.
LEMMA InitStored ==
    DescriptorsInit =>
        /\ Shapes /\ BytesAgree
        /\ \A g \in Groups : DirsKept(Mounted[g]) /\ Joined(Mounted[g], "dirs") = homes[g]
<1> SUFFICES ASSUME DescriptorsInit
             PROVE  /\ Shapes /\ BytesAgree
                    /\ \A g \in Groups :
                        DirsKept(Mounted[g]) /\ Joined(Mounted[g], "dirs") = homes[g]
  OBVIOUS
<1> DEFINE Stored(g, f) ==
            IF f = "table" THEN Location(g) ELSE IF f = "dirs" THEN homes[g] ELSE diskGroup[g][f]
<1>1. /\ format \in Formats /\ TypeOK /\ Fits
      /\ memGroup = diskGroup /\ memSuper = diskSuper
      /\ groups = Mounted /\ sb = SuperFromBytes(super)
  <2>1. Init
    BY DEF DescriptorsInit
  <2>2. memGroup = diskGroup /\ memSuper = diskSuper
    BY <2>1 DEF Init
  <2>3. format \in Formats /\ groups = Mounted /\ sb = SuperFromBytes(super)
    BY DEF DescriptorsInit
  <2>4. QED
    BY <2>1, <2>2, <2>3, TypeInit, FitsInit
<1>2. super = [blocks_lo |-> diskSuper["block"] % SuperBase,
               blocks_hi |-> diskSuper["block"] \div SuperBase,
               inodes |-> diskSuper["inode"],
               is64 |-> format.is64, desc_size |-> format.desc_size,
               rest |-> "set", unparsed |-> "set"]
  BY DEF DescriptorsInit
<1>3. /\ DOMAIN super = SuperFields \cup {"unparsed"} /\ DOMAIN sb = SuperFields
      /\ super.is64 = format.is64 /\ super.desc_size = format.desc_size
      /\ sb.is64 = format.is64 /\ sb.desc_size = format.desc_size
  <2>1. /\ DOMAIN super = SuperFields \cup {"unparsed"}
        /\ super.is64 = format.is64 /\ super.desc_size = format.desc_size
    BY <1>2 DEF SuperFields
  <2>2. QED
    BY <1>1, <2>1 DEF SuperFromBytes, SuperFields
<1>4. \A k \in Kinds : SuperCount(sb, k) = diskSuper[k] /\ SuperCount(super, k) = diskSuper[k]
  <2>1. (diskSuper["block"] % SuperBase) + SuperBase * (diskSuper["block"] \div SuperBase)
            = diskSuper["block"]
    <3>1. diskSuper["block"] \in Nat /\ SuperBase \in Nat \ {0}
      BY <1>1, FormatAssumption, GeometryAssumption DEF TypeOK, Kinds
    <3>2. QED
      BY <3>1, Halves
  <2>2. \A k \in Kinds : SuperCount(super, k) = diskSuper[k]
    BY <1>2, <2>1 DEF SuperCount, Kinds
  <2>3. \A k \in Kinds : SuperCount(sb, k) = SuperCount(super, k)
    BY <1>1 DEF SuperCount, SuperFromBytes
  <2>4. QED
    BY <2>2, <2>3
<1>5. table = [u \in 0..(Units * NumGroups - 1) |->
                [f \in Fields |->
                    IF format.is64 /\ u % 2 = 1 THEN Hi(f, Stored(u \div 2, f))
                    ELSE Lo(f, Stored(IF format.is64 THEN u \div 2 ELSE u, f))]]
  BY DEF DescriptorsInit, Units
<1>6. /\ DOMAIN table = 0..((IF format.is64 THEN 2 ELSE 1) * NumGroups - 1)
      /\ \A u \in DOMAIN table : DOMAIN table[u] = Fields
  <2> HIDE DEF Stored
  <2>1. QED
    BY <1>5 DEF Units
<1>7. ASSUME NEW g \in Groups
      PROVE  /\ g \in Nat /\ Units \in {1, 2} /\ (Units = 2 <=> format.is64)
             /\ g * Units \in 0..(Units * NumGroups - 1)
             /\ Units = 2 => g * Units + 1 \in 0..(Units * NumGroups - 1)
  <2>1. g \in Nat /\ g <= NumGroups - 1 /\ NumGroups \in Nat
    BY GeometryAssumption DEF Groups
  <2>2. CASE format.is64
    BY <2>1, <2>2 DEF Units
  <2>3. CASE ~ format.is64
    BY <2>1, <2>3 DEF Units
  <2>4. QED
    BY <2>2, <2>3
<1>8. ASSUME NEW g \in Groups
      PROVE  /\ table[g * Units] = [f \in Fields |-> Lo(f, Stored(g, f))]
             /\ format.is64 => table[g * Units + 1] = [f \in Fields |-> Hi(f, Stored(g, f))]
  <2> HIDE DEF Stored, Units
  <2>1. CASE format.is64
    <3>1. Units = 2 /\ g \in Nat
      BY <1>7, <2>1
    <3>2. /\ (g * 2 + 0) \div 2 = g /\ (g * 2 + 0) % 2 = 0
          /\ (g * 2 + 1) \div 2 = g /\ (g * 2 + 1) % 2 = 1
      BY <3>1, DivUnique
    <3>3. g * 2 + 0 = g * 2
      BY <3>1
    <3>4. g * 2 \in 0..(Units * NumGroups - 1) /\ g * 2 + 1 \in 0..(Units * NumGroups - 1)
      BY <1>7, <3>1
    <3>5. table[g * 2] = [f \in Fields |-> Lo(f, Stored(g, f))]
      BY <1>5, <2>1, <3>2, <3>3, <3>4
    <3>6. table[g * 2 + 1] = [f \in Fields |-> Hi(f, Stored(g, f))]
      BY <1>5, <2>1, <3>2, <3>4
    <3>7. QED
      BY <3>1, <3>5, <3>6
  <2>2. CASE ~ format.is64
    <3>1. Units = 1 /\ g * Units = g /\ g \in 0..(Units * NumGroups - 1)
      BY <1>7, <2>2
    <3>2. QED
      BY <1>5, <2>2, <3>1
  <2>3. QED
    BY <2>1, <2>2
<1>9. ASSUME NEW g \in Groups
      PROVE  Mounted[g] = [lo |-> table[g * Units],
                           hi |-> IF format.is64 THEN table[g * Units + 1] ELSE Zeros]
  <2>1. Stride(super) = Units
    <3>1. /\ format.is64 \in BOOLEAN
          /\ format.desc_size \in IF format.is64 THEN {64} ELSE {0, 32, 64}
      BY <1>1, FormatAssumption
    <3>2. 64 \div 32 = 2
      OBVIOUS
    <3>3. QED
      BY <1>3, <3>1, <3>2 DEF Stride, Units
  <2>2. Units >= 2 <=> format.is64
    BY <1>7
  <2> HIDE DEF Units
  <2>3. QED
    BY <2>1, <2>2 DEF Mounted, FromBytes
<1>10. ASSUME NEW g \in Groups
       PROVE  /\ Descriptor(Mounted[g]) /\ Agrees(Mounted[g], g, diskGroup[g])
              /\ DirsKept(Mounted[g]) /\ Joined(Mounted[g], "dirs") = homes[g]
  <2>1. \A f \in Fields :
            /\ Lo(f, Stored(g, f)) + Width(f) * Hi(f, Stored(g, f)) = Stored(g, f)
            /\ Lo(f, Stored(g, f)) \in Nat /\ Hi(f, Stored(g, f)) \in Nat
            /\ ~ format.is64 => Hi(f, Stored(g, f)) = 0
    <3>1. ASSUME NEW f \in Fields
          PROVE  Stored(g, f) \in Nat /\ Stored(g, f) < Bound(f)
      <4>1. CASE f = "table"
        BY <1>1, <4>1, LocationFits
      <4>2. CASE f \in Kinds
        <5>1. Stored(g, f) = diskGroup[g][f]
          BY <4>2 DEF Kinds
        <5>2. /\ diskGroup[g][f] \in Nat /\ diskGroup[g][f] <= PerGroup(f)
              /\ PerGroup(f) \in Nat
          BY <1>1, <4>2, PerGroupType DEF TypeOK, Fits
        <5>3. Bound(f) \in Nat
          <6>1. Width(f) \in Nat /\ Width(f) * Width(f) \in Nat
            BY <1>1, Format
          <6>2. QED
            BY <6>1 DEF Bound
        <5>4. PerGroup(f) < Bound(f)
          BY <1>1, <4>2, Format
        <5>5. QED
          BY <5>1, <5>2, <5>3, <5>4
      <4>3. CASE f = "dirs"
        <5>1. Stored(g, f) = homes[g]
          BY <4>3
        <5>2. homes[g] \in 0..InodesPerGroup
          BY DEF DescriptorsInit
        <5>3. PerGroup("inode") = InodesPerGroup /\ InodesPerGroup \in Nat
          BY GeometryAssumption DEF PerGroup
        <5>4. Bound("inode") = Bound("dirs") /\ Bound("dirs") \in Nat
          <6>1. /\ Width("inode") = Width("dirs") /\ Width("dirs") \in Nat
                /\ Width("dirs") * Width("dirs") \in Nat
            BY <1>1, Format DEF Kinds, Fields
          <6>2. QED
            BY <6>1 DEF Bound
        <5>5. PerGroup("inode") < Bound("inode")
          BY <1>1, Format DEF Kinds
        <5>6. QED
          <6>1. PICK c, i, b : c = homes[g] /\ i = InodesPerGroup /\ b = Bound("dirs")
            OBVIOUS
          <6>2. c \in Nat /\ c <= i /\ i \in Nat /\ i < b /\ b \in Nat
            BY <5>2, <5>3, <5>4, <5>5, <6>1
          <6>3. QED
            BY <4>3, <6>1, <6>2
      <4>4. QED
        BY <4>1, <4>2, <4>3 DEF Fields
    <3> HIDE DEF Stored
    <3>2. QED
      BY <1>1, <3>1, StoredWhole
  <2>2. /\ DOMAIN Mounted[g] = {"lo", "hi"}
        /\ DOMAIN Mounted[g].lo = Fields /\ DOMAIN Mounted[g].hi = Fields
        /\ \A f \in Fields : Mounted[g].lo[f] = Lo(f, Stored(g, f))
        /\ \A f \in Fields : Mounted[g].hi[f] = IF format.is64 THEN Hi(f, Stored(g, f)) ELSE 0
    <3> HIDE DEF Stored, Units
    <3>1. Mounted[g] = [lo |-> [f \in Fields |-> Lo(f, Stored(g, f))],
                        hi |-> IF format.is64 THEN [f \in Fields |-> Hi(f, Stored(g, f))]
                               ELSE Zeros]
      BY <1>8, <1>9
    <3>2. QED
      BY <3>1 DEF Zeros
  <2>3. Descriptor(Mounted[g])
    BY <2>2 DEF Descriptor, Stable, Fields
  <2>4. \A f \in Fields : Joined(Mounted[g], f) = Stored(g, f)
    <3> HIDE DEF Stored
    <3>1. QED
      BY <2>1, <2>2 DEF Joined
  <2>5. Agrees(Mounted[g], g, diskGroup[g])
    BY <2>4 DEF Agrees, Fields, Kinds
  <2>6. Joined(Mounted[g], "dirs") = homes[g] /\ homes[g] \in Nat
    <3>1. homes[g] \in 0..InodesPerGroup
      BY DEF DescriptorsInit
    <3>2. QED
      BY <2>4, <3>1 DEF Fields
  <2>7. DirsKept(Mounted[g])
    <3> HIDE DEF Stored
    <3>1. QED
      BY <2>1, <2>2 DEF DirsKept, Fields
  <2>8. QED
    BY <2>3, <2>5, <2>6, <2>7
<1>11. Shapes
  <2>1. DOMAIN groups = Groups /\ \A g \in Groups : Descriptor(groups[g])
    BY <1>1, <1>10 DEF Mounted
  <2>2. QED
    BY <1>1, <1>3, <1>6, <2>1 DEF Shapes
<1>12. BytesAgree
  BY <1>1, <1>4, <1>10, AgreeSplit
<1>13. QED
  BY <1>10, <1>11, <1>12

-----------------------------------------------------------------------------
(* The theorem.                                                            *)

LEMMA InvInit == DescriptorsInit => AsStored
BY InitStored, TypeInit, FitsInit DEF DescriptorsInit, AsStored

LEMMA InvNext == AsStored /\ [DescriptorsNext]_allVars => AsStored'
<1> SUFFICES ASSUME AsStored, [DescriptorsNext]_allVars
             PROVE  AsStored'
  OBVIOUS
<1>1. TypeOK' /\ Fits'
  BY DescriptorsSteps, TypeNext, FitsNext DEF AsStored
<1>2. Shapes' /\ BytesAgree'
  <2>1. CASE UNCHANGED allVars
    BY <2>1, NothingStored DEF AsStored, allVars, bytes, vars
  <2>2. ASSUME NEW k \in Kinds, NEW p \in Groups, AllocateBytes(k, p), format' = format
        PROVE  Shapes' /\ BytesAgree'
    BY <2>2, AllocateStored
  <2>3. ASSUME NEW k \in Kinds, NEW p \in Groups, AllocateOther(k, p), format' = format
        PROVE  Shapes' /\ BytesAgree'
    BY <2>2, <2>3 DEF AllocateOther
  <2>4. ASSUME AllocateFails, format' = format
        PROVE  Shapes' /\ BytesAgree'
    <3>1. UNCHANGED <<format, table, super, groups, sb>>
      BY <2>4 DEF AllocateFails, bytes
    <3>2. UNCHANGED <<diskGroup, diskSuper, memGroup, memSuper>>
      BY <2>4 DEF AllocateFails, AllocateNone, AllocateIoError, disk, counts
    <3>3. QED
      BY <3>1, <3>2, NothingStored DEF AsStored
  <2>5. ASSUME NEW p \in Groups, BeginMkdir(p), format' = format
        PROVE  Shapes' /\ BytesAgree'
    <3>1. "inode" \in Kinds /\ AllocateBytes("inode", p)
      BY <2>5 DEF BeginMkdir, Kinds
    <3>2. QED
      BY <2>2, <2>5, <3>1
  <2>6. ASSUME SyncEndBytes, format' = format
        PROVE  Shapes' /\ BytesAgree'
    <3>1. /\ UNCHANGED <<format, table, super, groups, sb>>
          /\ UNCHANGED <<diskGroup, diskSuper, memGroup, memSuper>>
      BY <2>6 DEF SyncEndBytes, SyncEnd, bytes, disk, counts
    <3>2. QED
      BY <3>1, NothingStored DEF AsStored
  <2>7. QED
    BY <2>1, <2>3, <2>4, <2>5, <2>6, EndMkdirStored, SyncSuperStored, SyncGroupStored,
       RemountStored DEF DescriptorsNext
<1>3. QED
  BY <1>1, <1>2 DEF AsStored

\* The descriptors and the superblock, in the handle and on disk, stand for the
\* counts of Allocator, and the place of every inode table survives: whatever
\* the format and the sizes of groups, no step of an allocation, a sync cut
\* short or a mount loses a half, or writes one descriptor over another.
THEOREM BytesAgreeCorrect == DescriptorsSpec => []BytesAgree
<1>1. AsStored => BytesAgree
  BY DEF AsStored
<1>2. QED
  BY <1>1, InvInit, InvNext, PTL DEF DescriptorsSpec

-----------------------------------------------------------------------------
(* The count of directories.                                               *)

NoDirectory(g) == IF g = 0 THEN {0} ELSE {}
InUse(g) == bitmap["inode"][g] \ NoDirectory(g)
Owed(g) == IF pending # <<>> /\ pending.home = g THEN 1 ELSE 0

\* Every directory, the one that mkdir is about to link included, has an inode
\* of its group to itself; this is why the counts fit in their fields.
Housed ==
    /\ homes \in [Groups -> Nat]
    /\ 0 \in bitmap["inode"][0]
    /\ \A g \in Groups : homes[g] + Owed(g) <= Cardinality(InUse(g))
    /\ pending # <<>> => pending.parent \in Groups /\ pending.home \in Groups

LEMMA InUseType ==
    ASSUME TypeOK, NEW g \in Groups
    PROVE  IsFiniteSet(InUse(g)) /\ Cardinality(InUse(g)) \in Nat
<1>1. Bits("inode") = 0..(InodesPerGroup - 1) /\ IsFiniteSet(Bits("inode"))
  BY GeometryAssumption, FS_Interval DEF Bits, PerGroup
<1>2. InUse(g) \subseteq Bits("inode")
  BY DEF TypeOK, InUse, Kinds
<1>3. QED
  BY <1>1, <1>2, FS_Subset, FS_CardinalityType

\* The inodes in use only grow.
LEMMA InUseGrows ==
    ASSUME TypeOK, 0 \in bitmap["inode"][0], NEW k \in Kinds, NEW h \in Groups, NEW b \in Bits(k),
           b \notin bitmap[k][h], bitmap' = Mark(k, h, b)
    PROVE  /\ 0 \in bitmap'["inode"][0]
           /\ \A g \in Groups :
                Cardinality(InUse(g)') =
                    Cardinality(InUse(g)) + (IF k = "inode" /\ g = h THEN 1 ELSE 0)
<1>1. "inode" \in Kinds /\ 0 \in Groups
  BY GeometryAssumption DEF Kinds, Groups
<1>2. bitmap'[k][h] = bitmap[k][h] \cup {b}
  <2>1. b < PerGroup(k)
    BY PerGroupType DEF Bits
  <2>2. QED
    BY <2>1, MarkType DEF SetBit
<1>3. \A l \in Kinds, g \in Groups : ~ (l = k /\ g = h) => bitmap'[l][g] = bitmap[l][g]
  BY MarkType
<1>4. 0 \in bitmap'["inode"][0]
  BY <1>1, <1>2, <1>3
<1>5. ASSUME NEW g \in Groups
      PROVE  Cardinality(InUse(g)') =
                Cardinality(InUse(g)) + (IF k = "inode" /\ g = h THEN 1 ELSE 0)
  <2>1. CASE k = "inode" /\ g = h
    <3>1. b \notin NoDirectory(g)
      BY <2>1 DEF NoDirectory
    <3>2. InUse(g)' = InUse(g) \cup {b} /\ b \notin InUse(g)
      BY <1>2, <2>1, <3>1 DEF InUse, NoDirectory
    <3>3. QED
      BY <2>1, <3>2, InUseType, FS_AddElement
  <2>2. CASE ~ (k = "inode" /\ g = h)
    <3>1. InUse(g)' = InUse(g)
      BY <1>1, <1>3, <2>2 DEF InUse, NoDirectory
    <3>2. QED
      BY <2>2, <3>1, InUseType
  <2>3. QED
    BY <2>1, <2>2
<1>6. QED
  BY <1>4, <1>5

\* What a step may do to the bitmaps, as far as the inodes in use go.
LEMMA InUseKept ==
    ASSUME TypeOK, Housed, [Next]_vars
    PROVE  /\ 0 \in bitmap'["inode"][0]
           /\ \A g \in Groups : Cardinality(InUse(g)) <= Cardinality(InUse(g)')
<1>1. CASE UNCHANGED bitmap
  <2>1. \A g \in Groups : InUse(g)' = InUse(g) /\ Cardinality(InUse(g)) \in Nat
    BY <1>1, InUseType DEF InUse, NoDirectory
  <2>2. QED
    BY <1>1, <2>1 DEF Housed
<1>2. ASSUME NEW k \in Kinds, NEW h \in Groups, NEW b \in Bits(k),
             b \notin bitmap[k][h], bitmap' = Mark(k, h, b)
      PROVE  /\ 0 \in bitmap'["inode"][0]
             /\ \A g \in Groups : Cardinality(InUse(g)) <= Cardinality(InUse(g)')
  <2>1. /\ 0 \in bitmap'["inode"][0]
        /\ \A g \in Groups :
                Cardinality(InUse(g)') =
                    Cardinality(InUse(g)) + (IF k = "inode" /\ g = h THEN 1 ELSE 0)
    BY <1>2, InUseGrows DEF Housed
  <2>2. \A g \in Groups : Cardinality(InUse(g)) \in Nat
    BY InUseType
  <2>3. QED
    BY <2>1, <2>2
<1>3. ASSUME NEW k \in Kinds, NEW p \in Groups, Allocate(k, p) \/ AllocateIoError(k, p)
      PROVE  \/ UNCHANGED bitmap
             \/ \E h \in Groups, b \in Bits(k) : b \notin bitmap[k][h] /\ bitmap' = Mark(k, h, b)
  BY <1>3, AllocateEffect, IoErrorEffect
<1>4. (\E k \in Kinds : AllocateNone(k)) \/ SyncSuper \/ SyncGroup \/ SyncEnd \/ Remount
        \/ UNCHANGED vars => UNCHANGED bitmap
  BY DEF AllocateNone, SyncSuper, SyncGroup, SyncEnd, Remount, disk, vars
<1>5. QED
  BY <1>1, <1>2, <1>3, <1>4 DEF Next

\* The end of a mkdir, linked or not.
Settled ==
    /\ pending' = <<>>
    /\ \/ homes' = homes
       \/ pending # <<>> /\ homes' = [homes EXCEPT ![pending.home] = @ + 1]

LEMMA SettledHomes ==
    ASSUME Housed, Settled
    PROVE  /\ homes' \in [Groups -> Nat]
           /\ \A g \in Groups : homes'[g] + Owed(g)' <= homes[g] + Owed(g)
           /\ SumOver(homes) <= SumOver(homes')
<1>1. CASE homes' = homes
  <2>1. \A g \in Groups : Owed(g)' = 0 /\ Owed(g) \in {0, 1}
    BY DEF Settled, Owed
  <2>2. SumOver(homes) \in Nat
    BY SumType DEF Housed
  <2>3. QED
    BY <1>1, <2>1, <2>2 DEF Housed
<1>2. CASE pending # <<>> /\ homes' = [homes EXCEPT ![pending.home] = @ + 1]
  <2>1. PICK a, b : a = homes /\ b = homes'
    OBVIOUS
  <2>2. a \in [Groups -> Nat] /\ b \in [Groups -> Nat] /\ \A g \in Groups : a[g] <= b[g]
    BY <1>2, <2>1 DEF Housed
  <2>3. SumOver(a) <= SumOver(b)
    BY <2>2, SumMonotone
  <2>4. \A g \in Groups : homes'[g] + Owed(g)' <= homes[g] + Owed(g)
    BY <1>2, <2>1, <2>2 DEF Owed, Settled
  <2>5. QED
    BY <2>1, <2>2, <2>3, <2>4
<1>3. QED
  BY <1>1, <1>2 DEF Settled

LEMMA SettledHoused ==
    ASSUME TypeOK, Housed, [Next]_vars, Settled
    PROVE  Housed'
<1>1. /\ homes' \in [Groups -> Nat]
      /\ \A g \in Groups : homes'[g] + Owed(g)' <= homes[g] + Owed(g)
  BY SettledHomes
<1>2. /\ 0 \in bitmap'["inode"][0]
      /\ \A g \in Groups : Cardinality(InUse(g)) <= Cardinality(InUse(g)')
  BY InUseKept
<1>3. \A g \in Groups : homes[g] + Owed(g) <= Cardinality(InUse(g))
  BY DEF Housed
<1>4. TypeOK'
  BY TypeNext
<1>5. ASSUME NEW g \in Groups
      PROVE  homes'[g] + Owed(g)' <= Cardinality(InUse(g)')
  <2>1. Owed(g) \in Nat /\ Owed(g)' \in Nat /\ homes[g] \in Nat /\ homes'[g] \in Nat
    BY <1>1 DEF Owed, Housed
  <2>2. Cardinality(InUse(g)) \in Nat
    BY InUseType
  <2>3. Cardinality(InUse(g)') \in Nat
    <3>1. IsFiniteSet(InUse(g)')
      <4>1. Bits("inode") = 0..(InodesPerGroup - 1) /\ IsFiniteSet(Bits("inode"))
        BY GeometryAssumption, FS_Interval DEF Bits, PerGroup
      <4>2. InUse(g)' \subseteq Bits("inode")
        BY <1>4 DEF TypeOK, InUse, Kinds
      <4>3. QED
        BY <4>1, <4>2, FS_Subset
    <3>2. QED
      BY <3>1, FS_CardinalityType
  <2>4. QED
    BY <1>1, <1>2, <1>3, <2>1, <2>2, <2>3
<1>6. QED
  BY <1>1, <1>2, <1>5 DEF Housed, Settled

\* The group in which a step allocates, and that there is no other.
LEMMA HitOne ==
    ASSUME TypeOK, NEW k \in Kinds, NEW p \in Groups, Allocate(k, p)
    PROVE  \E h \in Groups, b \in Bits(k) :
             /\ b \notin bitmap[k][h]
             /\ bitmap' = Mark(k, h, b)
             /\ \A g \in Groups : Hit(k, g) <=> g = h
<1>1. PICK h \in Groups, b \in Bits(k) : b \notin bitmap[k][h] /\ bitmap' = Mark(k, h, b)
  BY AllocateEffect
<1>2. Mark(k, h, b)[k][h] = bitmap[k][h] \cup {b}
  <2>1. b < PerGroup(k)
    BY PerGroupType DEF Bits
  <2>2. QED
    BY <2>1, MarkType DEF SetBit
<1>3. \A g \in Groups : g # h => Mark(k, h, b)[k][g] = bitmap[k][g]
  BY MarkType
<1>4. \A g \in Groups : Hit(k, g) <=> g = h
  BY <1>1, <1>2, <1>3 DEF Hit
<1>5. QED
  BY <1>1, <1>4

LEMMA HousedNext == TypeOK /\ Housed /\ [DescriptorsNext]_allVars => Housed'
<1> SUFFICES ASSUME TypeOK, Housed, [DescriptorsNext]_allVars PROVE Housed'
  OBVIOUS
<1>1. [Next]_vars
  BY DescriptorsSteps
<1>2. /\ 0 \in bitmap'["inode"][0]
      /\ \A g \in Groups : Cardinality(InUse(g)) <= Cardinality(InUse(g)')
  BY <1>1, InUseKept
<1>3. TypeOK'
  BY <1>1, TypeNext
<1>4. \A g \in Groups :
        /\ homes[g] \in Nat /\ Owed(g) \in Nat
        /\ Cardinality(InUse(g)) \in Nat
        /\ homes[g] + Owed(g) <= Cardinality(InUse(g))
  BY InUseType DEF Housed, Owed
<1>5. \A g \in Groups : Cardinality(InUse(g)') \in Nat
  <2>1. ASSUME NEW g \in Groups
        PROVE  IsFiniteSet(InUse(g)')
    <3>1. Bits("inode") = 0..(InodesPerGroup - 1) /\ IsFiniteSet(Bits("inode"))
      BY GeometryAssumption, FS_Interval DEF Bits, PerGroup
    <3>2. InUse(g)' \subseteq Bits("inode")
      BY <1>3 DEF TypeOK, InUse, Kinds
    <3>3. QED
      BY <3>1, <3>2, FS_Subset
  <2>2. QED
    BY <2>1, FS_CardinalityType
<1>6. CASE UNCHANGED <<pending, homes>>
  <2>1. \A g \in Groups : homes'[g] + Owed(g)' = homes[g] + Owed(g)
    BY <1>6 DEF Owed
  <2>2. \A g \in Groups : homes'[g] + Owed(g)' <= Cardinality(InUse(g)')
    BY <1>2, <1>4, <1>5, <2>1
  <2>3. QED
    BY <1>2, <1>6, <2>2 DEF Housed
<1>7. ASSUME NEW p \in Groups, BeginMkdir(p)
      PROVE  Housed'
  <2>1. "inode" \in Kinds /\ Allocate("inode", p)
    BY <1>7 DEF BeginMkdir, AllocateBytes, Kinds
  <2>2. PICK h \in Groups, b \in Bits("inode") :
             /\ b \notin bitmap["inode"][h]
             /\ bitmap' = Mark("inode", h, b)
             /\ \A g \in Groups : Hit("inode", g) <=> g = h
    BY <2>1, HitOne
  <2>3. /\ pending = <<>> /\ homes' = homes
        /\ \E g \in Groups : Hit("inode", g) /\ pending' = [parent |-> p, home |-> g]
    BY <1>7 DEF BeginMkdir
  <2>4. pending' = [parent |-> p, home |-> h]
    BY <2>2, <2>3
  <2>5. \A g \in Groups :
            Cardinality(InUse(g)') = Cardinality(InUse(g)) + (IF g = h THEN 1 ELSE 0)
    BY <2>1, <2>2, InUseGrows DEF Housed
  <2>6. \A g \in Groups : Owed(g) = 0
    BY <2>3 DEF Owed
  <2>7. \A g \in Groups : Owed(g)' \in Nat /\ Owed(g)' <= (IF g = h THEN 1 ELSE 0)
    BY <2>4 DEF Owed
  <2>8. \A g \in Groups : homes'[g] + Owed(g)' <= Cardinality(InUse(g)')
    BY <1>4, <2>3, <2>5, <2>6, <2>7
  <2>9. pending'.parent \in Groups /\ pending'.home \in Groups
    BY <2>4
  <2>10. QED
    BY <1>2, <2>3, <2>8, <2>9 DEF Housed
<1>8. CASE AllocateFails \/ EndMkdir \/ RemountBytes
  <2>1. Settled
    BY <1>8 DEF AllocateFails, CutShort, EndMkdir, RemountBytes, Settled
  <2>2. QED
    BY <1>1, <2>1, SettledHoused
<1>9. (\E k \in Kinds, p \in Groups : AllocateOther(k, p))
        \/ SyncSuperBytes \/ SyncGroupBytes \/ SyncEndBytes \/ UNCHANGED allVars
        => UNCHANGED <<pending, homes>>
  BY DEF AllocateOther, SyncSuperBytes, SyncGroupBytes, SyncEndBytes, dirHistory, allVars
<1>10. QED
  BY <1>6, <1>7, <1>8, <1>9 DEF DescriptorsNext

\* Inode 1 is no directory's: there are fewer directories than inodes.
LEMMA HousedFits ==
    ASSUME TypeOK, Housed, pending # <<>>
    PROVE  SumOver(homes) + 1 < NumGroups * InodesPerGroup
<1> DEFINE all == [g \in Groups |-> InodesPerGroup]
           room == [g \in Groups |-> IF g = 0 THEN InodesPerGroup - 1 ELSE InodesPerGroup]
<1>1. 0 \in Groups /\ InodesPerGroup \in Nat \ {0} /\ NumGroups \in Nat
  BY GeometryAssumption DEF Groups
<1>2. ASSUME NEW g \in Groups
      PROVE  /\ Cardinality(InUse(g)) \in Nat
             /\ Cardinality(InUse(g)) <= room[g]
  <2>1. InUse(g) \subseteq IF g = 0 THEN 1..(InodesPerGroup - 1) ELSE 0..(InodesPerGroup - 1)
    BY <1>1 DEF TypeOK, InUse, NoDirectory, Kinds, Bits, PerGroup
  <2>2. /\ IsFiniteSet(1..(InodesPerGroup - 1))
        /\ Cardinality(1..(InodesPerGroup - 1)) = InodesPerGroup - 1
    <3>1. CASE InodesPerGroup = 1
      <4>1. 1..(InodesPerGroup - 1) = {}
        BY <3>1
      <4>2. QED
        BY <3>1, <4>1, FS_EmptySet
    <3>2. CASE InodesPerGroup # 1
      BY <1>1, <3>2, FS_Interval
    <3>3. QED
      BY <3>1, <3>2
  <2>3. /\ IsFiniteSet(0..(InodesPerGroup - 1))
        /\ Cardinality(0..(InodesPerGroup - 1)) = InodesPerGroup
    BY <1>1, FS_Interval
  <2>4. room[g] = IF g = 0 THEN InodesPerGroup - 1 ELSE InodesPerGroup
    OBVIOUS
  <2> HIDE DEF room
  <2>5. QED
    BY <2>1, <2>2, <2>3, <2>4, FS_Subset, FS_CardinalityType
<1>3. PICK h \in Groups : h = pending.home
  BY DEF Housed
<1> DEFINE owed == [g \in Groups |-> homes[g] + Owed(g)]
<1>4. PICK a, b : a = homes /\ b = owed
  OBVIOUS
<1>5. /\ a \in [Groups -> Nat] /\ b \in [Groups -> Nat]
      /\ b[h] = a[h] + 1 /\ \A g \in Groups \ {h} : b[g] = a[g]
  <2>1. \A g \in Groups : Owed(g) = IF g = h THEN 1 ELSE 0
    BY <1>3 DEF Owed
  <2>2. homes \in [Groups -> Nat]
    BY DEF Housed
  <2>3. QED
    BY <1>4, <2>1, <2>2
<1>6. SumOver(b) = SumOver(a) + 1
  <2>1. SumOver(b) = SumOver(a) + b[h] - a[h]
    BY <1>5, SumChange
  <2>2. SumOver(a) \in Nat /\ a[h] \in Nat
    BY <1>5, SumType
  <2>3. QED
    BY <1>5, <2>1, <2>2
<1>7. room \in [Groups -> Nat] /\ all \in [Groups -> Nat]
      /\ room[0] = all[0] - 1 /\ all[0] \in Nat /\ \A g \in Groups \ {0} : all[g] = room[g]
  BY <1>1
<1>8. SumOver(all) = NumGroups * InodesPerGroup
  BY <1>1, SumConstant
<1>9. \A g \in Groups : b[g] <= room[g]
  <2>1. ASSUME NEW g \in Groups
        PROVE  b[g] <= room[g]
    <3>1. b[g] = homes[g] + Owed(g) /\ b[g] \in Nat
      BY <1>4, <1>5
    <3>2. homes[g] + Owed(g) <= Cardinality(InUse(g))
      BY DEF Housed
    <3>3. room[g] \in Nat
      BY <1>7
    <3> HIDE DEF room
    <3>4. QED
      BY <1>2, <3>1, <3>2, <3>3
  <2>2. QED
    BY <2>1
<1> HIDE DEF room, all, owed
<1>10. SumOver(b) <= SumOver(room) /\ SumOver(b) \in Nat /\ SumOver(room) \in Nat
  BY <1>5, <1>7, <1>9, SumMonotone, SumType
<1>11. SumOver(all) = SumOver(room) + all[0] - room[0]
  BY <1>1, <1>7, SumChange
<1>12. SumOver(room) + 1 = SumOver(all)
  BY <1>7, <1>10, <1>11
<1>13. SumOver(a) \in Nat
  BY <1>5, SumType
<1>14. NumGroups * InodesPerGroup \in Nat
  BY <1>1
<1>15. SumOver(a) + 1 < NumGroups * InodesPerGroup
  BY <1>6, <1>8, <1>10, <1>12, <1>13, <1>14
<1>16. QED
  BY <1>4, <1>15

\* DirsCounted, of counts in the handle (u), on disk (m), and directories (h).
Tally(u, m, h, ex, sp) ==
    /\ SumOver(u) <= SumOver(h)
    /\ \A g \in Groups : m[g] <= u[g]
    /\ ex => SumOver(u) = SumOver(h)
    /\ ex /\ ~ sp => \A g \in Groups : u[g] = h[g]

InHandle == [g \in Groups |-> UsedDirs(g)]
OnDisk == [g \in Groups |-> Joined(Mounted[g], "dirs")]

\* The inductive invariant: until an inode is allocated in another group than
\* wanted, mkdir's directory is counted where it lives.
Tallied ==
    /\ \A g \in Groups : DirsKept(groups[g]) /\ DirsKept(Mounted[g])
    /\ exact /\ ~ spilled /\ pending # <<>> => pending.parent = pending.home
    /\ Tally(InHandle, OnDisk, homes, exact, spilled)

LEMMA TallyIsCounted == Tally(InHandle, OnDisk, homes, exact, spilled) <=> DirsCounted
BY DEF Tally, InHandle, OnDisk, DirsCounted

LEMMA TallyTypes ==
    ASSUME format \in Formats, Tallied
    PROVE  InHandle \in [Groups -> Nat] /\ OnDisk \in [Groups -> Nat]
BY DirsAre DEF Tallied, InHandle, OnDisk, UsedDirs

\* What a step does to the counts in the handle and on disk.
Counts(u, m) ==
    /\ \A g \in Groups : DirsKept(groups[g])' /\ DirsKept(Mounted[g])'
    /\ InHandle' = u /\ OnDisk' = m

LEMMA CountsFrom ==
    ASSUME format' = format, NEW u \in [Groups -> Nat], NEW m \in [Groups -> Nat],
           \A g \in Groups :
                /\ Joined(groups'[g], "dirs") = u[g] /\ DirsKept(groups'[g])
                /\ Joined(Mounted'[g], "dirs") = m[g] /\ DirsKept(Mounted'[g])
    PROVE  Counts(u, m)
<1>1. ASSUME NEW g \in Groups
      PROVE  /\ Joined(groups[g], "dirs")' = u[g]
             /\ Joined(Mounted[g], "dirs")' = m[g]
  BY DEF Joined, Width
<1>2. InHandle' = u /\ OnDisk' = m
  <2>1. InHandle' = [g \in Groups |-> u[g]] /\ OnDisk' = [g \in Groups |-> m[g]]
    BY <1>1 DEF InHandle, OnDisk, UsedDirs
  <2>2. QED
    BY <2>1
<1>3. \A g \in Groups : DirsKept(groups[g])' /\ DirsKept(Mounted[g])'
  BY <1>1 DEF DirsKept
<1>4. QED
  BY <1>2, <1>3 DEF Counts

\* What the descriptors say of directories.
LEMMA TalliedFacts ==
    ASSUME Tallied, NEW g \in Groups
    PROVE  /\ Joined(groups[g], "dirs") = InHandle[g] /\ Joined(Mounted[g], "dirs") = OnDisk[g]
           /\ DirsKept(groups[g]) /\ DirsKept(Mounted[g])
BY DEF Tallied, InHandle, OnDisk, UsedDirs

LEMMA AllocateCounts ==
    ASSUME AsStored, Tallied, NEW k \in Kinds, NEW p \in Groups, AllocateBytes(k, p), format' = format
    PROVE  Counts(InHandle, OnDisk)
<1>1. PICK u, m : u = InHandle /\ m = OnDisk
  OBVIOUS
<1>2. u \in [Groups -> Nat] /\ m \in [Groups -> Nat]
  BY <1>1, TallyTypes DEF AsStored, Shapes
<1>3. \A g \in Groups : Mounted'[g] = Mounted[g]
  BY MountedSame DEF AllocateBytes
<1>4. ASSUME NEW g \in Groups
      PROVE  Joined(groups'[g], "dirs") = u[g] /\ DirsKept(groups'[g])
  <2>1. groups'[g] = groups[g]
        \/ groups'[g] = SetCount(groups[g], k, SaturatingPred(Joined(groups[g], k)))
    BY DEF AllocateBytes
  <2>2. /\ format \in Formats /\ Descriptor(groups[g])
        /\ k \in Fields \ {"table"} /\ "dirs" \in Fields \ {k}
    BY DEF AsStored, Shapes, Fields, Kinds
  <2>3. Joined(groups[g], "dirs") = u[g] /\ DirsKept(groups[g])
    BY <1>1, TalliedFacts
  <2>4. PICK n : n = SaturatingPred(Joined(groups[g], k))
    OBVIOUS
  <2>5. /\ SetCount(groups[g], k, n).hi["dirs"] = groups[g].hi["dirs"]
        /\ SetCount(groups[g], k, n).lo["dirs"] = groups[g].lo["dirs"]
        /\ Joined(SetCount(groups[g], k, n), "dirs") = Joined(groups[g], "dirs")
    BY <2>2, CountSet
  <2>6. QED
    BY <2>1, <2>3, <2>4, <2>5 DEF DirsKept
<1>5. \A g \in Groups :
        Joined(Mounted'[g], "dirs") = m[g] /\ DirsKept(Mounted'[g])
  BY <1>1, <1>3, TalliedFacts
<1>6. Counts(u, m)
  BY <1>2, <1>4, <1>5, CountsFrom
<1>7. QED
  BY <1>1, <1>6

LEMMA NothingCounted ==
    ASSUME format \in Formats, Tallied, UNCHANGED <<format, table, groups>>, Stride(super') = Stride(super)
    PROVE  Counts(InHandle, OnDisk)
<1>1. PICK u, m : u = InHandle /\ m = OnDisk
  OBVIOUS
<1>2. u \in [Groups -> Nat] /\ m \in [Groups -> Nat]
  BY <1>1, TallyTypes
<1>3. \A g \in Groups : Mounted'[g] = Mounted[g]
  BY DEF Mounted, FromBytes, Stride, Zeros
<1>4. \A g \in Groups :
                /\ Joined(groups'[g], "dirs") = u[g] /\ DirsKept(groups'[g])
                /\ Joined(Mounted'[g], "dirs") = m[g] /\ DirsKept(Mounted'[g])
  BY <1>1, <1>3, TalliedFacts
<1>5. Counts(u, m)
  BY <1>2, <1>4, CountsFrom
<1>6. QED
  BY <1>1, <1>5

\* The count of the parent's group, which stays within its field.
LEMMA EndMkdirCounts ==
    ASSUME AsStored, Housed, Tallied, EndMkdir, format' = format
    PROVE  Counts([InHandle EXCEPT ![pending.parent] = @ + 1], OnDisk)
<1>1. PICK u, m, h, p : u = InHandle /\ m = OnDisk /\ h = homes /\ p = pending.parent
  OBVIOUS
<1>2. /\ u \in [Groups -> Nat] /\ m \in [Groups -> Nat] /\ h \in [Groups -> Nat]
      /\ p \in Groups /\ pending # <<>>
  BY <1>1, TallyTypes DEF AsStored, Shapes, Housed, EndMkdir
<1>3. u[p] + 1 \in Nat /\ u[p] + 1 < Width("dirs") * Width("dirs")
  <2>1. u[p] <= SumOver(u) /\ SumOver(u) \in Nat /\ SumOver(h) \in Nat /\ u[p] \in Nat
    BY <1>2, SumCovers, SumType
  <2>2. SumOver(u) <= SumOver(h)
    BY <1>1 DEF Tallied, Tally
  <2>3. SumOver(h) + 1 < NumGroups * InodesPerGroup
    BY <1>1, <1>2, HousedFits DEF AsStored
  <2>4. NumGroups * InodesPerGroup <= Width("dirs") * Width("dirs")
    BY Format, FormatAssumption DEF AsStored, Shapes
  <2>5. NumGroups * InodesPerGroup \in Nat /\ Width("dirs") * Width("dirs") \in Nat
    BY GeometryAssumption, Format DEF AsStored, Shapes, Fields
  <2>6. QED
    BY <2>1, <2>2, <2>3, <2>4, <2>5
<1>4. \A g \in Groups :
        groups'[g] = IF g = p THEN SetCount(groups[g], "dirs", u[p] + 1) ELSE groups[g]
  <2>1. Joined(groups[p], "dirs") = u[p]
    BY <1>1, <1>2, TalliedFacts
  <2>2. DOMAIN groups = Groups
    BY DEF AsStored, Shapes
  <2>3. QED
    BY <1>1, <1>2, <2>1, <2>2 DEF EndMkdir
<1>5. \A g \in Groups : Mounted'[g] = Mounted[g]
  BY MountedSame DEF EndMkdir
<1>6. PICK v : v = [u EXCEPT ![p] = @ + 1]
  OBVIOUS
<1>7. v \in [Groups -> Nat] /\ v[p] = u[p] + 1 /\ \A g \in Groups \ {p} : v[g] = u[g]
  BY <1>2, <1>6
<1>8. ASSUME NEW g \in Groups
      PROVE  Joined(groups'[g], "dirs") = v[g] /\ DirsKept(groups'[g])
  <2>1. CASE g = p
    <3>1. /\ format \in Formats /\ Descriptor(groups[g]) /\ "dirs" \in Fields \ {"table"}
      BY DEF AsStored, Shapes, Fields
    <3>2. PICK n : n = u[p] + 1
      OBVIOUS
    <3>3. PICK set : set = SetCount(groups[g], "dirs", n)
      OBVIOUS
    <3>4. set.lo["dirs"] = Lo("dirs", n) /\ set.hi["dirs"] = Hi("dirs", n)
      BY <3>1, <3>3, CountSet
    <3>5. /\ Lo("dirs", n) + Width("dirs") * Hi("dirs", n) = n
          /\ Lo("dirs", n) \in Nat /\ Hi("dirs", n) \in Nat
      BY <1>3, <3>1, <3>2, StoredNumber
    <3>6. groups'[g] = set
      BY <1>4, <2>1, <3>2, <3>3
    <3>7. v[g] = n
      BY <1>7, <2>1, <3>2
    <3>8. QED
      BY <3>4, <3>5, <3>6, <3>7 DEF Joined, DirsKept
  <2>2. CASE g # p
    BY <1>1, <1>4, <1>7, <2>2, TalliedFacts
  <2>3. QED
    BY <2>1, <2>2
<1>9. \A g \in Groups :
        Joined(Mounted'[g], "dirs") = m[g] /\ DirsKept(Mounted'[g])
  BY <1>1, <1>5, TalliedFacts
<1>10. Counts(v, m)
  BY <1>2, <1>7, <1>8, <1>9, CountsFrom
<1>11. QED
  BY <1>1, <1>6, <1>10

\* sync_metadata's descriptors: the count of one group reaches the disk, or as
\* much of it as 32 bytes hold.
LEMMA SyncGroupCounts ==
    ASSUME AsStored, Tallied, SyncGroupBytes, format' = format
    PROVE  \E h \in Groups, x \in Nat :
                x <= InHandle[h] /\ Counts(InHandle, [OnDisk EXCEPT ![h] = x])
<1>1. PICK u, m : u = InHandle /\ m = OnDisk
  OBVIOUS
<1>2. u \in [Groups -> Nat] /\ m \in [Groups -> Nat] /\ format \in Formats
  BY <1>1, TallyTypes DEF AsStored, Shapes
<1>3. PICK h \in Groups :
        /\ Mounted'[h].lo = groups[h].lo
        /\ Mounted'[h].hi = IF format.is64 THEN groups[h].hi ELSE Zeros
        /\ \A g \in Groups \ {h} : Mounted'[g] = Mounted[g]
  BY SyncGroupStored
<1>4. groups' = groups
  BY DEF SyncGroupBytes
<1>5. PICK x : x = Joined(Mounted'[h], "dirs")
  OBVIOUS
<1>6. x \in Nat /\ x <= u[h] /\ DirsKept(Mounted'[h])
  <2>1. Joined(groups[h], "dirs") = u[h] /\ DirsKept(groups[h])
    BY <1>1, TalliedFacts
  <2>2. Zeros["dirs"] = 0
    BY DEF Zeros, Fields
  <2>3. /\ Mounted'[h].lo["dirs"] = groups[h].lo["dirs"]
        /\ Mounted'[h].hi["dirs"] = IF format.is64 THEN groups[h].hi["dirs"] ELSE 0
    BY <1>3, <2>2
  <2>4. DirsKept(Mounted'[h])
    BY <2>1, <2>3 DEF DirsKept
  <2>5. /\ x = groups[h].lo["dirs"] + format.base * Mounted'[h].hi["dirs"]
        /\ u[h] = groups[h].lo["dirs"] + format.base * groups[h].hi["dirs"]
        /\ x \in Nat /\ u[h] \in Nat /\ groups[h].lo["dirs"] <= u[h]
    BY <1>2, <1>5, <2>1, <2>3, <2>4, DirsAre
  <2>6. format.base \in Nat /\ groups[h].lo["dirs"] \in Nat
    BY <1>2, <2>1, Format DEF DirsKept, Fields
  <2>7. ~ format.is64 => x = groups[h].lo["dirs"]
    <3>1. format.base * 0 = 0
      BY <2>6
    <3>2. QED
      BY <2>3, <2>5, <2>6, <3>1
  <2>8. QED
    BY <2>3, <2>4, <2>5, <2>7
<1>7. PICK n : n = [m EXCEPT ![h] = x]
  OBVIOUS
<1>8. n \in [Groups -> Nat] /\ n[h] = x /\ \A g \in Groups \ {h} : n[g] = m[g]
  BY <1>2, <1>6, <1>7
<1>9. \A g \in Groups : Joined(groups'[g], "dirs") = u[g] /\ DirsKept(groups'[g])
  BY <1>1, <1>4, TalliedFacts
<1>10. ASSUME NEW g \in Groups
       PROVE  Joined(Mounted'[g], "dirs") = n[g] /\ DirsKept(Mounted'[g])
  <2>1. CASE g = h
    BY <1>5, <1>6, <1>8, <2>1
  <2>2. CASE g # h
    BY <1>1, <1>3, <1>8, <2>2, TalliedFacts
  <2>3. QED
    BY <2>1, <2>2
<1>11. Counts(u, n)
  BY <1>2, <1>8, <1>9, <1>10, CountsFrom
<1>12. QED
  BY <1>1, <1>6, <1>7, <1>11

LEMMA RemountCounts ==
    ASSUME format \in Formats, Tallied, RemountBytes, format' = format
    PROVE  Counts(OnDisk, OnDisk)
<1>1. PICK m : m = OnDisk
  OBVIOUS
<1>2. m \in [Groups -> Nat]
  BY <1>1, TallyTypes
<1>3. groups' = Mounted /\ \A g \in Groups : Mounted'[g] = Mounted[g]
  BY MountedSame DEF RemountBytes, Remount, disk
<1>4. \A g \in Groups :
                /\ Joined(groups'[g], "dirs") = m[g] /\ DirsKept(groups'[g])
                /\ Joined(Mounted'[g], "dirs") = m[g] /\ DirsKept(Mounted'[g])
  BY <1>1, <1>3, TalliedFacts
<1>5. Counts(m, m)
  BY <1>2, <1>4, CountsFrom
<1>6. QED
  BY <1>1, <1>5

\* The counts of what is counted in every group.
LEMMA TalliedFrom ==
    ASSUME NEW u, NEW m, Counts(u, m), Tally(u, m, homes', exact', spilled'),
           exact' /\ ~ spilled' /\ pending' # <<>> => pending'.parent = pending'.home
    PROVE  Tallied'
<1>1. Tally(InHandle, OnDisk, homes, exact, spilled)' = Tally(InHandle', OnDisk', homes', exact', spilled')
  BY DEF Tally, SumOver
<1>2. Tally(InHandle', OnDisk', homes', exact', spilled')
  BY DEF Counts
<1>3. QED
  BY <1>1, <1>2 DEF Counts, Tallied

LEMMA TalliedInit == DescriptorsInit => Housed /\ Tallied
<1> SUFFICES ASSUME DescriptorsInit PROVE Housed /\ Tallied
  OBVIOUS
<1>1. /\ TypeOK /\ pending = <<>> /\ exact = TRUE /\ spilled = FALSE /\ groups = Mounted
      /\ homes \in [Groups -> Nat] /\ 0 \in bitmap["inode"][0]
      /\ \A g \in Groups : homes[g] <= Cardinality(InUse(g))
  <2>1. Init
    BY DEF DescriptorsInit
  <2>2. TypeOK
    BY <2>1, TypeInit
  <2>3. InodesPerGroup \in Nat
    BY GeometryAssumption
  <2>4. QED
    BY <2>2, <2>3 DEF DescriptorsInit, InUse, NoDirectory
<1>2. Housed
  <2>1. \A g \in Groups : homes[g] + Owed(g) <= Cardinality(InUse(g))
    BY <1>1 DEF Owed
  <2>2. QED
    BY <1>1, <2>1 DEF Housed
<1>3. \A g \in Groups : DirsKept(Mounted[g]) /\ Joined(Mounted[g], "dirs") = homes[g]
  BY InitStored
<1>4. InHandle = homes /\ OnDisk = homes
  BY <1>1, <1>3 DEF InHandle, OnDisk, UsedDirs
<1>5. Tally(homes, homes, homes, exact, spilled)
  <2>1. SumOver(homes) \in Nat
    BY <1>1, SumType
  <2>2. QED
    BY <1>1, <2>1 DEF Tally
<1>6. QED
  BY <1>1, <1>2, <1>3, <1>4, <1>5 DEF Tallied

LEMMA TalliedNext ==
    AsStored /\ Housed /\ Tallied /\ [DescriptorsNext]_allVars => Tallied'
<1> SUFFICES ASSUME AsStored, Housed, Tallied, [DescriptorsNext]_allVars PROVE Tallied'
  OBVIOUS
<1>1. PICK u, m, h, h2 : u = InHandle /\ m = OnDisk /\ h = homes /\ h2 = homes'
  OBVIOUS
<1>2. Housed'
  BY HousedNext DEF AsStored
<1>3. /\ u \in [Groups -> Nat] /\ m \in [Groups -> Nat]
      /\ h \in [Groups -> Nat] /\ h2 \in [Groups -> Nat]
  BY <1>1, <1>2, TallyTypes DEF AsStored, Shapes, Housed
<1>4. SumOver(u) \in Nat /\ SumOver(m) \in Nat /\ SumOver(h) \in Nat /\ SumOver(h2) \in Nat
  BY <1>3, SumType
<1>5. Tally(u, m, h, exact, spilled)
  BY <1>1 DEF Tallied
<1>6. exact /\ ~ spilled /\ pending # <<>> => pending.parent = pending.home
  BY DEF Tallied
<1>7. ASSUME NEW k \in Kinds, NEW p \in Groups, AllocateOther(k, p), format' = format
      PROVE  Tallied'
  <2>1. Counts(u, m)
    BY <1>1, <1>7, AllocateCounts DEF AllocateOther
  <2>2. UNCHANGED <<pending, homes, exact, spilled>>
    BY <1>7 DEF AllocateOther, dirHistory
  <2>3. Tally(u, m, homes', exact', spilled')
    BY <1>1, <1>5, <2>2
  <2>4. QED
    BY <1>6, <2>1, <2>2, <2>3, TalliedFrom
<1>8. ASSUME NEW p \in Groups, BeginMkdir(p), format' = format
      PROVE  Tallied'
  <2>1. "inode" \in Kinds /\ AllocateBytes("inode", p)
    BY <1>8 DEF BeginMkdir, Kinds
  <2>2. Counts(u, m)
    BY <1>1, <1>8, <2>1, AllocateCounts
  <2>3. /\ UNCHANGED <<homes, exact>>
        /\ \E g \in Groups :
            pending' = [parent |-> p, home |-> g] /\ spilled' = (spilled \/ g # p)
    BY <1>8 DEF BeginMkdir
  <2>4. PICK g \in Groups :
            pending' = [parent |-> p, home |-> g] /\ spilled' = (spilled \/ g # p)
    BY <2>3
  <2>5. ~ spilled' => ~ spilled /\ g = p
    BY <2>4
  <2>6. Tally(u, m, homes', exact', spilled')
    BY <1>1, <1>5, <2>3, <2>5 DEF Tally
  <2>7. pending'.parent = p /\ pending'.home = g
    BY <2>4
  <2>8. QED
    BY <2>2, <2>5, <2>6, <2>7, TalliedFrom
<1>9. ASSUME EndMkdir, format' = format
      PROVE  Tallied'
  <2>1. PICK p, c \in Groups : p = pending.parent /\ c = pending.home /\ pending # <<>>
    BY <1>9 DEF EndMkdir, Housed
  <2>2. /\ h2 = [h EXCEPT ![c] = @ + 1]
        /\ pending' = <<>> /\ UNCHANGED <<exact, spilled>>
    BY <1>1, <1>9, <2>1 DEF EndMkdir
  <2>3. PICK v : v = [u EXCEPT ![p] = @ + 1]
    OBVIOUS
  <2>4. Counts(v, m)
    BY <1>1, <1>9, <2>1, <2>3, EndMkdirCounts
  <2>5. v \in [Groups -> Nat] /\ v[p] = u[p] + 1 /\ \A g \in Groups \ {p} : v[g] = u[g]
    BY <1>3, <2>3
  <2>6. h2[c] = h[c] + 1 /\ \A g \in Groups \ {c} : h2[g] = h[g]
    BY <1>3, <2>2
  <2>7. SumOver(v) = SumOver(u) + 1
    <3>1. SumOver(v) = SumOver(u) + v[p] - u[p] /\ u[p] \in Nat
      BY <1>3, <2>5, SumChange
    <3>2. QED
      BY <1>4, <2>5, <3>1
  <2>8. SumOver(h2) = SumOver(h) + 1
    <3>1. SumOver(h2) = SumOver(h) + h2[c] - h[c] /\ h[c] \in Nat
      BY <1>3, <2>6, SumChange
    <3>2. QED
      BY <1>4, <2>6, <3>1
  <2>9. Tally(v, m, h2, exact, spilled)
    <3>1. SumOver(v) <= SumOver(h2) /\ (exact => SumOver(v) = SumOver(h2))
      BY <1>4, <1>5, <2>7, <2>8 DEF Tally
    <3>2. \A g \in Groups : m[g] <= v[g]
      <4>1. \A g \in Groups : m[g] \in Nat /\ u[g] \in Nat /\ m[g] <= u[g]
        BY <1>3, <1>5 DEF Tally
      <4>2. QED
        BY <2>5, <4>1
    <3>3. exact /\ ~ spilled => \A g \in Groups : v[g] = h2[g]
      BY <1>5, <1>6, <2>1, <2>5, <2>6 DEF Tally
    <3>4. QED
      BY <3>1, <3>2, <3>3 DEF Tally
  <2>10. QED
    BY <1>1, <2>2, <2>4, <2>9, TalliedFrom
<1>10. ASSUME AllocateFails, format' = format
       PROVE  Tallied'
  <2>1. Counts(u, m)
    BY <1>1, <1>10, NothingCounted DEF AllocateFails, bytes, AsStored, Shapes
  <2>2. Settled /\ spilled' = spilled /\ ((homes' = homes /\ exact' = exact) \/ exact' = FALSE)
    BY <1>10 DEF AllocateFails, CutShort, Settled
  <2>3. SumOver(h) <= SumOver(h2)
    BY <1>1, <2>2, SettledHomes
  <2>4. Tally(u, m, h2, exact', spilled')
    <3>1. CASE homes' = homes /\ exact' = exact
      BY <1>1, <1>5, <2>2, <3>1
    <3>2. CASE exact' = FALSE
      <4>1. SumOver(u) <= SumOver(h2)
        BY <1>4, <1>5, <2>3 DEF Tally
      <4>2. QED
        BY <1>5, <3>2, <4>1 DEF Tally
    <3>3. QED
      BY <2>2, <3>1, <3>2
  <2>5. QED
    BY <1>1, <2>1, <2>2, <2>4, TalliedFrom DEF Settled
<1>11. ASSUME SyncSuperBytes \/ SyncEndBytes \/ UNCHANGED allVars, format' = format
       PROVE  Tallied'
  <2>1. UNCHANGED <<table, groups, pending, homes, exact, spilled>>
    BY <1>11 DEF SyncSuperBytes, SyncEndBytes, bytes, dirHistory, allVars
  <2>2. Stride(super') = Stride(super)
    <3>1. CASE super' = super
      BY <3>1
    <3>2. CASE super' = SuperToBytes(sb)
      <4>1. /\ super'.is64 = sb.is64 /\ super'.desc_size = sb.desc_size
            /\ sb.is64 = super.is64 /\ sb.desc_size = super.desc_size
        BY <3>2 DEF SuperToBytes, AsStored, Shapes
      <4>2. QED
        BY <4>1 DEF Stride
    <3>3. QED
      BY <1>11, <3>1, <3>2 DEF SyncSuperBytes, SyncEndBytes, bytes, allVars
  <2>3. Counts(u, m)
    BY <1>1, <1>11, <2>1, <2>2, NothingCounted DEF AsStored, Shapes
  <2>4. Tally(u, m, homes', exact', spilled')
    BY <1>1, <1>5, <2>1
  <2>5. QED
    BY <1>6, <2>1, <2>3, <2>4, TalliedFrom
<1>12. ASSUME SyncGroupBytes, format' = format
       PROVE  Tallied'
  <2>1. UNCHANGED <<pending, homes, exact, spilled>>
    BY <1>12 DEF SyncGroupBytes, dirHistory
  <2>2. PICK c \in Groups, x \in Nat : x <= u[c] /\ Counts(u, [m EXCEPT ![c] = x])
    BY <1>1, <1>12, SyncGroupCounts
  <2>3. PICK n : n = [m EXCEPT ![c] = x]
    OBVIOUS
  <2>4. \A g \in Groups : n[g] <= u[g]
    <3>1. \A g \in Groups : m[g] \in Nat /\ u[g] \in Nat /\ m[g] <= u[g]
      BY <1>3, <1>5 DEF Tally
    <3>2. \A g \in Groups : n[g] = IF g = c THEN x ELSE m[g]
      BY <1>3, <2>3
    <3>3. QED
      BY <2>2, <3>1, <3>2
  <2>5. Tally(u, n, homes', exact', spilled')
    BY <1>1, <1>5, <2>1, <2>4 DEF Tally
  <2>6. Counts(u, n)
    BY <2>2, <2>3
  <2>7. QED
    BY <1>6, <2>1, <2>5, <2>6, TalliedFrom
<1>13. ASSUME RemountBytes, format' = format
       PROVE  Tallied'
  <2>1. Counts(m, m)
    BY <1>1, <1>13, RemountCounts DEF AsStored, Shapes
  <2>2. /\ Settled /\ spilled' = spilled
        /\ exact' => exact /\ homes' = homes /\ groups' = groups
    BY <1>13 DEF RemountBytes, Settled
  <2>3. SumOver(h) <= SumOver(h2)
    BY <1>1, <2>2, SettledHomes
  <2>4. SumOver(m) <= SumOver(u)
    BY <1>3, <1>5, SumMonotone DEF Tally
  <2>5. SumOver(m) <= SumOver(h2)
    BY <1>4, <1>5, <2>3, <2>4 DEF Tally
  <2>6. exact' => m = u
    <3>1. ASSUME groups' = groups
          PROVE  m = u
      <4>1. Mounted = groups
        BY <1>13, <3>1 DEF RemountBytes
      <4>2. QED
        BY <1>1, <4>1 DEF InHandle, OnDisk, UsedDirs
    <3>2. QED
      BY <2>2, <3>1
  <2>7. Tally(m, m, h2, exact', spilled')
    <3>1. \A g \in Groups : m[g] <= m[g]
      BY <1>3
    <3>2. exact' => SumOver(m) = SumOver(h2)
      BY <1>1, <1>5, <2>2, <2>6 DEF Tally
    <3>3. exact' /\ ~ spilled' => \A g \in Groups : m[g] = h2[g]
      BY <1>1, <1>5, <2>2, <2>6 DEF Tally
    <3>4. QED
      BY <2>5, <3>1, <3>2, <3>3 DEF Tally
  <2>8. QED
    BY <1>1, <2>1, <2>2, <2>7, TalliedFrom DEF Settled
<1>14. format' = format
  BY DEF DescriptorsNext, allVars
<1>15. QED
  BY <1>7, <1>8, <1>9, <1>10, <1>11, <1>12, <1>13, <1>14 DEF DescriptorsNext

\* used_dirs_count: never more directories than there are, in the handle and on
\* disk, through every failed mkdir, crash and mount, and through a sync that
\* cuts a count to the 16 bits of a short descriptor; in the handle exactly as
\* many until one is linked uncounted or a mount finds a lower count.
THEOREM DirectoriesCounted == DescriptorsSpec => []DirsCounted
<1> DEFINE IInv == AsStored /\ Housed /\ Tallied
<1>1. DescriptorsInit => IInv
  BY InvInit, TalliedInit
<1>2. IInv /\ [DescriptorsNext]_allVars => IInv'
  BY InvNext, HousedNext, TalliedNext DEF AsStored
<1>3. IInv => DirsCounted
  BY TallyIsCounted DEF Tallied
<1>4. QED
  BY <1>1, <1>2, <1>3, PTL DEF DescriptorsSpec


-----------------------------------------------------------------------------
(* Volume.                                                                 *)

CallFields == {"pc", "op", "parent", "name", "data", "ino", "block", "done"}

\* The inodes whose groups a call prefers are inodes.
Callers ==
    call # Files!Idle =>
        /\ DOMAIN call = CallFields
        /\ call.parent \in Numbers("inode")
        /\ call.pc # "allocate_inode" => call.ino \in Numbers("inode")

Inv == TypeOK /\ CountsCoverFree /\ Callers

LEMMA GroupOfInode ==
    ASSUME NEW ino \in Numbers("inode")
    PROVE  GroupOf(ino) \in Groups
<1>1. PICK g \in Groups, b \in Bits("inode") : ino = Number("inode", g, b)
  BY DEF Numbers
<1>2. /\ InodesPerGroup \in Nat \ {0} /\ g \in Nat
      /\ b \in 0..(InodesPerGroup - 1)
  BY GeometryAssumption DEF Groups, Bits, PerGroup
<1>3. ino = g * InodesPerGroup + 1 + b
  BY <1>1 DEF Number, PerGroup
<1>4. g * InodesPerGroup \in Nat
  BY <1>2
<1>5. ino - 1 = g * InodesPerGroup + b
  BY <1>2, <1>3, <1>4
<1>6. GroupOf(ino) = g
  BY <1>2, <1>5, DivUnique DEF GroupOf
<1>7. QED
  BY <1>6

\* Every allocation prefers a group that there is.
LEMMA PreferredGroup ==
    ASSUME Callers, NEW k \in Kinds, Needs(k)
    PROVE  /\ Preferred \in Groups /\ call # Files!Idle
           /\ k = "block" => call.pc # "allocate_inode"
<1>1. /\ k = "inode" => call.pc = "allocate_inode"
      /\ k = "block" => call.pc \in {"allocate_dots", "add", "data"}
  BY DEF Needs, Kinds, Files!At
<1>2. call # Files!Idle
  BY <1>1 DEF Kinds, Files!Idle
<1>3. QED
  BY <1>1, <1>2, GroupOfInode DEF Preferred, Callers, Files!At

-----------------------------------------------------------------------------
(* Steps of Allocator.                                                     *)

LEMMA VolumeSteps == Callers /\ [VolumeNext]_volume => [Next]_vars
<1> SUFFICES ASSUME Callers, [VolumeNext]_volume
             PROVE  [Next]_vars
  OBVIOUS
<1>1. ASSUME NEW k \in Kinds, GetNumber(k) \/ GetLost(k)
      PROVE  Next
  <2>1. Needs(k) /\ (Allocate(k, Preferred) \/ AllocateIoError(k, Preferred))
    BY <1>1 DEF GetNumber, GetLost
  <2>2. QED
    BY <2>1, PreferredGroup DEF Next
<1>2. ASSUME NEW k \in Kinds, GetNothing(k)
      PROVE  Next
  BY <1>2 DEF GetNothing, Next
<1>3. CASE StartCall \/ OtherWrite \/ DeviceError \/ Repaired
  BY <1>3 DEF StartCall, OtherWrite, DeviceError, Repaired
<1>4. CASE PowerLoss \/ SyncMetadata
  BY <1>4 DEF PowerLoss, SyncMetadata, Next
<1>5. CASE UNCHANGED volume
  BY <1>5 DEF volume
<1>6. QED
  BY <1>1, <1>2, <1>3, <1>4, <1>5 DEF VolumeNext, Work

-----------------------------------------------------------------------------
(* Steps of FileOps.                                                       *)

\* A number that the bitmap has just got.
LEMMA TakeOf ==
    ASSUME NEW k \in Kinds, NEW n \in Numbers(k) \ Taken[k],
           Taken' = [Taken EXCEPT ![k] = @ \cup {n}], Needs(k),
           call' = With(k, n), UNCHANGED <<inodes, content, acked, torn, clean>>
    PROVE  Files!Step
<1> USE DEF Files!Take, AnyOf, Files!history
<1>1. CASE k = "inode"
  <2>1. Files!AllocateInode
    BY <1>1 DEF Needs, With, Files!AllocateInode
  <2>2. QED
    BY <2>1 DEF Files!Step
<1>2. CASE k = "block" /\ Files!At("allocate_dots")
  <2>1. Files!AllocateDots
    BY <1>2 DEF With, Files!AllocateDots, Files!AllocateBlockThen, Files!At
  <2>2. QED
    BY <2>1 DEF Files!Step
<1>3. CASE k = "block" /\ Files!At("add") /\ Files!Roomy = {}
  <2>1. Files!Grow
    BY <1>3 DEF With, Files!Grow, Files!AllocateBlockThen, Files!At
  <2>2. QED
    BY <2>1 DEF Files!Step
<1>4. CASE k = "block" /\ Files!At("data") /\ call.done < Len(call.data)
  <2>1. Files!AllocateData
    BY <1>4 DEF With, Files!AllocateData, Files!AllocateBlockThen, Files!At
  <2>2. QED
    BY <2>1 DEF Files!Step
<1>5. QED
  BY <1>1, <1>2, <1>3, <1>4 DEF Needs, Kinds

\* What an allocation has done to the numbers that are taken.
LEMMA AllocationTakes ==
    ASSUME TypeOK, NEW k \in Kinds, NEW p \in Groups, NEW n \in Numbers(k),
           Allocate(k, p), reply' = Granted(k, n)
    PROVE  n \notin Taken[k] /\ Taken' = [Taken EXCEPT ![k] = @ \cup {n}]
<1>1. PICK g \in Groups, b \in Bits(k) :
        /\ b \notin bitmap[k][g]
        /\ bitmap' = Mark(k, g, b)
        /\ reply' = Granted(k, Number(k, g, b))
  BY AllocateEffect
<1>2. n = Number(k, g, b)
  BY <1>1 DEF Granted
<1>3. QED
  BY <1>1, <1>2, MarkTakes

LEMMA LostTakes ==
    ASSUME TypeOK, NEW k \in Kinds, NEW p \in Groups, NEW n \in Numbers(k) \ Taken[k],
           AllocateIoError(k, p), Taken'[k] = Taken[k] \cup {n}
    PROVE  Taken' = [Taken EXCEPT ![k] = @ \cup {n}]
<1>1. CASE UNCHANGED bitmap
  <2>1. Taken' = Taken
    BY <1>1 DEF Taken
  <2>2. QED
    BY <2>1
<1>2. CASE \E g \in Groups, b \in Bits(k) :
                b \notin bitmap[k][g] /\ bitmap' = Mark(k, g, b)
  <2>1. PICK m \in Numbers(k) \ Taken[k] : Taken' = [Taken EXCEPT ![k] = @ \cup {m}]
    BY <1>2, MarkTakes
  <2>2. Taken'[k] = Taken[k] \cup {m}
    BY <2>1 DEF Taken
  <2>3. QED
    BY <2>1, <2>2
<1>3. QED
  BY <1>1, <1>2, IoErrorEffect

\* No number is left when an allocation finds none.
LEMMA NothingLeft ==
    ASSUME TypeOK, CountsCoverFree, NEW k \in Kinds, AllocateNone(k)
    PROVE  Numbers(k) \subseteq Taken[k] /\ Taken' = Taken
<1>1. \A g \in Groups : Bits(k) \subseteq bitmap[k][g]
  BY NotUsableIsFull DEF AllocateNone
<1>2. UNCHANGED bitmap
  BY DEF AllocateNone, disk
<1>3. QED
  BY <1>1, <1>2 DEF Numbers, Taken, IsSet

LEMMA FailsForWant ==
    ASSUME NEW k \in Kinds, Numbers(k) \subseteq Taken[k], Needs(k), Files!Fail
    PROVE  Files!Step
<1>1. CASE k = "inode"
  <2>1. Files!AllocateInode
    BY <1>1 DEF Needs, Files!AllocateInode
  <2>2. QED
    BY <2>1 DEF Files!Step
<1>2. CASE k = "block"
  <2>1. \A pc : Files!AllocateBlockThen(pc)
    BY <1>2 DEF Files!AllocateBlockThen
  <2>2. Files!AllocateDots \/ Files!Grow \/ Files!AllocateData
    BY <1>2, <2>1 DEF Needs, Files!AllocateDots, Files!Grow, Files!AllocateData
  <2>3. QED
    BY <2>2 DEF Files!Step
<1>3. QED
  BY <1>1, <1>2 DEF Kinds

LEMMA StepsOfFileOps ==
    Inv /\ [VolumeNext]_volume => [Files!ReliableNext]_<<Files!vars, reliable>>
<1> SUFFICES ASSUME Inv, [VolumeNext]_volume
             PROVE  [Files!ReliableNext]_<<Files!vars, reliable>>
  OBVIOUS
<1>1. ASSUME NEW k \in Kinds, GetNumber(k)
      PROVE  Files!Step /\ UNCHANGED reliable
  <2>1. PICK n \in Numbers(k) :
            /\ Allocate(k, Preferred) /\ reply' = Granted(k, n) /\ call' = With(k, n)
    BY <1>1 DEF GetNumber
  <2>2. /\ Needs(k) /\ Preferred \in Groups
        /\ UNCHANGED <<inodes, content, acked, torn, clean, reliable>>
    BY <1>1, PreferredGroup DEF GetNumber, Inv
  <2>3. n \notin Taken[k] /\ Taken' = [Taken EXCEPT ![k] = @ \cup {n}]
    BY <2>1, <2>2, AllocationTakes DEF Inv
  <2>4. QED
    BY <2>1, <2>2, <2>3, TakeOf
<1>2. ASSUME NEW k \in Kinds, GetLost(k)
      PROVE  Files!Step /\ UNCHANGED reliable
  <2>1. PICK n \in Numbers(k) \ Taken[k] : Taken'[k] = Taken[k] \cup {n} /\ call' = With(k, n)
    BY <1>2 DEF GetLost
  <2>2. /\ Needs(k) /\ Preferred \in Groups /\ AllocateIoError(k, Preferred)
        /\ UNCHANGED <<inodes, content, acked, torn, clean, reliable>>
    BY <1>2, PreferredGroup DEF GetLost, Inv
  <2>3. Taken' = [Taken EXCEPT ![k] = @ \cup {n}]
    BY <2>1, <2>2, LostTakes DEF Inv
  <2>4. QED
    BY <2>1, <2>2, <2>3, TakeOf
<1>3. ASSUME NEW k \in Kinds, GetNothing(k)
      PROVE  Files!Step /\ UNCHANGED reliable
  BY <1>3, NothingLeft, FailsForWant DEF GetNothing, Inv
<1>4. CASE StartCall \/ OtherWrite
  BY <1>4 DEF StartCall, OtherWrite, Files!ReliableNext, Files!Step
<1>5. CASE DeviceError
  BY <1>5 DEF DeviceError, Files!ReliableNext
<1>6. CASE PowerLoss
  <2>1. Taken' = Taken
    BY <1>6 DEF PowerLoss, Remount, disk, Taken
  <2>2. CASE call = Files!Idle /\ UNCHANGED files
    BY <1>6, <2>1, <2>2 DEF PowerLoss, files, Files!vars
  <2>3. CASE ~ reliable /\ Files!Abort
    BY <1>6, <2>3 DEF PowerLoss, Files!ReliableNext
  <2>4. QED
    BY <1>6, <2>2, <2>3 DEF PowerLoss
<1>7. CASE SyncMetadata
  <2>1. UNCHANGED bitmap
    BY <1>7 DEF SyncMetadata, SyncSuper, SyncGroup, SyncEnd, disk
  <2>2. Taken' = Taken
    BY <2>1 DEF Taken
  <2>3. QED
    BY <1>7, <2>2 DEF SyncMetadata, files, Files!vars
<1>8. CASE Repaired
  <2>1. Taken' = Taken
    BY <1>8 DEF Repaired, vars, Taken
  <2>2. QED
    BY <1>8, <2>1 DEF Repaired, files, Files!vars, Files!ReliableNext
<1>9. CASE UNCHANGED volume
  BY <1>9 DEF volume, vars, files, Taken, Files!vars
<1>10. QED
  BY <1>1, <1>2, <1>3, <1>4, <1>5, <1>6, <1>7, <1>8, <1>9
     DEF VolumeNext, Work, Files!ReliableNext

-----------------------------------------------------------------------------
(* The invariant.                                                          *)

LEMMA WithIs ==
    ASSUME NEW k \in Kinds, NEW n, DOMAIN call = CallFields
    PROVE  /\ DOMAIN With(k, n) = CallFields
           /\ With(k, n).parent = call.parent
           /\ With(k, n).ino = IF k = "inode" THEN n ELSE call.ino
           /\ With(k, n).pc # "allocate_inode"
<1>1. CASE k = "inode"
  <2> DEFINE pc == IF call.op = "mkdir" THEN "allocate_dots" ELSE "new_file"
             mid == [call EXCEPT !.ino = n]
  <2>1. With(k, n) = [mid EXCEPT !.pc = pc]
    BY <1>1 DEF With
  <2>2. pc # "allocate_inode"
    OBVIOUS
  <2>3. DOMAIN mid = CallFields /\ mid.parent = call.parent /\ mid.ino = n
    BY DEF CallFields
  <2> HIDE DEF mid, pc
  <2>4. QED
    BY <1>1, <2>1, <2>2, <2>3 DEF CallFields
<1>2. CASE k # "inode"
  <2> DEFINE pc == IF call.pc = "allocate_dots" THEN "write_dots"
                   ELSE IF call.pc = "add" THEN "write_entry" ELSE "write_data"
             mid == [call EXCEPT !.block = n]
  <2>1. With(k, n) = [mid EXCEPT !.pc = pc]
    BY <1>2 DEF With, CallFields
  <2>2. pc # "allocate_inode"
    OBVIOUS
  <2>3. DOMAIN mid = CallFields /\ mid.parent = call.parent /\ mid.ino = call.ino
    BY DEF CallFields
  <2> HIDE DEF mid, pc
  <2>4. QED
    BY <1>2, <2>1, <2>2, <2>3 DEF CallFields
<1>3. QED
  BY <1>1, <1>2

LEMMA GotoCallers ==
    ASSUME Callers, call # Files!Idle, call.pc # "allocate_inode", NEW pc,
           pc # "allocate_inode", call' = [call EXCEPT !.pc = pc]
    PROVE  Callers'
BY DEF Callers, CallFields

LEMMA StartCallers ==
    ASSUME NEW op, NEW path, NEW name, NEW data, Files!Start(op, path, name, data)
    PROVE  Callers'
<1> DEFINE parent == Files!Resolve(path)
           found == Files!Lookup(parent, name)
           new == [pc |-> "allocate_inode", op |-> op, parent |-> parent, name |-> name,
                   data |-> data, ino |-> Root, block |-> CHOOSE b \in Numbers("block") : TRUE,
                   done |-> 0]
<1>1. /\ parent \in Numbers("inode")
      /\ \/ call' = new
         \/ found \in Numbers("inode") /\ call' = [new EXCEPT !.pc = "data", !.ino = found]
  BY DEF Files!Start
<1>2. DOMAIN new = CallFields /\ new.parent = parent /\ new.pc = "allocate_inode"
  BY DEF CallFields
<1> HIDE DEF new, parent, found
<1>3. CASE call' = new
  BY <1>1, <1>2, <1>3 DEF Callers
<1>4. CASE found \in Numbers("inode") /\ call' = [new EXCEPT !.pc = "data", !.ino = found]
  <2> DEFINE mid == [new EXCEPT !.pc = "data"]
  <2>1. DOMAIN mid = CallFields /\ mid.parent = parent /\ mid.pc = "data"
    BY <1>2 DEF CallFields
  <2>2. call' = [mid EXCEPT !.ino = found]
    BY <1>4
  <2> HIDE DEF mid
  <2>3. DOMAIN call' = CallFields /\ call'.parent = parent /\ call'.ino = found
    BY <2>1, <2>2 DEF CallFields
  <2>4. QED
    BY <1>1, <1>4, <2>3 DEF Callers
<1>5. QED
  BY <1>1, <1>3, <1>4

LEMMA CallersNext == Callers /\ [VolumeNext]_volume => Callers'
<1> SUFFICES ASSUME Callers, [VolumeNext]_volume
             PROVE  Callers'
  OBVIOUS
<1>1. ASSUME NEW k \in Kinds, NEW n \in Numbers(k), Needs(k), call' = With(k, n)
      PROVE  Callers'
  <2>1. call # Files!Idle /\ (k = "block" => call.pc # "allocate_inode")
    BY <1>1, PreferredGroup
  <2>2. /\ DOMAIN call' = CallFields /\ call'.parent = call.parent
        /\ call'.ino = IF k = "inode" THEN n ELSE call.ino
    BY <1>1, <2>1, WithIs DEF Callers
  <2>3. QED
    BY <1>1, <2>1, <2>2 DEF Callers, Kinds
<1>2. ASSUME NEW k \in Kinds, GetNumber(k) \/ GetLost(k)
      PROVE  Callers'
  <2>1. Needs(k) /\ \E n \in Numbers(k) : call' = With(k, n)
    BY <1>2 DEF GetNumber, GetLost
  <2>2. QED
    BY <1>1, <2>1
<1>3. ASSUME Files!Fail
      PROVE  Callers'
  BY <1>3 DEF Files!Fail, Callers, Files!Idle
<1>4. ASSUME NEW k \in Kinds, GetNothing(k)
      PROVE  Callers'
  BY <1>3, <1>4 DEF GetNothing
<1>5. CASE StartCall
  BY <1>5, StartCallers DEF StartCall, Files!WriteFile, Files!Mkdir
<1>6. CASE DeviceError
  BY <1>3, <1>6 DEF DeviceError, Files!Abort
<1>7. CASE OtherWrite
  <2>1. ASSUME call.pc \notin {"idle", "allocate_inode"}, NEW pc, pc # "allocate_inode",
               Files!Goto(pc)
        PROVE  Callers'
    <3>1. call # Files!Idle
      BY <2>1 DEF Files!Idle
    <3>2. QED
      BY <2>1, <3>1, GotoCallers DEF Files!Goto
  <2>2. CASE Files!WriteNewFile \/ Files!WriteDots \/ Files!SizeNewDir \/ Files!WriteEntry
             \/ Files!CountLink \/ Files!WriteData
    <3>1. \/ call.pc = "new_file" /\ Files!Goto("add")
          \/ call.pc = "write_dots" /\ Files!Goto("new_dir")
          \/ call.pc = "size_dir" /\ Files!Goto("add")
          \/ call.pc = "write_entry" /\ Files!Goto("append_entry")
          \/ call.pc = "links" /\ Files!Goto("flush")
          \/ call.pc = "write_data" /\ Files!Goto("append_data")
      BY <2>2, Zenon DEF Files!WriteNewFile, Files!WriteDots, Files!SizeNewDir,
         Files!WriteEntry, Files!CountLink, Files!WriteData, Files!At
    <3>2. QED
      BY <2>1, <3>1
  <2>3. CASE Files!WriteNewDir \/ Files!AppendEntry
    <3>1. \/ Files!Fail
          \/ call.pc = "new_dir" /\ Files!Goto("size_dir")
          \/ call.pc = "append_entry" /\ Files!Goto("size_parent")
      BY <2>3, Zenon DEF Files!WriteNewDir, Files!AppendEntry, Files!AppendExtentThen, Files!At
    <3>2. QED
      BY <1>3, <2>1, <3>1
  <2>4. CASE Files!AddInPlace \/ Files!SizeParent
    <3>1. call.pc \in {"add", "size_parent"} /\ Files!Goto(Files!AfterAdd)
      <4>1. Files!Goto(Files!AfterAdd)
        BY <2>4, Zenon DEF Files!AddInPlace, Files!SizeParent
      <4>2. call.pc = "add" \/ call.pc = "size_parent"
        BY <2>4, Zenon DEF Files!AddInPlace, Files!SizeParent, Files!At
      <4>3. QED
        BY <4>1, <4>2
    <3>2. Files!AfterAdd # "allocate_inode"
      BY DEF Files!AfterAdd
    <3>3. QED
      BY <2>1, <3>1, <3>2
  <2>5. CASE Files!SizeFile
    <3>1. call.pc = "data" /\ Files!Goto("flush")
      BY <2>5, Zenon DEF Files!SizeFile, Files!At
    <3>2. QED
      BY <2>1, <3>1
  <2>6. CASE Files!AppendData
    <3>1. CASE Files!Fail
      BY <1>3, <3>1
    <3>2. CASE call.pc = "append_data" /\ call' = [call EXCEPT !.pc = "data", !.done = @ + 1]
      <4>1. call # Files!Idle /\ DOMAIN call = CallFields
        BY <3>2 DEF Files!Idle, Callers
      <4> DEFINE mid == [call EXCEPT !.pc = "data"]
      <4>2. DOMAIN mid = CallFields /\ mid.parent = call.parent /\ mid.ino = call.ino
        BY <4>1 DEF CallFields
      <4>3. call' = [mid EXCEPT !.done = call.done + 1]
        BY <3>2, <4>1 DEF CallFields
      <4> HIDE DEF mid
      <4>4. DOMAIN call' = CallFields /\ call'.parent = call.parent /\ call'.ino = call.ino
        BY <4>2, <4>3 DEF CallFields
      <4>5. QED
        BY <3>2, <4>1, <4>4 DEF Callers
    <3>3. QED
      BY <2>6, <3>1, <3>2, Zenon DEF Files!AppendData, Files!At
  <2>7. CASE Files!Return
    BY <2>7 DEF Files!Return, Callers, Files!Idle
  <2>8. QED
    BY <1>7, <2>2, <2>3, <2>4, <2>5, <2>6, <2>7 DEF OtherWrite
<1>8. CASE PowerLoss
  <2>1. UNCHANGED call \/ Files!Fail
    BY <1>8 DEF PowerLoss, Files!Abort, files
  <2>2. QED
    BY <1>3, <2>1 DEF Callers, Files!Idle
<1>9. CASE SyncMetadata \/ Repaired \/ UNCHANGED volume
  BY <1>9 DEF SyncMetadata, Repaired, volume, files, Callers, Files!Idle
<1>10. QED
  BY <1>2, <1>4, <1>5, <1>6, <1>7, <1>8, <1>9 DEF VolumeNext, Work

LEMMA Invariant == VolumeSpec => []Inv
<1>1. VolumeInit => Inv
  BY TypeInit, CountsInit DEF VolumeInit, Files!ReliableInit, Files!Init, Inv, Callers
<1>2. Inv /\ [VolumeNext]_volume => Inv'
  BY VolumeSteps, CallersNext, TypeNext, CountsNext DEF Inv
<1>3. QED
  BY <1>1, <1>2, PTL DEF VolumeSpec

-----------------------------------------------------------------------------
(* The theorems.                                                           *)

\* Whatever the calls do, they use the allocator as it may be used: all that is
\* proved of it holds on a disk with files, of every geometry.
THEOREM VolumeImplementsAllocator == VolumeSpec => Spec
<1>1. VolumeInit => Init
  BY DEF VolumeInit
<1>2. Inv /\ [VolumeNext]_volume => [Next]_vars
  BY VolumeSteps DEF Inv
<1>3. QED
  BY <1>1, <1>2, Invariant, PTL DEF VolumeSpec, Spec

\* write_file and mkdir on the allocator, with its groups, stale counts, crashes
\* and syncs, do what FileOps says they do with any free number: none is granted
\* twice, and no call fails for want of space while there is some.
THEOREM VolumeImplementsFileOps == VolumeSpec => FilesSpec
<1>1. VolumeInit => Files!ReliableInit
  BY DEF VolumeInit
<1>2. Inv /\ [VolumeNext]_volume => [Files!ReliableNext]_<<Files!vars, reliable>>
  BY StepsOfFileOps
<1>3. QED
  BY <1>1, <1>2, Invariant, PTL DEF VolumeSpec, FilesSpec, Files!ReliableSpec
=============================================================================
