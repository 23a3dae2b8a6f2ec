---------------------------- MODULE BitmapProofs ----------------------------
(***************************************************************************)
(* What the searches of Bitmap return, for every bitmap and every bound,   *)
(* and what the proofs need of division: the facts that the other proofs   *)
(* rest on.                                                                *)
(***************************************************************************)
EXTENDS Bitmap, FiniteSetTheorems, WellFoundedInduction, TLAPS

\* A nonempty set of naturals has a least element, and Min is that element.
LEMMA MinExists ==
    ASSUME NEW S \in SUBSET Nat, S # {}
    PROVE  Min(S) \in S /\ \A y \in S : Min(S) <= y
<1> DEFINE R == {ss \in Nat \X Nat : ss[1] < ss[2]}
<1>1. IsWellFoundedOn(R, Nat)
  BY ONLY NatLessThanWellFounded, Zenon DEF OpToRel
<1> HIDE DEF R
<1>2. \E x \in S : \A y \in S : ~ (<<y, x>> \in R)
  BY <1>1, WFMin, Zenon
<1>3. \A x, y \in S : <<y, x>> \notin R => x <= y
  <2>1. SUFFICES ASSUME NEW x \in S, NEW y \in S, ~ (x <= y)
                 PROVE  <<y, x>> \in R
    OBVIOUS
  <2>2. <<y, x>> \in Nat \X Nat /\ y < x /\ <<y, x>>[1] = y /\ <<y, x>>[2] = x
    BY <2>1
  <2>3. QED
    BY <2>2, Zenon DEF R
<1>4. \E x \in S : \A y \in S : x <= y
  BY <1>2, <1>3, Zenon
<1>5. QED
  BY <1>4 DEF Min

\* find_first_free: None means that neither pass met a clear bit, and a bit
\* that is returned is clear and was met by a pass.
LEMMA FindFirstFreeCorrect ==
    ASSUME NEW bm, NEW start \in Nat, NEW total \in Nat
    PROVE  LET found == FindFirstFree(bm, start, total)
               met == ClearBits(bm, start, total) \cup ClearBits(bm, 0, start)
           IN  IF met = {} THEN found = NoBit ELSE found \in met
<1> DEFINE upper == ClearBits(bm, start, total)
           lower == ClearBits(bm, 0, start)
<1>1. upper \in SUBSET Nat /\ lower \in SUBSET Nat
  BY DEF ClearBits
<1>2. upper # {} => Min(upper) \in upper
  BY <1>1, MinExists
<1>3. lower # {} => Min(lower) \in lower
  BY <1>1, MinExists
<1>4. FindFirstFree(bm, start, total) =
        IF upper # {} THEN Min(upper)
        ELSE IF lower # {} THEN Min(lower) ELSE NoBit
  BY DEF FindFirstFree
<1> HIDE DEF upper, lower
<1>5. IF upper \cup lower = {} THEN FindFirstFree(bm, start, total) = NoBit
      ELSE FindFirstFree(bm, start, total) \in upper \cup lower
  BY <1>2, <1>3, <1>4
<1>6. QED
  BY <1>5 DEF upper, lower

\* The case of the allocator, which always searches from bit 0.
LEMMA FindFromZero ==
    ASSUME NEW bm, NEW total \in Nat
    PROVE  /\ FindFirstFree(bm, 0, total) = NoBit <=> ClearBits(bm, 0, total) = {}
           /\ FindFirstFree(bm, 0, total) # NoBit =>
                FindFirstFree(bm, 0, total) \in ClearBits(bm, 0, total)
<1>1. ClearBits(bm, 0, 0) = {}
  BY DEF ClearBits
<1>2. ClearBits(bm, 0, total) \subseteq Nat /\ NoBit \notin Nat
  BY DEF ClearBits, NoBit
<1>3. IF ClearBits(bm, 0, total) = {}
      THEN FindFirstFree(bm, 0, total) = NoBit
      ELSE FindFirstFree(bm, 0, total) \in ClearBits(bm, 0, total)
  BY <1>1, FindFirstFreeCorrect
<1>4. QED
  BY <1>2, <1>3

\* count_free is a number, 0 exactly when every bit is set.
LEMMA CountFreeType ==
    ASSUME NEW bm, NEW total \in Nat
    PROVE  /\ IsFiniteSet(ClearBits(bm, 0, total))
           /\ CountFree(bm, total) \in Nat
           /\ CountFree(bm, total) = 0 <=> ClearBits(bm, 0, total) = {}
<1>1. IsFiniteSet(0..(total - 1))
  BY FS_Interval
<1>2. ClearBits(bm, 0, total) \subseteq 0..(total - 1)
  BY DEF ClearBits
<1>3. IsFiniteSet(ClearBits(bm, 0, total))
  BY <1>1, <1>2, FS_Subset
<1>4. QED
  BY <1>3, FS_CardinalityType, FS_EmptySet DEF CountFree

\* Setting a clear bit lowers count_free by one.
LEMMA CountFreeSetBit ==
    ASSUME NEW bm, NEW total \in Nat, NEW i \in ClearBits(bm, 0, total)
    PROVE  /\ SetBit(bm, total, i) = bm \cup {i}
           /\ CountFree(SetBit(bm, total, i), total) = CountFree(bm, total) - 1
<1>1. i \in 0..(total - 1)
  BY DEF ClearBits
<1>2. SetBit(bm, total, i) = bm \cup {i}
  BY <1>1 DEF SetBit
<1>3. ClearBits(bm \cup {i}, 0, total) = ClearBits(bm, 0, total) \ {i}
  BY DEF ClearBits, IsSet
<1>4. Cardinality(ClearBits(bm, 0, total) \ {i}) = Cardinality(ClearBits(bm, 0, total)) - 1
  BY CountFreeType, FS_RemoveElement
<1>5. QED
  BY <1>2, <1>3, <1>4 DEF CountFree

-----------------------------------------------------------------------------
(* find_contiguous_free.                                                   *)

\* run_len, as far as the bit m.
Runs(f, bm, lo, m) ==
    f = [i \in lo..m |-> IF i = lo \/ IsSet(bm, i - 1) THEN 0 ELSE f[i - 1] + 1]

LEMMA RunsExist ==
    ASSUME NEW bm, NEW lo \in Nat, NEW hi \in Nat
    PROVE  \E f : Runs(f, bm, lo, hi)
<1> DEFINE Bad == {m \in Nat : ~ \E f : Runs(f, bm, lo, m)}
<1>1. SUFFICES ASSUME Bad # {} PROVE FALSE
  OBVIOUS
<1>2. PICK m \in Bad : \A k \in Bad : m <= k
  <2>1. Bad \in SUBSET Nat
    OBVIOUS
  <2> HIDE DEF Bad
  <2>2. Min(Bad) \in Bad /\ \A k \in Bad : Min(Bad) <= k
    BY <1>1, <2>1, MinExists
  <2>3. QED
    BY <2>2
<1>3. CASE m <= lo
  <2>1. \A i \in lo..m : i = lo
    BY <1>3
  <2>2. Runs([i \in lo..m |-> 0], bm, lo, m)
    BY <2>1 DEF Runs
  <2>3. QED
    BY <1>2, <2>2
<1>4. CASE m > lo
  <2>1. m \in Nat /\ m - 1 \in Nat /\ m - 1 < m /\ lo <= m - 1
    BY <1>4
  <2>2. PICK g : Runs(g, bm, lo, m - 1)
    BY <1>2, <2>1
  <2> DEFINE step(i, n) == IF i = lo \/ IsSet(bm, i - 1) THEN 0 ELSE n + 1
             f == [i \in lo..m |-> IF i < m THEN g[i] ELSE step(m, g[m - 1])]
  <2>3. g = [i \in lo..(m - 1) |-> step(i, g[i - 1])]
    BY <2>2, Zenon DEF Runs
  <2>4. \A n, k : step(lo, n) = step(lo, k)
    OBVIOUS
  <2> HIDE DEF step
  <2>5. \A i \in lo..(m - 1) : g[i] = step(i, g[i - 1])
    BY <2>3
  <2>6. \A i \in lo..m : f[i] = step(i, f[i - 1])
    <3>1. ASSUME NEW i \in lo..m, i # lo
          PROVE  f[i] = step(i, f[i - 1])
      <4>1. i - 1 \in lo..m /\ i - 1 < m
        BY <3>1
      <4>2. f[i - 1] = g[i - 1]
        BY <4>1
      <4>3. CASE i = m
        BY <4>2, <4>3
      <4>4. CASE i # m
        <5>1. i \in lo..(m - 1) /\ i < m
          BY <2>1, <3>1, <4>4
        <5>2. QED
          BY <2>5, <4>2, <5>1
      <4>5. QED
        BY <4>3, <4>4
    <3>2. f[lo] = step(lo, f[lo - 1])
      <4>1. lo \in lo..(m - 1) /\ lo \in lo..m /\ lo < m
        BY <2>1
      <4>2. f[lo] = g[lo]
        BY <4>1
      <4>3. g[lo] = step(lo, g[lo - 1])
        BY <2>5, <4>1
      <4> HIDE DEF f
      <4>4. QED
        BY <2>4, <4>2, <4>3
    <3>3. QED
      BY <3>1, <3>2
  <2>7. f = [i \in lo..m |-> f[i]]
    OBVIOUS
  <2> HIDE DEF f
  <2>8. f = [i \in lo..m |-> step(i, f[i - 1])]
    BY <2>6, <2>7
  <2>9. Runs(f, bm, lo, m)
    BY <2>8, Zenon DEF Runs, step
  <2>10. QED
    BY <1>2, <2>9
<1>5. QED
  BY <1>2, <1>3, <1>4

\* run_len counts the clear bits just before i, back to the bit lo.
Measures(f, bm, lo, i) ==
    /\ f[i] \in Nat
    /\ f[i] <= i - lo
    /\ \A j \in (i - f[i])..(i - 1) : ~ IsSet(bm, j)
    /\ f[i] = i - lo \/ IsSet(bm, i - f[i] - 1)

LEMMA RunsMeasure ==
    ASSUME NEW bm, NEW lo \in Nat, NEW hi \in Nat, NEW f, Runs(f, bm, lo, hi), NEW i \in lo..hi
    PROVE  Measures(f, bm, lo, i)
<1> DEFINE Bad == {m \in lo..hi : ~ Measures(f, bm, lo, m)}
<1>1. SUFFICES ASSUME Bad # {} PROVE FALSE
  OBVIOUS
<1>2. PICK m \in Bad : \A k \in Bad : m <= k
  <2>1. Bad \in SUBSET Nat
    OBVIOUS
  <2> HIDE DEF Bad
  <2>2. Min(Bad) \in Bad /\ \A k \in Bad : Min(Bad) <= k
    BY <1>1, <2>1, MinExists
  <2>3. QED
    BY <2>2
<1>3. m \in lo..hi /\ ~ Measures(f, bm, lo, m)
  BY <1>2
<1>4. f[m] = IF m = lo \/ IsSet(bm, m - 1) THEN 0 ELSE f[m - 1] + 1
  BY <1>3 DEF Runs
<1>5. CASE m = lo \/ IsSet(bm, m - 1)
  <2>1. f[m] = 0
    BY <1>4, <1>5
  <2>2. QED
    BY <1>3, <1>5, <2>1 DEF Measures
<1>6. CASE ~ (m = lo \/ IsSet(bm, m - 1))
  <2>1. m - 1 \in lo..hi /\ m - 1 < m
    BY <1>3, <1>6
  <2>2. Measures(f, bm, lo, m - 1)
    BY <1>2, <2>1
  <2>3. f[m] = f[m - 1] + 1
    BY <1>4, <1>6
  <2>4. \A j \in (m - f[m])..(m - 1) : j = m - 1 \/ j \in (m - 1 - f[m - 1])..(m - 1 - 1)
    BY <1>3, <2>2, <2>3 DEF Measures
  <2>5. f[m] \in Nat /\ f[m] <= m - lo /\ m - f[m] - 1 = m - 1 - f[m - 1] - 1
    BY <1>3, <2>2, <2>3 DEF Measures
  <2>6. \A j \in (m - f[m])..(m - 1) : ~ IsSet(bm, j)
    BY <1>6, <2>2, <2>4 DEF Measures
  <2>7. f[m] = m - lo \/ IsSet(bm, m - f[m] - 1)
    BY <1>3, <2>2, <2>3, <2>5 DEF Measures
  <2>8. QED
    BY <1>3, <2>5, <2>6, <2>7 DEF Measures
<1>7. QED
  BY <1>5, <1>6

\* The clear runs of `count' bits between lo and hi.
ClearRun(bm, lo, hi, first, count) ==
    lo <= first /\ first + count <= hi /\ \A j \in RunBits(first, count) : ~ IsSet(bm, j)

\* One pass finds a run exactly when there is one.
LEMMA ScanForRunCorrect ==
    ASSUME NEW bm, NEW lo \in Nat, NEW hi \in Nat, NEW count \in Nat \ {0}
    PROVE  LET found == ScanForRun(bm, lo, hi, count)
           IN  /\ found # NoBit => found \in Nat /\ ClearRun(bm, lo, hi, found, count)
               /\ found = NoBit => \A r \in Nat : ~ ClearRun(bm, lo, hi, r, count)
<1> DEFINE f == CHOOSE g : Runs(g, bm, lo, hi)
           hits == {i \in lo..hi : f[i] >= count}
<1>1. ScanForRun(bm, lo, hi, count) = IF hits = {} THEN NoBit ELSE Min(hits) - count
  BY Zenon DEF ScanForRun, Runs
<1>2. Runs(f, bm, lo, hi)
  BY RunsExist
<1> HIDE DEF f
<1>3. \A i \in lo..hi : Measures(f, bm, lo, i)
  BY <1>2, RunsMeasure
<1>4. CASE hits # {}
  <2>1. hits \in SUBSET Nat
    OBVIOUS
  <2> HIDE DEF hits
  <2>2. Min(hits) \in hits
    BY <1>4, <2>1, MinExists
  <2>3. PICK h \in lo..hi : h = Min(hits) /\ f[h] >= count
    BY <2>2 DEF hits
  <2>4. ScanForRun(bm, lo, hi, count) = h - count
    BY <1>1, <1>4, <2>3
  <2>5. /\ f[h] \in Nat /\ f[h] <= h - lo
        /\ \A j \in (h - f[h])..(h - 1) : ~ IsSet(bm, j)
    BY <1>3 DEF Measures
  <2>6. h - count \in Nat /\ lo <= h - count /\ h - count + count <= hi
    BY <2>3, <2>5
  <2>7. \A j \in RunBits(h - count, count) : j \in (h - f[h])..(h - 1)
    BY <2>3, <2>5 DEF RunBits
  <2>8. ClearRun(bm, lo, hi, h - count, count)
    BY <2>5, <2>6, <2>7 DEF ClearRun
  <2>9. h - count # NoBit
    BY <2>6 DEF NoBit
  <2>10. QED
    BY <2>4, <2>6, <2>8, <2>9
<1>5. CASE hits = {}
  <2>1. ScanForRun(bm, lo, hi, count) = NoBit
    BY <1>1, <1>5
  <2>2. ASSUME NEW r \in Nat, ClearRun(bm, lo, hi, r, count)
        PROVE  FALSE
    <3>1. lo <= r /\ r + count <= hi /\ \A j \in r..(r + count - 1) : ~ IsSet(bm, j)
      BY <2>2 DEF ClearRun, RunBits
    <3>2. r + count \in lo..hi
      BY <3>1
    <3>3. PICK i \in lo..hi : i = r + count
      BY <3>2
    <3>4. f[i] \in Nat /\ ~ (f[i] >= count) /\ (f[i] = i - lo \/ IsSet(bm, i - f[i] - 1))
      BY <1>3, <1>5 DEF Measures
    <3>5. i - f[i] - 1 \in r..(r + count - 1)
      BY <3>1, <3>3, <3>4
    <3>6. QED
      BY <3>1, <3>3, <3>4, <3>5
  <2>3. QED
    BY <2>1, <2>2
<1>6. QED
  BY <1>4, <1>5

-----------------------------------------------------------------------------
(* Division: the code finds places and cuts numbers in halves with it.     *)

\* The quotient and the remainder.
LEMMA DivMod ==
    ASSUME NEW n \in Nat, NEW d \in Nat \ {0}
    PROVE  n \div d \in Nat /\ n % d \in 0..(d - 1) /\ n = d * (n \div d) + (n % d)
<1>1. n \div d \in Nat /\ n % d \in 0..(d - 1)
  OBVIOUS
<1>2. ASSUME NEW q, q = n \div d, NEW r, r = n % d
      PROVE  n = d * q + r
  BY <1>2
<1>3. QED
  BY <1>1, <1>2

\* ... and no others.
LEMMA DivUnique ==
    ASSUME NEW q \in Nat, NEW d \in Nat \ {0}, NEW r \in 0..(d - 1)
    PROVE  (q * d + r) \div d = q /\ (q * d + r) % d = r
<1> DEFINE n == q * d + r
           a == n \div d
           b == n % d
<1>1. q * d \in Nat /\ n \in Nat
  OBVIOUS
<1>2. a \in Nat /\ b \in 0..(d - 1) /\ n = d * a + b
  BY <1>1, DivMod
<1>3. n = q * d + r
  OBVIOUS
<1> HIDE DEF n, a, b
<1>4. a = q
  <2>1. CASE a < q
    <3>1. d * a + d <= d * q
      <4>1. PICK e \in Nat : q = a + 1 + e
        <5>1. q - a - 1 \in Nat /\ q = a + 1 + (q - a - 1)
          BY <1>2, <2>1
        <5>2. QED
          BY <5>1
      <4>2. d * q = d * a + d + d * e
        BY <1>2, <4>1
      <4>3. d * e \in Nat /\ d * a \in Nat
        BY <1>2, <4>1
      <4>4. QED
        BY <4>2, <4>3
    <3>2. d * a \in Nat /\ d * q = q * d
      BY <1>2
    <3>3. QED
      BY <1>1, <1>2, <1>3, <3>1, <3>2
  <2>2. CASE a > q
    <3>1. d * q + d <= d * a
      <4>1. PICK e \in Nat : a = q + 1 + e
        <5>1. a - q - 1 \in Nat /\ a = q + 1 + (a - q - 1)
          BY <1>2, <2>2
        <5>2. QED
          BY <5>1
      <4>2. d * a = d * q + d + d * e
        BY <4>1
      <4>3. d * e \in Nat /\ d * q \in Nat
        BY <4>1
      <4>4. QED
        BY <4>2, <4>3
    <3>2. d * a \in Nat /\ d * q = q * d
      BY <1>2
    <3>3. QED
      BY <1>1, <1>2, <1>3, <3>1, <3>2
  <2>3. QED
    BY <1>2, <2>1, <2>2
<1>5. b = r
  <2>1. d * a = q * d
    BY <1>4
  <2>2. QED
    BY <1>1, <1>2, <1>3, <2>1
<1>6. QED
  BY <1>4, <1>5 DEF n, a, b

\* A number that fits in two halves has a high one that fits in a half.
LEMMA HighHalf ==
    ASSUME NEW n \in Nat, NEW d \in Nat \ {0}, n < d * d
    PROVE  n \div d < d /\ (n \div d) % d = n \div d
<1> DEFINE q == n \div d
<1>1. q \in Nat /\ n % d \in Nat /\ n = d * q + (n % d)
  BY DivMod
<1> HIDE DEF q
<1>2. q < d
  <2>1. SUFFICES ASSUME q >= d
                 PROVE  FALSE
    BY <1>1
  <2>2. PICK e \in Nat : q = d + e
    <3>1. q - d \in Nat /\ q = d + (q - d)
      BY <1>1, <2>1
    <3>2. QED
      BY <3>1
  <2>3. d * q = d * d + d * e /\ d * e \in Nat /\ d * d \in Nat
    BY <2>2
  <2>4. QED
    BY <1>1, <2>3
<1>3. q % d = q
  <2>1. (0 * d + q) % d = q
    BY <1>1, <1>2, DivUnique
  <2>2. 0 * d + q = q
    BY <1>1
  <2>3. QED
    BY <2>1, <2>2
<1>4. QED
  BY <1>2, <1>3 DEF q

\* The halves put together.
LEMMA Halves ==
    ASSUME NEW n \in Nat, NEW d \in Nat \ {0}
    PROVE  /\ (n % d) + d * (n \div d) = n
           /\ n < d => n \div d = 0 /\ n % d = n
<1>1. n \div d \in Nat /\ n % d \in Nat /\ n = d * (n \div d) + (n % d)
  BY DivMod
<1>2. d * (n \div d) \in Nat
  BY <1>1
<1>3. ASSUME n < d
      PROVE  n \div d = 0 /\ n % d = n
  <2>1. (0 * d + n) \div d = 0 /\ (0 * d + n) % d = n
    BY <1>3, DivUnique
  <2>2. 0 * d + n = n
    OBVIOUS
  <2>3. QED
    BY <2>1, <2>2
<1>4. QED
  BY <1>1, <1>2, <1>3
=============================================================================
