--------------------------- MODULE DirBlockProofs ---------------------------
(***************************************************************************)
(* What iteration meets in a directory block, and what an insertion makes  *)
(* of it, for every block: the facts that the proofs about directories     *)
(* rest on.                                                                *)
(*                                                                         *)
(* Chain is a recursive function.  That there is one, and only one, is     *)
(* proved first; from there on, ChainClosed and ChainInduction are used    *)
(* instead of its definition.                                              *)
(***************************************************************************)
EXTENDS DirBlock, BitmapProofs

\* A block whose headers lie in it and have the names in use.
IsBlock(block) ==
    /\ DOMAIN block \subseteq 0..(BlockWords - 1)
    /\ \A o \in DOMAIN block : block[o].rec \in Nat /\ block[o].name \in Names

\* Whether from_bytes finds an entry at o, and where the next one would be.
Begins(block, o) == o \in DOMAIN block /\ Parses(block, o)
After(block, o) == o + block[o].rec

Offsets == 0..BlockWords

LEMMA AfterIsOffset ==
    ASSUME NEW block, IsBlock(block), NEW o, Begins(block, o)
    PROVE  /\ o \in Offsets /\ o < BlockWords
           /\ After(block, o) \in Offsets /\ o < After(block, o)
           /\ block[o].rec \in Nat /\ ActualSize(block[o]) \in Nat
           /\ MinWords < ActualSize(block[o]) /\ o + ActualSize(block[o]) <= BlockWords
BY DirAssumption DEF IsBlock, Begins, After, Parses, MinWords, Offsets, ActualSize

\* The sets of offsets that iteration does not leave.
Closed(block) ==
    {S \in SUBSET Offsets :
        \A o \in S : Begins(block, o) => After(block, o) \in S}

\* The entries that are in every closed set with o: those met from o on.
Met(block, o) ==
    {p \in Offsets : Begins(block, p) /\ \A S \in Closed(block) : o \in S => p \in S}

LEMMA MetUnfolds ==
    ASSUME NEW block, IsBlock(block), NEW o \in Offsets
    PROVE  Met(block, o) =
            IF Begins(block, o) THEN {o} \cup Met(block, After(block, o)) ELSE {}
<1>1. CASE Begins(block, o)
  <2> DEFINE n == After(block, o)
  <2>1. n \in Offsets
    BY <1>1, AfterIsOffset
  <2>2. ASSUME NEW p \in Met(block, n)
        PROVE  p \in Met(block, o)
    BY <1>1, <2>2 DEF Met, Closed
  <2>3. o \in Met(block, o)
    BY <1>1 DEF Met
  <2>4. ASSUME NEW p \in Met(block, o), p # o
        PROVE  p \in Met(block, n)
    <3>1. SUFFICES ASSUME NEW S \in Closed(block), n \in S
                   PROVE  p \in S
      BY <2>4 DEF Met
    <3>2. S \cup {o} \in Closed(block)
      BY <1>1, <3>1 DEF Closed
    <3>3. p \in S \cup {o}
      BY <2>4, <3>2 DEF Met
    <3>4. QED
      BY <2>4, <3>3
  <2>5. QED
    BY <1>1, <2>2, <2>3, <2>4
<1>2. CASE ~Begins(block, o)
  <2>1. {o} \in Closed(block)
    BY <1>2 DEF Closed
  <2>2. ASSUME NEW p \in Met(block, o)
        PROVE  FALSE
    BY <1>2, <2>1, <2>2 DEF Met
  <2>3. QED
    BY <1>2, <2>2
<1>3. QED
  BY <1>1, <1>2

\* The equation of Chain's local function.
Solves(f, block) ==
    f = [o \in Offsets |->
            IF Begins(block, o) THEN {o} \cup f[After(block, o)] ELSE {}]

LEMMA SolutionExists ==
    ASSUME NEW block, IsBlock(block)
    PROVE  \E f : Solves(f, block)
<1> DEFINE f == [o \in Offsets |-> Met(block, o)]
           g == [o \in Offsets |->
                    IF Begins(block, o) THEN {o} \cup f[After(block, o)] ELSE {}]
<1>1. ASSUME NEW o \in Offsets
      PROVE  f[o] = g[o]
  <2>1. CASE Begins(block, o)
    <3>1. After(block, o) \in Offsets
      BY <2>1, AfterIsOffset
    <3>2. f[After(block, o)] = Met(block, After(block, o))
      BY <3>1
    <3>3. QED
      BY <2>1, <3>2, MetUnfolds
  <2>2. CASE ~Begins(block, o)
    BY <2>2, MetUnfolds
  <2>3. QED
    BY <2>1, <2>2
<1>2. f = g
  BY <1>1, Zenon
<1>3. Solves(f, block)
  BY <1>2, Zenon DEF Solves
<1>4. QED
  BY <1>3

LEMMA SolutionUnique ==
    ASSUME NEW block, IsBlock(block), NEW f, Solves(f, block), NEW start \in Offsets
    PROVE  f[start] = Met(block, start)
<1> DEFINE Wrong == {d \in Nat : d <= BlockWords
                                 /\ f[BlockWords - d] # Met(block, BlockWords - d)}
<1>1. SUFFICES ASSUME f[start] # Met(block, start)
               PROVE  FALSE
  OBVIOUS
<1>2. BlockWords \in Nat
  BY DirAssumption
<1>3. BlockWords - start \in Wrong
  <2>1. BlockWords - start \in Nat /\ BlockWords - start <= BlockWords
        /\ BlockWords - (BlockWords - start) = start
    BY <1>2 DEF Offsets
  <2>2. QED
    BY <1>1, <2>1
<1>4. PICK d \in Wrong : \A e \in Wrong : d <= e
  <2>1. Wrong \in SUBSET Nat /\ Wrong # {}
    BY <1>3
  <2>2. QED
    BY <2>1, MinExists
<1> DEFINE o == BlockWords - d
<1>5. o \in Offsets
  BY <1>2, <1>4 DEF Offsets
<1>6. f[o] = IF Begins(block, o) THEN {o} \cup f[After(block, o)] ELSE {}
  BY <1>5, Zenon DEF Solves
<1>7. ASSUME Begins(block, o)
      PROVE  f[After(block, o)] = Met(block, After(block, o))
  <2> DEFINE n == After(block, o)
  <2>1. n \in Offsets /\ o < n
    BY <1>7, AfterIsOffset
  <2>2. BlockWords - n \in Nat /\ BlockWords - n < d /\ BlockWords - n <= BlockWords
        /\ BlockWords - (BlockWords - n) = n
    BY <1>2, <1>4, <2>1 DEF Offsets
  <2>3. BlockWords - n \notin Wrong
    BY <1>4, <2>2
  <2> HIDE DEF n
  <2>4. QED
    BY <2>2, <2>3 DEF n
<1>8. f[o] = Met(block, o)
  BY <1>5, <1>6, <1>7, MetUnfolds
<1>9. QED
  BY <1>4, <1>8

LEMMA ChainIsMet ==
    ASSUME NEW block, IsBlock(block)
    PROVE  Chain(block) = Met(block, 0)
<1> DEFINE from == CHOOSE f : Solves(f, block)
<1>1. Solves(from, block)
  BY SolutionExists
<1>2. Chain(block) = from[0]
  BY Zenon DEF Chain, Solves, Begins, After, Offsets
<1>3. 0 \in Offsets
  BY DirAssumption DEF Offsets
<1>4. QED
  BY <1>1, <1>2, <1>3, SolutionUnique

-----------------------------------------------------------------------------
(* Chain, without its definition.                                          *)

\* Every entry of the chain parses, and iteration goes on behind it.
LEMMA ChainClosed ==
    ASSUME NEW block, IsBlock(block)
    PROVE  /\ Begins(block, 0) => 0 \in Chain(block)
           /\ \A o \in Chain(block) :
                /\ Begins(block, o)
                /\ Begins(block, After(block, o)) => After(block, o) \in Chain(block)
<1>1. Chain(block) = Met(block, 0)
  BY ChainIsMet
<1>2. 0 \in Offsets
  BY DirAssumption DEF Offsets
<1>3. Begins(block, 0) => 0 \in Met(block, 0)
  BY <1>2 DEF Met
<1>4. ASSUME NEW o \in Met(block, 0), Begins(block, After(block, o))
      PROVE  After(block, o) \in Met(block, 0)
  <2>1. Begins(block, o) /\ After(block, o) \in Offsets
    BY <1>4, AfterIsOffset DEF Met
  <2>2. QED
    BY <1>4, <2>1 DEF Met, Closed
<1>5. QED
  BY <1>1, <1>3, <1>4 DEF Met

\* Nothing else is in it: what holds of the first entry, and goes from each
\* entry to the next, holds of all.
LEMMA ChainInduction ==
    ASSUME NEW block, IsBlock(block), NEW S,
           Begins(block, 0) => 0 \in S,
           \A o \in S \cap Chain(block) :
                Begins(block, After(block, o)) => After(block, o) \in S
    PROVE  Chain(block) \subseteq S
<1> DEFINE T == {o \in Offsets : Begins(block, o) => o \in S \cap Chain(block)}
<1>1. T \in Closed(block)
  <2>1. SUFFICES ASSUME NEW o \in T, Begins(block, o)
                 PROVE  After(block, o) \in T
    BY DEF Closed
  <2>2. o \in S \cap Chain(block)
    BY <2>1
  <2>3. After(block, o) \in Offsets
    BY <2>1, AfterIsOffset
  <2>4. QED
    BY <2>2, <2>3, ChainClosed
<1>2. 0 \in T
  BY ChainClosed, DirAssumption DEF Offsets
<1>3. ASSUME NEW p \in Chain(block)
      PROVE  p \in S
  <2>1. p \in Met(block, 0)
    BY <1>3, ChainIsMet
  <2>2. p \in T /\ Begins(block, p)
    BY <1>1, <1>2, <2>1 DEF Met
  <2>3. QED
    BY <2>2
<1>4. QED
  BY <1>3

\* Between an entry and the next one there is none.
LEMMA ChainOrdered ==
    ASSUME NEW block, IsBlock(block),
           NEW o \in Chain(block), NEW p \in Chain(block), o < p
    PROVE  After(block, o) <= p
<1> DEFINE Below(q) == {r \in Chain(block) : r < q}
           S == {q \in Chain(block) : \A r \in Below(q) : After(block, r) <= q}
<1>1. \A q \in Chain(block) : q \in Nat /\ After(block, q) \in Nat /\ q < After(block, q)
  BY ChainClosed, AfterIsOffset, DirAssumption DEF Offsets
<1>2. ASSUME NEW q \in S, Begins(block, After(block, q))
      PROVE  After(block, q) \in S
  <2> DEFINE n == After(block, q)
             T == {r \in Chain(block) : r <= q \/ n <= r}
  <2>1. n \in Chain(block)
    BY <1>2, ChainClosed
  <2>2. ASSUME NEW r \in T, Begins(block, After(block, r))
        PROVE  After(block, r) \in T
    <3>1. After(block, r) \in Chain(block)
      BY <2>2, ChainClosed
    <3>2. CASE r < q
      BY <1>1, <1>2, <2>2, <3>1, <3>2
    <3>3. CASE r = q
      BY <3>1, <3>3, <1>1
    <3>4. CASE n <= r
      <4>1. r \in Nat /\ After(block, r) \in Nat /\ r < After(block, r) /\ n \in Nat
        BY <1>1, <2>1, <2>2
      <4>2. QED
        BY <3>1, <3>4, <4>1
    <3>5. QED
      BY <1>1, <2>1, <2>2, <3>2, <3>3, <3>4
  <2>3. Begins(block, 0) => 0 \in T
    BY <1>1, ChainClosed
  <2>4. Chain(block) \subseteq T
    <3> HIDE DEF T
    <3>1. QED
      BY <2>2, <2>3, ChainInduction
  <2>5. ASSUME NEW r \in Below(n)
        PROVE  After(block, r) <= n
    <3>1. r \in T /\ r < n /\ r \in Nat /\ n \in Nat /\ q \in Nat /\ n = After(block, q)
          /\ After(block, r) \in Nat
      BY <1>1, <2>1, <2>4, <2>5
    <3>2. r = q \/ r < q
      BY <3>1
    <3>3. r < q => After(block, r) <= q
      BY <1>2, <2>5
    <3>4. q < n
      BY <1>1, <1>2
    <3>5. QED
      BY <3>1, <3>2, <3>3, <3>4
  <2>6. QED
    BY <2>1, <2>5
<1>3. Begins(block, 0) => 0 \in S
  BY <1>1, ChainClosed
<1>4. Chain(block) \subseteq S
  <2> HIDE DEF S
  <2>1. QED
    BY <1>2, <1>3, ChainInduction
<1>5. QED
  BY <1>4

-----------------------------------------------------------------------------
(* Blocks whose records tile them.                                         *)

\* Iteration starts at 0, and stops at the end of the block only.
LEMMA ChainTiled ==
    ASSUME NEW block, IsBlock(block), WellFormed(block)
    PROVE  /\ 0 \in Chain(block)
           /\ \A o \in Chain(block) :
                After(block, o) \in Chain(block) \/ After(block, o) = BlockWords
<1>1. PICK z \in Chain(block) : After(block, z) = BlockWords
  BY Zenon DEF WellFormed, After
<1>2. \A q \in Chain(block) :
        q \in Nat /\ After(block, q) \in Nat /\ q < After(block, q) /\ q < BlockWords
  BY ChainClosed, AfterIsOffset, DirAssumption DEF Offsets
<1>3. Begins(block, 0)
  <2>1. SUFFICES ASSUME ~Begins(block, 0)
                 PROVE  Chain(block) \subseteq {}
    BY <1>1
  <2>2. \A o \in {} \cap Chain(block) :
            Begins(block, After(block, o)) => After(block, o) \in {}
    OBVIOUS
  <2>3. QED
    BY <2>1, <2>2, ChainInduction
<1>4. ASSUME NEW o \in Chain(block), ~Begins(block, After(block, o))
      PROVE  After(block, o) = BlockWords
  <2> DEFINE S == {q \in Chain(block) : q <= o}
  <2>1. ASSUME NEW q \in S, Begins(block, After(block, q))
        PROVE  After(block, q) \in S
    <3>1. q < o
      BY <1>2, <1>4, <2>1
    <3>2. After(block, q) <= o
      BY <3>1, ChainOrdered
    <3>3. QED
      BY <2>1, <3>2, ChainClosed
  <2>2. Begins(block, 0) => 0 \in S
    BY <1>2, ChainClosed
  <2>3. Chain(block) \subseteq S
    <3> HIDE DEF S
    <3>1. QED
      BY <2>1, <2>2, ChainInduction
  <2>4. z <= o
    BY <2>3
  <2>5. z < o => After(block, z) <= o
    BY ChainOrdered
  <2>6. z = o
    BY <1>1, <1>2, <2>4, <2>5
  <2>7. QED
    BY <1>1, <2>6
<1>5. QED
  BY <1>3, <1>4, ChainClosed

\* The record where add_dir_entry puts an entry lies at the end of a record of
\* the chain, or is the whole of a deleted one.
LEMMA SpaceFound ==
    ASSUME NEW block, IsBlock(block), WellFormed(block), NEW name \in Names,
           NEW p \in FindSpace(block, NameWords[name])
    PROVE  \E o \in Chain(block) :
            /\ p.at \in Nat /\ p.rec \in Nat /\ NameWords[name] <= p.rec
            /\ o <= p.at /\ p.at + p.rec = After(block, o)
            /\ \/ p.at = o /\ block[o].ino = Deleted /\ p.rec = block[o].rec
               \/ p.at = o + ActualSize(block[o]) /\ o < p.at
<1> DEFINE needed == NameWords[name]
           roomy == HasRoom(block, needed)
           o == Min(roomy)
<1>1. needed \in Nat /\ needed > MinWords
  BY DirAssumption
<1>2. roomy # {}
  BY Zenon DEF FindSpace
<1>3. roomy \subseteq Chain(block)
  BY DEF HasRoom
<1>4. o \in roomy
  <2>1. roomy \in SUBSET Nat
    BY <1>3, ChainClosed, AfterIsOffset, DirAssumption DEF Offsets
  <2>2. QED
    BY <1>2, <2>1, MinExists
<1>5. IsReusable(block[o], needed) \/ Slack(block[o]) >= needed
  BY <1>4 DEF HasRoom
<1>6. p = IF IsReusable(block[o], needed) THEN [at |-> o, rec |-> block[o].rec]
          ELSE [at |-> o + ActualSize(block[o]), rec |-> Slack(block[o])]
  BY <1>2, Zenon DEF FindSpace
<1> HIDE DEF o
<1>7. o \in Chain(block) /\ Begins(block, o)
  BY <1>3, <1>4, ChainClosed
<1>8. /\ o \in Nat /\ block[o].rec \in Nat /\ ActualSize(block[o]) \in Nat
      /\ MinWords < ActualSize(block[o])
  BY <1>7, AfterIsOffset, DirAssumption DEF Offsets
<1>9. CASE IsReusable(block[o], needed)
  <2>1. p.at = o /\ p.rec = block[o].rec
    BY <1>6, <1>9
  <2>2. block[o].ino = Deleted /\ needed <= block[o].rec
    BY <1>1, <1>8, <1>9 DEF IsReusable
  <2>3. QED
    BY <1>7, <1>8, <2>1, <2>2 DEF After
<1>10. CASE ~IsReusable(block[o], needed)
  <2>1. p.at = o + ActualSize(block[o]) /\ p.rec = Slack(block[o])
    BY <1>6, <1>10
  <2>2. p.rec = block[o].rec - ActualSize(block[o]) /\ needed <= p.rec
    BY <1>1, <1>5, <1>8, <1>10, <2>1 DEF Slack
  <2>3. QED
    BY <1>1, <1>7, <1>8, <2>1, <2>2 DEF After, MinWords
<1>11. QED
  BY <1>9, <1>10

\* The block `after' is `block' with an entry for ino at a place p.
Inserts(block, p, ino, name, after) ==
    /\ IsBlock(after) /\ WellFormed(after)
    /\ Chain(after) = Chain(block)
    /\ after[p.at] = Entry(ino, p.rec, name)
    /\ \A q \in Chain(block) : q # p.at => after[q] = block[q]
    /\ p.at \in Chain(block) => block[p.at].ino = Deleted

\* An insertion leaves the chain as it is, and every entry of it but a deleted
\* one, if that is where it goes.
LEMMA InsertKeepsChain ==
    ASSUME NEW block, IsBlock(block), WellFormed(block), NEW name \in Names, NEW ino,
           NEW p \in FindSpace(block, NameWords[name]),
           NEW after, after = InsertEntry(block, p.at, Entry(ino, p.rec, name))
    PROVE  Inserts(block, p, ino, name, after)
<1> DEFINE e == Entry(ino, p.rec, name)
           wiped == p.at..(p.at + p.rec - 1)
<1>1. PICK o \in Chain(block) :
        /\ p.at \in Nat /\ p.rec \in Nat /\ NameWords[name] <= p.rec
        /\ o <= p.at /\ p.at + p.rec = After(block, o)
        /\ \/ p.at = o /\ block[o].ino = Deleted /\ p.rec = block[o].rec
           \/ p.at = o + ActualSize(block[o]) /\ o < p.at
  BY SpaceFound
<1>2. e.rec = p.rec /\ e.name = name /\ ActualSize(e) = NameWords[name]
      /\ NameWords[name] \in Nat /\ NameWords[name] > MinWords
  BY DirAssumption DEF Entry, ActualSize
<1>3. \A q \in Chain(block) :
        /\ Begins(block, q) /\ q \in Nat /\ After(block, q) \in Nat
        /\ q < After(block, q) /\ After(block, q) <= BlockWords
  BY ChainClosed, AfterIsOffset, DirAssumption DEF Offsets
<1>4. /\ DOMAIN after = (DOMAIN block \ wiped) \cup {p.at}
      /\ \A q \in DOMAIN after : after[q] = IF q = p.at THEN e ELSE block[q]
  BY <1>2, Zenon DEF InsertEntry
<1>5. p.at \in 0..(BlockWords - 1)
  BY <1>1, <1>2, <1>3, DirAssumption DEF MinWords
<1>6. IsBlock(after)
  BY <1>1, <1>2, <1>4, <1>5 DEF IsBlock
<1>7. ASSUME NEW q \in Chain(block), q # o
      PROVE  q \notin wiped /\ q # p.at
  <2>1. q \in Nat /\ o \in Nat /\ After(block, q) \in Nat /\ q < After(block, q)
        /\ After(block, o) \in Nat
    BY <1>3
  <2>2. CASE q < o
    BY <1>1, <2>1, <2>2
  <2>3. CASE o < q
    <3>1. After(block, o) <= q
      BY <2>3, ChainOrdered
    <3>2. QED
      BY <1>1, <1>2, <2>1, <3>1 DEF MinWords
  <2>4. QED
    BY <1>7, <2>1, <2>2, <2>3
<1>8. p.at \in Chain(block) => p.at = o /\ block[o].ino = Deleted /\ p.rec = block[o].rec
  BY <1>1, <1>3, <1>7
<1>9. ASSUME NEW q \in Chain(block)
      PROVE  /\ q \in DOMAIN after
             /\ q # p.at => after[q] = block[q]
             /\ after[q].rec = block[q].rec
             /\ Begins(after, q) /\ After(after, q) = After(block, q)
  <2>1. q # p.at => q \notin wiped
    <3>1. CASE q # o
      BY <1>7, <3>1
    <3>2. CASE q = o
      BY <1>1, <1>3, <3>2
    <3>3. QED
      BY <3>1, <3>2
  <2>2. q \in DOMAIN block
    BY <1>3 DEF Begins
  <2>3. q \in DOMAIN after /\ (q # p.at => after[q] = block[q])
    BY <1>4, <2>1, <2>2
  <2>4. after[q].rec = block[q].rec
    BY <1>2, <1>4, <1>8, <2>3
  <2>5. CASE q # p.at
    BY <1>3, <2>3, <2>5 DEF Begins, After, Parses
  <2>6. CASE q = p.at
    <3>1. after[q] = e
      BY <1>4, <2>3, <2>6
    <3>2. p.rec = block[q].rec
      BY <1>8, <2>6
    <3>3. q + ActualSize(e) <= BlockWords
      <4>1. q + block[q].rec <= BlockWords
        BY <1>3 DEF After
      <4>2. QED
        BY <1>1, <1>2, <1>3, <3>2, <4>1, DirAssumption
    <3>4. QED
      BY <1>2, <1>3, <2>3, <2>4, <3>1, <3>3 DEF Begins, After, Parses
  <2>7. QED
    BY <2>3, <2>4, <2>5, <2>6
<1>10. Chain(block) \subseteq Chain(after)
  <2>1. Begins(block, 0) => 0 \in Chain(after)
    BY <1>6, <1>9, ChainClosed
  <2>2. ASSUME NEW q \in Chain(after) \cap Chain(block), Begins(block, After(block, q))
        PROVE  After(block, q) \in Chain(after)
    <3>1. After(block, q) \in Chain(block)
      BY <2>2, ChainClosed
    <3>2. Begins(after, After(after, q)) /\ After(after, q) = After(block, q)
      BY <1>9, <2>2, <3>1
    <3>3. QED
      BY <1>6, <2>2, <3>2, ChainClosed
  <2>3. QED
    BY <2>1, <2>2, ChainInduction
<1>11. Chain(after) \subseteq Chain(block)
  <2>1. ASSUME NEW q \in Chain(block) \cap Chain(after), Begins(after, After(after, q))
        PROVE  After(after, q) \in Chain(block)
    <3>1. After(after, q) = After(block, q)
      BY <1>9
    <3>2. After(after, q) # BlockWords
      BY <1>6, <2>1, AfterIsOffset, DirAssumption
    <3>3. QED
      BY <2>1, <3>1, <3>2, ChainTiled
  <2>2. Begins(after, 0) => 0 \in Chain(block)
    BY ChainTiled
  <2>3. QED
    BY <1>6, <2>1, <2>2, ChainInduction
<1>12. Chain(after) = Chain(block)
  BY <1>10, <1>11
<1>13. WellFormed(after)
  <2>1. ASSUME NEW q \in Chain(block)
        PROVE  ActualSize(after[q]) <= after[q].rec
    <3>1. ActualSize(block[q]) <= block[q].rec
      BY DEF WellFormed
    <3>2. CASE q # p.at
      BY <1>9, <3>1, <3>2
    <3>3. CASE q = p.at
      <4>1. after[q] = e
        BY <1>4, <1>9, <3>3
      <4>2. QED
        BY <1>1, <1>2, <4>1
    <3>4. QED
      BY <3>2, <3>3
  <2>2. \E q \in Chain(block) : q + after[q].rec = BlockWords
    <3>1. PICK q \in Chain(block) : q + block[q].rec = BlockWords
      BY DEF WellFormed
    <3>2. QED
      BY <1>9, <3>1
  <2>3. QED
    BY <1>12, <2>1, <2>2 DEF WellFormed
<1>14. QED
  BY <1>4, <1>6, <1>8, <1>9, <1>12, <1>13 DEF Inserts

\* The block that add_dir_entry allocates has the one entry.
LEMMA FreshBlockChain ==
    ASSUME NEW name \in Names, NEW ino,
           NEW block, block = FreshBlock(ino, name)
    PROVE  /\ IsBlock(block) /\ WellFormed(block)
           /\ Chain(block) = {0} /\ block[0] = Entry(ino, BlockWords, name)
<1>1. NameWords[name] \in Nat /\ NameWords[name] > MinWords /\ BlockWords \in Nat
      /\ NameWords[name] <= BlockWords
  BY DirAssumption
<1>2. DOMAIN block = {0} /\ block[0] = Entry(ino, BlockWords, name)
  BY DEF FreshBlock
<1>3. block[0].rec = BlockWords /\ block[0].name = name /\ ActualSize(block[0]) = NameWords[name]
  BY <1>2 DEF Entry, ActualSize
<1>4. IsBlock(block)
  BY <1>1, <1>2, <1>3 DEF IsBlock, MinWords
<1>5. Begins(block, 0)
  BY <1>1, <1>2, <1>3 DEF Begins, Parses, MinWords
<1>6. Chain(block) = {0}
  <2>1. 0 \in Chain(block)
    BY <1>4, <1>5, ChainClosed
  <2>2. \A o \in Chain(block) : o \in DOMAIN block
    BY <1>4, ChainClosed DEF Begins
  <2>3. QED
    BY <1>2, <2>1, <2>2
<1>7. WellFormed(block)
  BY <1>1, <1>3, <1>6 DEF WellFormed
<1>8. QED
  BY <1>2, <1>4, <1>6, <1>7

-----------------------------------------------------------------------------
(* Lookups.                                                                *)

Matches(block, name) == {o \in Live(block) : block[o].name = name}

\* lookup_in_block finds the first match, and none only if there is none.
LEMMA LookupInBlockFinds ==
    ASSUME NEW block, IsBlock(block), NEW name
    PROVE  /\ LookupInBlock(block, name) = Deleted <=> Matches(block, name) = {}
           /\ Matches(block, name) # {} =>
                \E o \in Matches(block, name) :
                    /\ LookupInBlock(block, name) = block[o].ino
                    /\ \A q \in Matches(block, name) : o <= q
<1> DEFINE M == Matches(block, name)
<1>1. M \in SUBSET Nat
  BY ChainClosed, AfterIsOffset, DirAssumption DEF Matches, Live, Offsets
<1>2. LookupInBlock(block, name) = IF M = {} THEN Deleted ELSE block[Min(M)].ino
  BY Zenon DEF LookupInBlock, Matches
<1>3. ASSUME M # {}
      PROVE  Min(M) \in M /\ \A q \in M : Min(M) <= q
  BY <1>1, <1>3, MinExists
<1>4. \A o \in M : block[o].ino # Deleted
  BY DEF Matches, Live
<1> HIDE DEF M
<1>5. QED
  BY <1>2, <1>3, <1>4 DEF M

\* Two blocks whose matches are the same entries answer alike.
LEMMA LookupInBlockSame ==
    ASSUME NEW block, NEW other, NEW name,
           Matches(other, name) = Matches(block, name),
           \A o \in Matches(block, name) : other[o] = block[o],
           IsBlock(block)
    PROVE  LookupInBlock(other, name) = LookupInBlock(block, name)
<1> DEFINE M == Matches(block, name)
<1>1. /\ LookupInBlock(block, name) = IF M = {} THEN Deleted ELSE block[Min(M)].ino
      /\ LookupInBlock(other, name) = IF M = {} THEN Deleted ELSE other[Min(M)].ino
  BY Zenon DEF LookupInBlock, Matches
<1>2. M \in SUBSET Nat
  BY ChainClosed, AfterIsOffset, DirAssumption DEF Matches, Live, Offsets
<1>3. M # {} => Min(M) \in M
  BY <1>2, MinExists
<1> HIDE DEF M
<1>4. QED
  BY <1>1, <1>3 DEF M

\* What an insertion makes of the entries in use, and of lookups.
Shows(block, p, ino, name, after) ==
    /\ Live(after) = IF p.at \in Chain(block) THEN Live(block) \cup {p.at} ELSE Live(block)
    /\ \A o \in Live(block) : o # p.at /\ after[o] = block[o]
    /\ \A n \in Names : n # name =>
         LookupInBlock(after, n) = LookupInBlock(block, n)
    /\ p.at \notin Chain(block) =>
         LookupInBlock(after, name) = LookupInBlock(block, name)
    /\ p.at \in Chain(block) /\ LookupInBlock(block, name) = Deleted =>
         LookupInBlock(after, name) = ino

LEMMA InsertLookup ==
    ASSUME NEW block, IsBlock(block), WellFormed(block), NEW name \in Names,
           NEW ino, ino # Deleted,
           NEW p \in FindSpace(block, NameWords[name]),
           NEW after, after = InsertEntry(block, p.at, Entry(ino, p.rec, name))
    PROVE  Shows(block, p, ino, name, after)
<1>1. /\ IsBlock(after) /\ Chain(after) = Chain(block)
      /\ after[p.at] = Entry(ino, p.rec, name)
      /\ \A q \in Chain(block) : q # p.at => after[q] = block[q]
      /\ p.at \in Chain(block) => block[p.at].ino = Deleted
  <2>1. Inserts(block, p, ino, name, after)
    BY InsertKeepsChain
  <2>2. QED
    BY <2>1 DEF Inserts
<1>2. after[p.at].ino = ino /\ after[p.at].name = name
  BY <1>1 DEF Entry
<1>3. \A o \in Live(block) : o # p.at /\ after[o] = block[o]
  BY <1>1 DEF Live
<1>4. Live(after) = IF p.at \in Chain(block) THEN Live(block) \cup {p.at} ELSE Live(block)
  BY <1>1, <1>2 DEF Live
<1>5. ASSUME NEW n \in Names, n # name \/ p.at \notin Chain(block)
      PROVE  LookupInBlock(after, n) = LookupInBlock(block, n)
  <2>1. Matches(after, n) = Matches(block, n)
    BY <1>2, <1>3, <1>4, <1>5 DEF Matches
  <2>2. \A o \in Matches(block, n) : after[o] = block[o]
    BY <1>3 DEF Matches
  <2>3. QED
    BY <2>1, <2>2, LookupInBlockSame
<1>6. ASSUME p.at \in Chain(block), LookupInBlock(block, name) = Deleted
      PROVE  LookupInBlock(after, name) = ino
  <2>1. Matches(block, name) = {}
    BY <1>6, LookupInBlockFinds
  <2>2. Matches(after, name) = {p.at}
    BY <1>2, <1>3, <1>4, <1>6, <2>1 DEF Matches
  <2>3. \E o \in {p.at} : LookupInBlock(after, name) = after[o].ino
    BY <1>1, <2>2, LookupInBlockFinds
  <2>4. QED
    BY <1>2, <2>3
<1>7. QED
  BY <1>3, <1>4, <1>5, <1>6 DEF Shows

\* lookup_in_dir finds the first match in the first block that has one.
LEMMA LookupInDirFinds ==
    ASSUME NEW blocks, DOMAIN blocks \in SUBSET Nat, NEW name
    PROVE  /\ LookupInDir(blocks, name) = Deleted <=>
                \A i \in DOMAIN blocks : LookupInBlock(blocks[i], name) = Deleted
           /\ LookupInDir(blocks, name) # Deleted =>
                \E i \in DOMAIN blocks :
                    LookupInDir(blocks, name) = LookupInBlock(blocks[i], name)
<1> DEFINE H == {i \in DOMAIN blocks : LookupInBlock(blocks[i], name) # Deleted}
<1>1. LookupInDir(blocks, name) =
        IF H = {} THEN Deleted ELSE LookupInBlock(blocks[Min(H)], name)
  BY Zenon DEF LookupInDir
<1>2. H \in SUBSET Nat
  OBVIOUS
<1>3. H # {} => Min(H) \in H
  BY <1>2, MinExists
<1>4. QED
  BY <1>1, <1>3

\* lookup_in_dir answers with the first block that has the name.
LEMMA LookupInDirFirst ==
    ASSUME NEW blocks, DOMAIN blocks \in SUBSET Nat, NEW name, NEW i, i # Deleted
    PROVE  LookupInDir(blocks, name) = i <=>
                \E m \in DOMAIN blocks :
                    /\ LookupInBlock(blocks[m], name) = i
                    /\ \A k \in DOMAIN blocks : k < m => LookupInBlock(blocks[k], name) = Deleted
<1> DEFINE H == {k \in DOMAIN blocks : LookupInBlock(blocks[k], name) # Deleted}
<1>1. LookupInDir(blocks, name) =
        IF H = {} THEN Deleted ELSE LookupInBlock(blocks[Min(H)], name)
  BY Zenon DEF LookupInDir
<1>2. H \in SUBSET Nat
  OBVIOUS
<1>3. H # {} => Min(H) \in H /\ \A k \in H : Min(H) <= k
  BY <1>2, MinExists
<1>4. ASSUME NEW m \in DOMAIN blocks, LookupInBlock(blocks[m], name) = i,
             \A k \in DOMAIN blocks : k < m => LookupInBlock(blocks[k], name) = Deleted
      PROVE  m \in H /\ Min(H) = m
  <2>1. m \in H
    BY <1>4
  <2>2. Min(H) \in H /\ Min(H) <= m
    BY <1>3, <2>1
  <2>3. ~ (Min(H) < m)
    BY <1>4, <2>2
  <2>4. QED
    BY <1>2, <2>1, <2>2, <2>3
<1>5. \A k \in DOMAIN blocks : LookupInBlock(blocks[k], name) # Deleted => k \in H
  OBVIOUS
<1> HIDE DEF H
<1>6. ASSUME LookupInDir(blocks, name) = i
      PROVE  \E m \in DOMAIN blocks :
                    /\ LookupInBlock(blocks[m], name) = i
                    /\ \A k \in DOMAIN blocks : k < m => LookupInBlock(blocks[k], name) = Deleted
  <2>1. H # {} /\ LookupInBlock(blocks[Min(H)], name) = i
    BY <1>1, <1>6
  <2>2. Min(H) \in DOMAIN blocks
    BY <1>3, <2>1 DEF H
  <2>3. \A k \in DOMAIN blocks : k < Min(H) => k \notin H
    BY <1>2, <1>3, <2>1, <2>2
  <2>4. QED
    BY <1>5, <2>1, <2>2, <2>3
<1>7. QED
  BY <1>1, <1>4, <1>6

\* Directories whose blocks answer alike do so themselves; blocks at the end
\* that do not know the name make no difference.
LEMMA LookupInDirSame ==
    ASSUME NEW blocks, NEW others, NEW name,
           DOMAIN blocks \subseteq DOMAIN others,
           \A i \in DOMAIN others : LookupInBlock(others[i], name) =
                IF i \in DOMAIN blocks THEN LookupInBlock(blocks[i], name) ELSE Deleted,
           DOMAIN blocks \in SUBSET Nat
    PROVE  LookupInDir(others, name) = LookupInDir(blocks, name)
<1> DEFINE H == {i \in DOMAIN blocks : LookupInBlock(blocks[i], name) # Deleted}
           K == {i \in DOMAIN others : LookupInBlock(others[i], name) # Deleted}
<1>1. /\ LookupInDir(blocks, name) =
            IF H = {} THEN Deleted ELSE LookupInBlock(blocks[Min(H)], name)
      /\ LookupInDir(others, name) =
            IF K = {} THEN Deleted ELSE LookupInBlock(others[Min(K)], name)
  BY Zenon DEF LookupInDir
<1>2. H = K /\ H \in SUBSET Nat
  OBVIOUS
<1>3. H # {} => Min(H) \in H
  BY <1>2, MinExists
<1>4. \A i \in H : LookupInBlock(others[i], name) = LookupInBlock(blocks[i], name)
  OBVIOUS
<1>5. CASE H = {}
  BY <1>1, <1>2, <1>5, Zenon
<1>6. CASE H # {}
  <2> DEFINE i == Min(H)
  <2>1. i \in H /\ Min(K) = i
    BY <1>2, <1>3, <1>6
  <2>2. LookupInDir(blocks, name) = LookupInBlock(blocks[i], name)
    BY <1>1, <1>6, Zenon
  <2>3. LookupInDir(others, name) = LookupInBlock(others[Min(K)], name)
    BY <1>1, <1>2, <1>6, Zenon
  <2> HIDE DEF H, K, i
  <2>4. QED
    BY <1>4, <2>1, <2>2, <2>3
<1>7. QED
  BY <1>5, <1>6

-----------------------------------------------------------------------------
(* Blocks of typed records.                                                *)

LEMMA DirBlockIsBlock ==
    ASSUME NEW numbers, NEW block, IsDirBlock(block, numbers)
    PROVE  IsBlock(block)
<1>1. \A o \in DOMAIN block : block[o] \in Records(numbers)
  BY DEF IsDirBlock
<1>2. BlockWords \in Nat
  BY DirAssumption
<1>3. QED
  BY <1>1, <1>2 DEF IsDirBlock, IsBlock, Records

\* An insertion writes such a record.
LEMMA InsertIsDirBlock ==
    ASSUME NEW numbers, NEW block, IsDirBlock(block, numbers), WellFormed(block),
           NEW name \in Names, NEW ino \in numbers,
           NEW p \in FindSpace(block, NameWords[name])
    PROVE  IsDirBlock(InsertEntry(block, p.at, Entry(ino, p.rec, name)), numbers)
<1> DEFINE new == InsertEntry(block, p.at, Entry(ino, p.rec, name))
<1>1. IsBlock(block)
  BY DirBlockIsBlock
<1>2. PICK o \in Chain(block) :
        /\ p.at \in Nat /\ p.rec \in Nat /\ NameWords[name] <= p.rec
        /\ o <= p.at /\ p.at + p.rec = After(block, o)
  BY <1>1, SpaceFound
<1>3. Begins(block, o) /\ After(block, o) \in Offsets /\ NameWords[name] \in Nat
      /\ NameWords[name] > MinWords /\ o \in Nat
  BY <1>1, ChainClosed, AfterIsOffset, DirAssumption DEF Offsets
<1>4. p.at \in 0..(BlockWords - 1) /\ p.rec \in 1..BlockWords
  BY <1>2, <1>3, DirAssumption DEF Offsets, MinWords
<1>5. Entry(ino, p.rec, name) \in Records(numbers)
  BY <1>4 DEF Entry, Records
<1>6. /\ DOMAIN block \subseteq 0..(BlockWords - 1)
      /\ \A q \in DOMAIN block : block[q] \in Records(numbers)
  BY DEF IsDirBlock
<1>7. DOMAIN new \subseteq 0..(BlockWords - 1)
  BY <1>4, <1>6 DEF InsertEntry
<1>8. new \in [DOMAIN new -> Records(numbers)]
  BY <1>5, <1>6 DEF InsertEntry
<1>9. QED
  BY <1>7, <1>8 DEF IsDirBlock

LEMMA FreshIsDirBlock ==
    ASSUME NEW numbers, NEW name \in Names, NEW ino \in numbers
    PROVE  IsDirBlock(FreshBlock(ino, name), numbers)
<1>1. BlockWords \in Nat /\ BlockWords > MinWords
  BY DirAssumption DEF MinWords
<1>2. Entry(ino, BlockWords, name) \in Records(numbers)
  BY <1>1 DEF Entry, Records, MinWords
<1>3. 0 \in 0..(BlockWords - 1)
  BY <1>1 DEF MinWords
<1>4. QED
  BY <1>2, <1>3 DEF FreshBlock, IsDirBlock
=============================================================================
