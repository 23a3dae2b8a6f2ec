-------------------------- MODULE InodeTableProofs --------------------------
(***************************************************************************)
(* Theorems about InodeTable, for every number of groups, every number of  *)
(* inodes in a group, every size of inode and every width of the fields.   *)
(***************************************************************************)
EXTENDS InodeTable, BitmapProofs

Fields == BaseFields \cup {"created"}

Wholes == [size : Nat, links : Nat, uid : Nat, created : {"known"}]

\* Where the tables are, and what the history is made of.
Layout ==
    /\ inodeUnits \in Nat \ {0}
    /\ DOMAIN units = 0..(NumGroups * InodesPerGroup * inodeUnits - 1)
    /\ truth \in [Inodes -> Wholes]

-----------------------------------------------------------------------------
(* Arithmetic of places.                                                   *)

\* The table of inode `ino' begins ino - 1 inodes after the first one.
LEMMA PlaceIs ==
    ASSUME NEW ino \in Inodes
    PROVE  Place(ino) = (ino - 1) * inodeUnits
<1>1. ino - 1 \in Nat /\ InodesPerGroup \in Nat \ {0}
  <2>1. NumGroups * InodesPerGroup \in Nat
    BY InodeTableAssumption
  <2>2. QED
    BY <2>1, InodeTableAssumption DEF Inodes
<1>2. ino - 1 = InodesPerGroup * ((ino - 1) \div InodesPerGroup) + ((ino - 1) % InodesPerGroup)
  BY <1>1, DivMod
<1>3. (ino - 1) \div InodesPerGroup \in Nat
  BY <1>1, DivMod
<1>4. ((ino - 1) \div InodesPerGroup) * InodesPerGroup
        = InodesPerGroup * ((ino - 1) \div InodesPerGroup)
  BY <1>1, <1>3
<1>5. ((ino - 1) \div InodesPerGroup) * InodesPerGroup + ((ino - 1) % InodesPerGroup) = ino - 1
  <2>1. (ino - 1) % InodesPerGroup \in Nat
    BY <1>1, DivMod
  <2>2. InodesPerGroup * ((ino - 1) \div InodesPerGroup) \in Nat
    BY <1>1, <1>3
  <2>3. QED
    BY <1>1, <1>2, <1>4, <2>1, <2>2
<1>6. QED
  BY <1>5 DEF Place

\* A unit belongs to one inode, and is in its table.
LEMMA UnitOf ==
    ASSUME Layout, NEW ino \in Inodes, NEW u \in 0..(inodeUnits - 1)
    PROVE  /\ Place(ino) + u \in DOMAIN units
           /\ (Place(ino) + u) \div inodeUnits = ino - 1
           /\ (Place(ino) + u) % inodeUnits = u
<1>1. ino - 1 \in Nat /\ inodeUnits \in Nat \ {0} /\ NumGroups * InodesPerGroup \in Nat
  <2>1. NumGroups * InodesPerGroup \in Nat
    BY InodeTableAssumption
  <2>2. QED
    BY <2>1 DEF Layout, Inodes
<1>2. Place(ino) = (ino - 1) * inodeUnits
  BY PlaceIs
<1>3. (ino - 1) * inodeUnits + inodeUnits <= NumGroups * InodesPerGroup * inodeUnits
  <2> DEFINE all == NumGroups * InodesPerGroup
  <2>1. PICK e \in Nat : all = ino + e
    <3>1. all - ino \in Nat /\ all = ino + (all - ino)
      BY <1>1 DEF Inodes
    <3>2. QED
      BY <3>1
  <2> HIDE DEF all
  <2>2. ino \in Nat
    BY <1>1 DEF Inodes
  <2>3. all * inodeUnits = (ino - 1) * inodeUnits + inodeUnits + e * inodeUnits
    BY <1>1, <2>1, <2>2
  <2>4. e * inodeUnits \in Nat /\ (ino - 1) * inodeUnits \in Nat
    BY <1>1, <2>1
  <2>5. QED
    BY <1>1, <2>3, <2>4 DEF all
<1>4. (ino - 1) * inodeUnits \in Nat /\ NumGroups * InodesPerGroup * inodeUnits \in Nat
  BY <1>1
<1>5. Place(ino) + u \in DOMAIN units
  BY <1>1, <1>2, <1>3, <1>4 DEF Layout
<1>6. ((ino - 1) * inodeUnits + u) \div inodeUnits = ino - 1
      /\ ((ino - 1) * inodeUnits + u) % inodeUnits = u
  BY <1>1, DivUnique
<1>7. QED
  BY <1>2, <1>5, <1>6

\* ... and the other way around.
LEMMA InodeOf ==
    ASSUME Layout, NEW p \in DOMAIN units, NEW ino \in Inodes
    PROVE  p >= Place(ino) /\ p - Place(ino) \in 0..(inodeUnits - 1)
                <=> p \div inodeUnits + 1 = ino
<1>1. ino - 1 \in Nat /\ inodeUnits \in Nat \ {0} /\ p \in Nat
  <2>1. NumGroups * InodesPerGroup \in Nat
    BY InodeTableAssumption
  <2>2. QED
    BY <2>1 DEF Layout, Inodes
<1>2. Place(ino) = (ino - 1) * inodeUnits /\ Place(ino) \in Nat
  BY <1>1, PlaceIs
<1>3. ASSUME p >= Place(ino), p - Place(ino) \in 0..(inodeUnits - 1)
      PROVE  p \div inodeUnits + 1 = ino
  <2>1. (Place(ino) + (p - Place(ino))) \div inodeUnits = ino - 1
    BY <1>3, UnitOf
  <2>2. Place(ino) + (p - Place(ino)) = p
    BY <1>1, <1>2
  <2>3. ino \in Nat
    BY <1>1 DEF Inodes
  <2>4. QED
    BY <1>1, <2>1, <2>2, <2>3
<1>4. ASSUME p \div inodeUnits + 1 = ino
      PROVE  p >= Place(ino) /\ p - Place(ino) \in 0..(inodeUnits - 1)
  <2>1. /\ p \div inodeUnits \in Nat /\ p % inodeUnits \in 0..(inodeUnits - 1)
        /\ p = inodeUnits * (p \div inodeUnits) + (p % inodeUnits)
    BY <1>1, DivMod
  <2>2. p \div inodeUnits = ino - 1
    BY <1>4, <2>1
  <2>3. inodeUnits * (p \div inodeUnits) = Place(ino)
    BY <1>1, <1>2, <2>2
  <2> DEFINE r == p % inodeUnits
  <2>4. p = Place(ino) + r /\ r \in 0..(inodeUnits - 1)
    BY <2>1, <2>3
  <2> HIDE DEF r
  <2>5. QED
    BY <1>1, <1>2, <2>4
<1>5. QED
  BY <1>3, <1>4

-----------------------------------------------------------------------------
(* Reads and writes of inodes.                                             *)

\* What a write puts where.
LEMMA Written ==
    ASSUME Layout, NEW ino \in Inodes, NEW inode, WriteInode(ino, inode)
    PROVE  /\ DOMAIN units' = DOMAIN units
           /\ \A p \in DOMAIN units : p \div inodeUnits + 1 # ino => units'[p] = units[p]
           /\ \A u \in 0..(inodeUnits - 1) : units'[Place(ino) + u] = ToBytes(inode)[u]
<1> DEFINE buf == ToBytes(inode)
<1>1. DOMAIN buf = 0..(inodeUnits - 1)
  BY DEF ToBytes, Serialised
<1>2. units' = [u \in DOMAIN units |->
                    IF u >= Place(ino) /\ u - Place(ino) \in DOMAIN buf
                    THEN buf[u - Place(ino)] ELSE units[u]]
  BY DEF WriteInode
<1> HIDE DEF buf
<1>3. ASSUME NEW p \in DOMAIN units, p \div inodeUnits + 1 # ino
      PROVE  units'[p] = units[p]
  BY <1>1, <1>2, <1>3, InodeOf
<1>4. ASSUME NEW u \in 0..(inodeUnits - 1)
      PROVE  units'[Place(ino) + u] = buf[u]
  <2>1. Place(ino) + u \in DOMAIN units
    BY UnitOf
  <2>2. Place(ino) \in Nat
    <3>1. ino - 1 \in Nat /\ inodeUnits \in Nat
      <4>1. NumGroups * InodesPerGroup \in Nat
        BY InodeTableAssumption
      <4>2. QED
        BY <4>1 DEF Layout, Inodes
    <3>2. QED
      BY <3>1, PlaceIs
  <2>3. Place(ino) + u >= Place(ino) /\ (Place(ino) + u) - Place(ino) = u
    BY <2>2
  <2>4. QED
    BY <1>1, <1>2, <2>1, <2>3
<1>5. QED
  BY <1>2, <1>3, <1>4 DEF buf

\* A read depends on the units of the inode.
LEMMA ReadSame ==
    ASSUME NEW ino, inodeUnits' = inodeUnits,
           \A u \in 0..(inodeUnits - 1) : units'[Place(ino) + u] = units[Place(ino) + u]
    PROVE  ReadInode(ino)' = ReadInode(ino)
<1>1. Place(ino)' = Place(ino)
  BY DEF Place
<1>2. [u \in 0..(inodeUnits' - 1) |-> units'[Place(ino)' + u]]
        = [u \in 0..(inodeUnits - 1) |-> units[Place(ino) + u]]
  BY <1>1
<1> DEFINE Parsed(large, buf) ==
            [f \in Fields |->
                IF f = "created" THEN (IF large THEN buf[1]["created"] ELSE "zeros")
                ELSE IF f \in {"blocks_hi", "uid_hi"} /\ ~ large THEN 0
                ELSE buf[0][f]]
           buf == [u \in 0..(inodeUnits - 1) |-> units[Place(ino) + u]]
<1>3. ReadInode(ino) = Parsed(inodeUnits >= 2, buf)
  BY DEF ReadInode, FromBytes, Fields
<1>4. ReadInode(ino)'
        = Parsed(inodeUnits' >= 2, [u \in 0..(inodeUnits' - 1) |-> units'[Place(ino)' + u]])
  BY DEF ReadInode, FromBytes, Fields
<1> HIDE DEF Parsed, buf
<1>5. QED
  BY <1>2, <1>3, <1>4 DEF buf

\* A read of another inode returns what it did before the write.
LEMMA ReadOther ==
    ASSUME Layout, NEW ino \in Inodes, NEW inode, WriteInode(ino, inode),
           inodeUnits' = inodeUnits, NEW other \in Inodes, other # ino
    PROVE  ReadInode(other)' = ReadInode(other)
<1>1. ASSUME NEW u \in 0..(inodeUnits - 1)
      PROVE  units'[Place(other) + u] = units[Place(other) + u]
  <2>1. /\ Place(other) + u \in DOMAIN units
        /\ (Place(other) + u) \div inodeUnits = other - 1
    BY UnitOf
  <2>2. (Place(other) + u) \div inodeUnits + 1 # ino
    <3>1. other \in Nat /\ ino \in Nat
      BY DEF Inodes
    <3>2. other - 1 + 1 = other
      BY <3>1
    <3>3. QED
      BY <2>1, <3>2
  <2>3. QED
    BY <2>1, <2>2, Written
<1>2. QED
  BY <1>1, ReadSame

\* A read of the inode just written returns the fields that are stored.
LEMMA ReadWritten ==
    ASSUME Layout, NEW ino \in Inodes, NEW inode, WriteInode(ino, inode),
           inodeUnits' = inodeUnits
    PROVE  /\ \A f \in {"size_lo", "size_hi", "uid", "links"} :
                ReadInode(ino)'[f] = inode[f]
           /\ inodeUnits >= 2 =>
                /\ ReadInode(ino)'["uid_hi"] = inode["uid_hi"]
                /\ ReadInode(ino)'["created"] = inode["created"]
<1>1. \A u \in 0..(inodeUnits - 1) : units'[Place(ino) + u] = ToBytes(inode)[u]
  BY Written
<1>2. Place(ino)' = Place(ino)
  BY DEF Place
<1> DEFINE buf == [u \in 0..(inodeUnits' - 1) |-> units'[Place(ino)' + u]]
<1>3. 0 \in 0..(inodeUnits - 1) /\ (inodeUnits >= 2 => 1 \in 0..(inodeUnits - 1))
  BY DEF Layout
<1>4. buf[0] = ToBytes(inode)[0] /\ (inodeUnits >= 2 => buf[1] = ToBytes(inode)[1])
  BY <1>1, <1>2, <1>3
<1>5. /\ \A f \in {"size_lo", "size_hi", "uid", "links"} : ToBytes(inode)[0][f] = inode[f]
      /\ inodeUnits >= 2 =>
            /\ ToBytes(inode)[0]["uid_hi"] = inode["uid_hi"]
            /\ ToBytes(inode)[1]["created"] = inode["created"]
  <2>1. ToBytes(inode)[0] = [f \in BaseFields |->
            IF f \in {"blocks_hi", "uid_hi"} /\ inodeUnits < 2 THEN 0 ELSE inode[f]]
    BY <1>3 DEF ToBytes, Serialised
  <2>2. inodeUnits >= 2 => ToBytes(inode)[1] = Extra(inode["created"], "zeros")
    BY <1>3 DEF ToBytes, Serialised
  <2>3. Extra(inode["created"], "zeros")["created"] = inode["created"]
    BY DEF Extra
  <2>4. inodeUnits >= 2 => ~ (inodeUnits < 2)
    BY DEF Layout
  <2>5. QED
    BY <2>1, <2>2, <2>3, <2>4 DEF BaseFields
<1>6. ReadInode(ino)' = [f \in Fields |->
            IF f = "created" THEN (IF inodeUnits >= 2 THEN buf[1]["created"] ELSE "zeros")
            ELSE IF f \in {"blocks_hi", "uid_hi"} /\ ~ (inodeUnits >= 2) THEN 0
            ELSE buf[0][f]]
  BY DEF ReadInode, FromBytes, Fields
<1> HIDE DEF buf
<1>7. QED
  BY <1>4, <1>5, <1>6 DEF Fields, BaseFields

-----------------------------------------------------------------------------
(* The invariant.                                                          *)

\* What the history says of an inode as it is read.
ReadsBack(inode, whole) ==
    /\ Size(inode) = whole.size
    /\ inode.links = whole.links
    /\ inode.uid = whole.uid % Base
    /\ inodeUnits >= 2 => FullUid(inode) = whole.uid /\ inode.created = whole.created

LEMMA ReadIsRecord ==
    ASSUME NEW ino
    PROVE  DOMAIN ReadInode(ino) = Fields
BY DEF ReadInode, FromBytes, Fields

\* A size is put together again from the halves it was cut into.
LEMMA SizeSet ==
    ASSUME NEW inode, DOMAIN inode = Fields, NEW size \in Nat
    PROVE  /\ DOMAIN SetSize(inode, size) = Fields
           /\ Size(SetSize(inode, size)) = size
           /\ \A f \in {"links", "uid", "uid_hi", "created"} :
                SetSize(inode, size)[f] = inode[f]
<1>1. /\ SetSize(inode, size)["size_lo"] = size % WordBase
      /\ SetSize(inode, size)["size_hi"] = size \div WordBase
      /\ \A f \in {"links", "uid", "uid_hi", "created"} : SetSize(inode, size)[f] = inode[f]
      /\ DOMAIN SetSize(inode, size) = Fields
  BY DEF SetSize, Fields, BaseFields
<1>2. size = WordBase * (size \div WordBase) + (size % WordBase)
      /\ size \div WordBase \in Nat /\ size % WordBase \in Nat
  BY DivMod, InodeTableAssumption
<1>3. WordBase * (size \div WordBase) \in Nat
  BY <1>2, InodeTableAssumption
<1>4. QED
  BY <1>1, <1>2, <1>3 DEF Size

\* A call writes an inode that reads as its user means it.
LEMMA CallKeeps ==
    ASSUME Layout, InodesReadBack, NEW ino \in Inodes, NEW inode, NEW whole,
           WriteInode(ino, inode), Called(ino, whole), ReadsBack(inode, whole),
           whole \in Wholes
    PROVE  Layout' /\ InodesReadBack'
<1>1. inodeUnits' = inodeUnits /\ truth' = [truth EXCEPT ![ino] = whole]
  BY DEF Called
<1>2. Layout'
  BY <1>1, Written DEF Layout
<1>3. ASSUME NEW other \in Inodes
      PROVE  ReadsBack(ReadInode(other), truth[other])'
  <2>1. CASE other # ino
    <3>1. ReadInode(other)' = ReadInode(other) /\ truth'[other] = truth[other]
      BY <1>1, <2>1, ReadOther DEF Layout
    <3>2. ReadsBack(ReadInode(other), truth[other])
      BY DEF InodesReadBack, ReadsBack
    <3>3. QED
      BY <1>1, <3>1, <3>2 DEF ReadsBack, Size, FullUid
  <2>2. CASE other = ino
    <3>1. truth'[ino] = whole
      BY <1>1 DEF Layout
    <3>2. /\ \A f \in {"size_lo", "size_hi", "uid", "links"} :
                ReadInode(ino)'[f] = inode[f]
          /\ inodeUnits >= 2 =>
                /\ ReadInode(ino)'["uid_hi"] = inode["uid_hi"]
                /\ ReadInode(ino)'["created"] = inode["created"]
      BY <1>1, ReadWritten
    <3>3. QED
      BY <1>1, <2>2, <3>1, <3>2 DEF ReadsBack, Size, FullUid
  <2>3. QED
    BY <2>1, <2>2
<1>4. InodesReadBack'
  BY <1>3 DEF InodesReadBack, ReadsBack
<1>5. QED
  BY <1>2, <1>4

LEMMA LayoutInit == Init => Layout
<1> SUFFICES ASSUME Init PROVE Layout
  OBVIOUS
<1>1. inodeUnits \in Nat \ {0}
  BY InodeTableAssumption DEF Init
<1>2. DOMAIN units = 0..(NumGroups * InodesPerGroup * inodeUnits - 1)
  BY DEF Init
<1>3. truth \in [Inodes -> {Whole(size, 1, Base + 1) : size \in {WordBase - 1, MaxSize - 1}}]
  BY DEF Init
<1>4. WordBase - 1 \in Nat /\ MaxSize - 1 \in Nat /\ Base + 1 \in Nat
  <2>1. PICK w \in Nat : WordBase = w + 2
    <3>1. WordBase - 2 \in Nat /\ WordBase = (WordBase - 2) + 2
      BY InodeTableAssumption
    <3>2. QED
      BY <3>1
  <2>2. WordBase * WordBase = w * w + 4 * w + 4 /\ w * w \in Nat
    BY <2>1
  <2>3. QED
    BY <2>1, <2>2, InodeTableAssumption DEF MaxSize
<1>5. ASSUME NEW ino \in Inodes
      PROVE  truth[ino] \in Wholes
  <2>1. PICK size \in Nat : truth[ino] = Whole(size, 1, Base + 1)
    BY <1>3, <1>4
  <2>2. QED
    BY <1>4, <2>1 DEF Whole, Wholes
<1>6. QED
  BY <1>1, <1>2, <1>3, <1>5 DEF Layout

LEMMA ReadsBackInit == Init => InodesReadBack
<1> SUFFICES ASSUME Init, NEW ino \in Inodes
             PROVE  ReadsBack(ReadInode(ino), truth[ino])
  BY DEF InodesReadBack, ReadsBack
<1>1. Layout
  BY LayoutInit
<1> DEFINE whole == truth[ino]
           buf == [u \in 0..(inodeUnits - 1) |-> units[Place(ino) + u]]
<1>2. ASSUME NEW u \in 0..(inodeUnits - 1)
      PROVE  buf[u] = Stored(whole, u)
  <2>1. units = [p \in 0..(NumGroups * InodesPerGroup * inodeUnits - 1) |->
                    Stored(truth[p \div inodeUnits + 1], p % inodeUnits)]
    BY DEF Init
  <2>2. /\ Place(ino) + u \in DOMAIN units
        /\ (Place(ino) + u) \div inodeUnits = ino - 1
        /\ (Place(ino) + u) % inodeUnits = u
    BY <1>1, UnitOf
  <2>3. ino - 1 + 1 = ino
    BY DEF Inodes
  <2>4. units[Place(ino) + u] = Stored(truth[ino], u)
    BY <2>1, <2>2, <2>3
  <2>5. QED
    BY <2>4
<1>3. 0 \in 0..(inodeUnits - 1) /\ (inodeUnits >= 2 => 1 \in 0..(inodeUnits - 1))
  BY <1>1 DEF Layout
<1>4. /\ buf[0] = [f \in BaseFields |->
                    CASE f = "size_lo" -> whole.size % WordBase
                      [] f = "size_hi" -> whole.size \div WordBase
                      [] f = "blocks_lo" -> whole.size % WordBase
                      [] f = "blocks_hi" -> whole.size \div WordBase
                      [] f = "uid" -> whole.uid % Base
                      [] f = "uid_hi" -> whole.uid \div Base
                      [] f = "links" -> whole.links]
      /\ inodeUnits >= 2 => buf[1] = Extra("known", "set")
  <2>1. buf[0] = Stored(whole, 0) /\ (inodeUnits >= 2 => buf[1] = Stored(whole, 1))
    BY <1>2, <1>3
  <2> HIDE DEF buf, whole
  <2>2. Stored(whole, 1) = Extra("known", "set")
    BY DEF Stored
  <2>3. QED
    BY <2>1, <2>2 DEF Stored
<1>5. /\ buf[0]["size_lo"] = whole.size % WordBase
      /\ buf[0]["size_hi"] = whole.size \div WordBase
      /\ buf[0]["uid"] = whole.uid % Base
      /\ buf[0]["uid_hi"] = whole.uid \div Base
      /\ buf[0]["links"] = whole.links
  BY <1>4 DEF BaseFields
<1>6. inodeUnits >= 2 => buf[1]["created"] = "known"
  <2>1. Extra("known", "set")["created"] = "known"
    BY DEF Extra
  <2>2. QED
    BY <1>4, <2>1
<1>7. ReadInode(ino) = [f \in Fields |->
            IF f = "created" THEN (IF inodeUnits >= 2 THEN buf[1]["created"] ELSE "zeros")
            ELSE IF f \in {"blocks_hi", "uid_hi"} /\ ~ (inodeUnits >= 2) THEN 0
            ELSE buf[0][f]]
  BY DEF ReadInode, FromBytes, Fields
<1>8. /\ whole.size \in Nat /\ whole.uid \in Nat /\ whole.created = "known"
      /\ WordBase \in Nat \ {0} /\ Base \in Nat \ {0}
  BY <1>1, InodeTableAssumption DEF Layout, Wholes
<1> HIDE DEF buf, whole
<1>9. /\ ReadInode(ino)["size_lo"] = whole.size % WordBase
      /\ ReadInode(ino)["size_hi"] = whole.size \div WordBase
      /\ ReadInode(ino)["uid"] = whole.uid % Base
      /\ ReadInode(ino)["links"] = whole.links
      /\ inodeUnits >= 2 => ReadInode(ino)["uid_hi"] = whole.uid \div Base
      /\ inodeUnits >= 2 => ReadInode(ino)["created"] = "known"
  BY <1>5, <1>6, <1>7 DEF Fields, BaseFields
<1>10. /\ (whole.size % WordBase) + WordBase * (whole.size \div WordBase) = whole.size
       /\ (whole.uid % Base) + Base * (whole.uid \div Base) = whole.uid
  <2>1. ASSUME NEW n \in Nat, NEW d \in Nat \ {0}
        PROVE  (n % d) + d * (n \div d) = n
    <3>1. n \div d \in Nat /\ n % d \in Nat /\ n = d * (n \div d) + (n % d)
      BY DivMod
    <3>2. d * (n \div d) \in Nat
      BY <3>1
    <3>3. QED
      BY <3>1, <3>2
  <2>2. QED
    BY <1>8, <2>1
<1>11. QED
  BY <1>8, <1>9, <1>10 DEF ReadsBack, Size, FullUid, whole

\* An inode that another one differs from in its size.
LEMMA ReadsBackSized ==
    ASSUME NEW old, NEW whole \in Wholes, ReadsBack(old, whole), NEW size \in Nat,
           NEW sized, Size(sized) = size,
           \A f \in {"links", "uid", "uid_hi", "created"} : sized[f] = old[f]
    PROVE  ReadsBack(sized, Whole(size, whole.links, whole.uid))
<1>1. whole.created = "known"
  BY DEF Wholes
<1>2. QED
  BY <1>1 DEF ReadsBack, FullUid, Whole

\* Every call leaves what it meant, and the other inodes alone.
LEMMA CallsKeep ==
    ASSUME Layout, InodesReadBack, NEW ino \in Inodes,
           \/ \E links \in 1..2 : Create(ino, links)
           \/ \E blocks \in 0..MaxBlocks : SizeFile(ino, blocks)
           \/ SizeParent(ino)
           \/ CountLink(ino)
    PROVE  Layout' /\ InodesReadBack'
<1> DEFINE old == ReadInode(ino)
           whole == truth[ino]
<1>1. whole \in Wholes /\ Base \in Nat /\ Base > 2
  BY InodeTableAssumption DEF Layout
<1>2. ReadsBack(old, whole) /\ DOMAIN old = Fields
  BY ReadIsRecord DEF InodesReadBack, ReadsBack
<1>3. ASSUME NEW links \in 1..2, Create(ino, links)
      PROVE  Layout' /\ InodesReadBack'
  <2> DEFINE new == Whole(0, links, 0)
  <2>1. ReadsBack(NewInode(links), new)
    <3>1. 0 + WordBase * 0 = 0 /\ 0 + Base * 0 = 0 /\ 0 % Base = 0
      BY <1>1, InodeTableAssumption
    <3>2. /\ NewInode(links)["size_lo"] = 0 /\ NewInode(links)["size_hi"] = 0
          /\ NewInode(links)["uid"] = 0 /\ NewInode(links)["uid_hi"] = 0
          /\ NewInode(links)["links"] = links /\ NewInode(links)["created"] = "known"
      BY DEF NewInode, BaseFields
    <3>3. QED
      BY <3>1, <3>2 DEF ReadsBack, Size, FullUid, Whole
  <2>2. new \in Wholes
    BY DEF Whole, Wholes
  <2> HIDE DEF new
  <2>3. WriteInode(ino, NewInode(links)) /\ Called(ino, new)
    BY <1>3 DEF Create, new
  <2>4. QED
    BY <2>1, <2>2, <2>3, CallKeeps
<1>4. ASSUME NEW blocks \in 0..MaxBlocks, SizeFile(ino, blocks)
      PROVE  Layout' /\ InodesReadBack'
  <2> DEFINE sized == SetSize(old, blocks)
             inode == [sized EXCEPT !.blocks_lo = blocks]
             new == [whole EXCEPT !.size = blocks]
  <2>1. blocks \in Nat
    BY InodeTableAssumption
  <2>2. /\ DOMAIN sized = Fields /\ Size(sized) = blocks
        /\ \A f \in {"links", "uid", "uid_hi", "created"} : sized[f] = old[f]
    BY <1>2, <2>1, SizeSet
  <2>3. WriteInode(ino, inode) /\ Called(ino, new)
    BY <1>4 DEF SizeFile
  <2>4. \A f \in Fields \ {"blocks_lo"} : inode[f] = sized[f]
    BY <2>2
  <2>5. new \in Wholes /\ new = Whole(blocks, whole.links, whole.uid)
    BY <1>1, <2>1 DEF Wholes, Whole
  <2> HIDE DEF sized, inode, new
  <2>6. ReadsBack(inode, new)
    <3>1. /\ Size(inode) = blocks
          /\ \A f \in {"links", "uid", "uid_hi", "created"} : inode[f] = old[f]
      BY <2>2, <2>4 DEF Size, Fields, BaseFields
    <3>2. QED
      BY <1>1, <1>2, <2>1, <2>5, <3>1, ReadsBackSized
  <2>7. QED
    BY <2>3, <2>5, <2>6, CallKeeps
<1>5. CASE SizeParent(ino)
  <2> DEFINE size == Size(old) + 1
             new == [whole EXCEPT !.size = @ + 1]
  <2>1. size = whole.size + 1 /\ size \in Nat
    BY <1>1, <1>2 DEF ReadsBack, Wholes
  <2>2. WriteInode(ino, SetSize(old, size)) /\ Called(ino, new)
    BY <1>5 DEF SizeParent
  <2>3. new \in Wholes /\ new = Whole(size, whole.links, whole.uid)
    BY <1>1, <2>1 DEF Wholes, Whole
  <2> HIDE DEF size, new
  <2>4. /\ DOMAIN SetSize(old, size) = Fields /\ Size(SetSize(old, size)) = size
        /\ \A f \in {"links", "uid", "uid_hi", "created"} : SetSize(old, size)[f] = old[f]
    BY <1>2, <2>1, SizeSet
  <2>5. ReadsBack(SetSize(old, size), new)
    BY <1>1, <1>2, <2>1, <2>3, <2>4, ReadsBackSized
  <2>6. QED
    BY <2>2, <2>3, <2>5, CallKeeps
<1>6. CASE CountLink(ino)
  <2> DEFINE inode == [old EXCEPT !.links = SaturatingSucc(@)]
             new == [whole EXCEPT !.links = SaturatingSucc(@)]
  <2>1. WriteInode(ino, inode) /\ Called(ino, new)
    BY <1>6 DEF CountLink
  <2>2. /\ inode["links"] = SaturatingSucc(old["links"])
        /\ \A f \in Fields \ {"links"} : inode[f] = old[f]
    BY <1>2 DEF Fields, BaseFields
  <2>3. SaturatingSucc(whole.links) \in Nat
    BY <1>1 DEF SaturatingSucc, Wholes
  <2>4. /\ new \in Wholes /\ new.size = whole.size /\ new.uid = whole.uid
        /\ new.links = SaturatingSucc(whole.links) /\ new.created = whole.created
    BY <1>1, <2>3 DEF Wholes
  <2> HIDE DEF inode, new
  <2>5. ReadsBack(inode, new)
    BY <1>2, <2>2, <2>4 DEF ReadsBack, Size, FullUid, Fields, BaseFields
  <2>6. QED
    BY <2>1, <2>4, <2>5, CallKeeps
<1>7. QED
  BY <1>3, <1>4, <1>5, <1>6

-----------------------------------------------------------------------------

\* The invariant is what the property says of reads, with the layout.
LEMMA TableInvariant == Spec => [](Layout /\ InodesReadBack)
<1>1. Layout /\ InodesReadBack /\ [Next]_vars => (Layout /\ InodesReadBack)'
  <2> SUFFICES ASSUME Layout, InodesReadBack, [Next]_vars
               PROVE  (Layout /\ InodesReadBack)'
    OBVIOUS
  <2>1. CASE Next
    BY <2>1, CallsKeep DEF Next
  <2>2. CASE UNCHANGED vars
    <3>1. units' = units /\ inodeUnits' = inodeUnits /\ truth' = truth
      BY <2>2 DEF vars
    <3>2. ASSUME NEW ino \in Inodes
          PROVE  ReadInode(ino)' = ReadInode(ino)
      BY <3>1, ReadSame
    <3>3. Layout'
      BY <3>1 DEF Layout
    <3>4. InodesReadBack'
      BY <3>1, <3>2 DEF InodesReadBack, Size, FullUid
    <3>5. QED
      BY <3>3, <3>4
  <2>3. QED
    BY <2>1, <2>2
<1>2. QED
  BY <1>1, LayoutInit, ReadsBackInit, PTL DEF Spec

\* However often inodes are read, changed and written back: each one reads as
\* the calls have left it, of either size, its halves put together, in a table
\* of any number of groups.
THEOREM InodesReadBackCorrect == Spec => []InodesReadBack
BY TableInvariant, PTL

\* The offset that write_inode computes and the length that it writes keep to
\* the inode's own bytes, whatever the number of inodes in a group.
THEOREM NeighboursKeptCorrect == Spec => NeighboursKept
<1> DEFINE Kept == \E ino \in Inodes :
            /\ \A other \in Inodes \ {ino} : truth'[other] = truth[other]
            /\ \A p \in DOMAIN units :
                    p \div inodeUnits + 1 # ino => units'[p] = units[p]
<1>1. ASSUME Layout, Next
      PROVE  Kept
  <2>1. PICK ino \in Inodes :
            \E inode, whole : WriteInode(ino, inode) /\ Called(ino, whole)
    BY <1>1 DEF Next, Create, SizeFile, SizeParent, CountLink
  <2>2. \A p \in DOMAIN units : p \div inodeUnits + 1 # ino => units'[p] = units[p]
    BY <1>1, <2>1, Written
  <2>3. \A other \in Inodes \ {ino} : truth'[other] = truth[other]
    BY <1>1, <2>1 DEF Called, Layout
  <2>4. QED
    BY <2>1, <2>2, <2>3
<1>2. Layout /\ [Next]_vars => [Kept]_vars
  BY <1>1
<1>3. QED
  BY <1>2, TableInvariant, PTL DEF Spec, NeighboursKept
=============================================================================
