-------------------------- MODULE DirectoryProofs ---------------------------
(***************************************************************************)
(* Theorems about Directory, for every clean directory, every block size,  *)
(* every set of names and any number of extents and inodes.                *)
(***************************************************************************)
EXTENDS Directory, DirBlockProofs

\* The inductive invariant.  That a lookup of write_file or mkdir answers
\* NotFound means that no entry in use has the name only while the chains
\* tile; that the entry then added is found, only while no other has its name.
Tidy ==
    /\ TypeOK
    /\ ChainsTile
    /\ NamesUniqueWithoutFaults
    /\ FoundUnlessInSlack

\* The directory `after' is `image' but for the block i.
SameBut(image, i, block, after) ==
    /\ IsDirectory(after)
    /\ DOMAIN after = DOMAIN image \cup {i}
    /\ after[i] = block
    /\ \A j \in DOMAIN image : j # i => after[j] = image[j]

LEMMA ExtentIsAddedOrReplaced ==
    ASSUME NEW image, IsDirectory(image), NEW block, IsDirBlock(block, Inodes)
    PROVE  /\ \A i \in DOMAIN image : SameBut(image, i, block, [image EXCEPT ![i] = block])
           /\ Len(image) + 1 \notin DOMAIN image
           /\ Len(image) < MaxExtents =>
                SameBut(image, Len(image) + 1, block, Append(image, block))
<1> DEFINE S == {image[i] : i \in 1..Len(image)} \cup {block}
<1>1. /\ Len(image) \in Nat /\ DOMAIN image = 1..Len(image) /\ MaxExtents \in Nat
      /\ image = [i \in 1..Len(image) |-> image[i]] /\ Len(image) <= MaxExtents
  BY DirectoryAssumption DEF IsDirectory
<1>2. \A b \in S : IsDirBlock(b, Inodes)
  BY <1>1 DEF IsDirectory
<1>3. image \in [1..Len(image) -> S]
  BY <1>1, Zenon
<1>4. image \in Seq(S) /\ block \in S
  BY <1>1, <1>3
<1> HIDE DEF S
<1>5. ASSUME NEW after \in Seq(S), Len(after) <= MaxExtents
      PROVE  IsDirectory(after)
  <2>1. /\ Len(after) \in Nat /\ DOMAIN after = 1..Len(after)
        /\ \A i \in DOMAIN after : after[i] \in S
    BY <1>5
  <2>2. after = [i \in 1..Len(after) |-> after[i]]
    BY <1>5, <2>1
  <2>3. QED
    BY <1>1, <1>2, <1>5, <2>1, <2>2 DEF IsDirectory
<1>6. ASSUME NEW i \in DOMAIN image
      PROVE  SameBut(image, i, block, [image EXCEPT ![i] = block])
  <2> DEFINE after == [image EXCEPT ![i] = block]
  <2>1. after \in Seq(S) /\ Len(after) = Len(image)
    BY <1>1, <1>4, <1>6
  <2>2. /\ DOMAIN after = DOMAIN image \cup {i} /\ after[i] = block
        /\ \A j \in DOMAIN image : j # i => after[j] = image[j]
    BY <1>1
  <2> HIDE DEF after
  <2>3. IsDirectory(after)
    BY <1>1, <1>5, <2>1
  <2>4. QED
    BY <2>2, <2>3 DEF after, SameBut
<1>7. ASSUME Len(image) < MaxExtents
      PROVE  SameBut(image, Len(image) + 1, block, Append(image, block))
  <2> DEFINE after == Append(image, block)
  <2>1. after \in Seq(S) /\ Len(after) = Len(image) + 1 /\ DOMAIN after = 1..(Len(image) + 1)
    BY <1>1, <1>4
  <2>2. after[Len(image) + 1] = block /\ \A j \in DOMAIN image : after[j] = image[j]
    BY <1>1, <1>4
  <2>3. DOMAIN after = DOMAIN image \cup {Len(image) + 1}
    BY <1>1, <2>1
  <2> HIDE DEF after
  <2>4. IsDirectory(after)
    BY <1>1, <1>5, <1>7, <2>1
  <2>5. QED
    BY <2>2, <2>3, <2>4 DEF after, SameBut
<1>8. QED
  BY <1>1, <1>6, <1>7

\* What an entry in use says of a lookup, when no name is in use twice: the
\* lookup of a name answers NotFound only if no entry in use has it.
LEMMA LookupInDirExact ==
    ASSUME NEW image, IsDirectory(image), NEW name
    PROVE  LookupInDir(image, name) = Deleted <=>
            \A i \in DOMAIN image : \A o \in Live(image[i]) : image[i][o].name # name
<1>1. DOMAIN image \in SUBSET Nat
  BY DEF IsDirectory
<1>2. ASSUME NEW i \in DOMAIN image
      PROVE  LookupInBlock(image[i], name) = Deleted <=>
                \A o \in Live(image[i]) : image[i][o].name # name
  <2>1. IsBlock(image[i])
    BY DirBlockIsBlock DEF IsDirectory
  <2>2. LookupInBlock(image[i], name) = Deleted <=> Matches(image[i], name) = {}
    BY <2>1, LookupInBlockFinds
  <2>3. QED
    BY <2>2 DEF Matches
<1>3. QED
  BY <1>1, <1>2, LookupInDirFinds

\* What add_dir_entry makes of a tidy directory: the lookups of other names
\* answer as before; the name, if it was not found, is found with its inode or,
\* when the entry was put into slack space, not at all.
Adds(name, ino, after, where) ==
    /\ IsDirectory(after)
    /\ \A i \in DOMAIN after : WellFormed(after[i])
    /\ \A n \in Names : n # name => LookupInDir(after, n) = LookupInDir(blocks, n)
    /\ LookupInDir(blocks, name) = Deleted =>
        /\ LookupInDir(after, name) \in {ino, Deleted}
        /\ where # "slack" => LookupInDir(after, name) = ino
        /\ UniqueIn(blocks) => UniqueIn(after)

LEMMA PlacesAre ==
    ASSUME IsDirectory(blocks), NEW needed, NEW p \in Places(needed)
    PROVE  /\ p.block \in DOMAIN blocks
           /\ \E f \in FindSpace(blocks[p.block], needed) : p.at = f.at /\ p.rec = f.rec
<1> DEFINE roomy == {i \in DOMAIN blocks : HasRoom(blocks[i], needed) # {}}
           b == Min(roomy)
<1>1. roomy \in SUBSET Nat
  BY DEF IsDirectory
<1>2. roomy # {} /\ p \in {[block |-> b, at |-> f.at, rec |-> f.rec] :
                                f \in FindSpace(blocks[b], needed)}
  BY Zenon DEF Places
<1>3. b \in roomy
  BY <1>1, <1>2, MinExists
<1>4. PICK f \in FindSpace(blocks[b], needed) :
        p = [block |-> b, at |-> f.at, rec |-> f.rec]
  BY <1>2
<1>5. p.block = b /\ p.at = f.at /\ p.rec = f.rec
  BY <1>4
<1>6. b \in DOMAIN blocks
  BY <1>3
<1> HIDE DEF b, roomy
<1>7. QED
  BY <1>5, <1>6

\* The same of a record [at, rec] with other fields: what InsertLookup and
\* InsertKeepsChain say of what FindSpace returns.
LEMMA AddInPlaceAdds ==
    ASSUME IsDirectory(blocks), ChainsTile,
           NEW name \in Names, NEW ino \in Inodes,
           NEW p \in Places(NameWords[name]),
           NEW after,
           after = [blocks EXCEPT ![p.block] = InsertEntry(@, p.at, Entry(ino, p.rec, name))]
    PROVE  Adds(name, ino, after,
                IF p.at \in Chain(blocks[p.block]) THEN "slot" ELSE "slack")
<1> DEFINE b == p.block
           block == blocks[b]
<1>1. b \in DOMAIN blocks
  BY PlacesAre
<1>2. PICK f \in FindSpace(block, NameWords[name]) : p.at = f.at /\ p.rec = f.rec
  BY PlacesAre
<1> DEFINE new == InsertEntry(block, f.at, Entry(ino, f.rec, name))
<1>3. IsDirBlock(block, Inodes) /\ IsBlock(block) /\ WellFormed(block)
  BY <1>1, DirBlockIsBlock DEF IsDirectory, ChainsTile
<1>4. ino # Deleted
  BY DEF Inodes, Deleted
<1>5. after = [blocks EXCEPT ![b] = new]
  BY <1>2
<1>6. IsBlock(new) /\ WellFormed(new)
  BY <1>3, InsertKeepsChain DEF Inserts
<1>7. /\ Live(new) = IF f.at \in Chain(block) THEN Live(block) \cup {f.at} ELSE Live(block)
      /\ \A o \in Live(block) : o # f.at /\ new[o] = block[o]
      /\ \A n \in Names : n # name => LookupInBlock(new, n) = LookupInBlock(block, n)
      /\ f.at \notin Chain(block) => LookupInBlock(new, name) = LookupInBlock(block, name)
      /\ f.at \in Chain(block) /\ LookupInBlock(block, name) = Deleted =>
            LookupInBlock(new, name) = ino
  <2>1. Shows(block, f, ino, name, new)
    BY <1>3, <1>4, InsertLookup
  <2>2. QED
    BY <2>1 DEF Shows
<1>8. IsDirBlock(new, Inodes)
  BY <1>3, InsertIsDirBlock
<1> HIDE DEF new, block
<1>9. /\ IsDirectory(after) /\ DOMAIN after = DOMAIN blocks /\ after[b] = new
      /\ \A j \in DOMAIN blocks : j # b => after[j] = blocks[j]
  <2>1. SameBut(blocks, b, new, after)
    <3>1. SameBut(blocks, b, new, [blocks EXCEPT ![b] = new])
      BY <1>1, <1>8, ExtentIsAddedOrReplaced
    <3>2. QED
      BY <1>5, <3>1, Zenon
  <2>2. QED
    BY <1>1, <2>1 DEF SameBut
<1>10. DOMAIN blocks \in SUBSET Nat
  BY DEF IsDirectory
<1>11. \A i \in DOMAIN after : WellFormed(after[i])
  BY <1>6, <1>9 DEF ChainsTile
<1>12. ASSUME NEW n \in Names, n # name \/ f.at \notin Chain(block)
       PROVE  LookupInDir(after, n) = LookupInDir(blocks, n)
  <2>1. LookupInBlock(new, n) = LookupInBlock(block, n)
    BY <1>7, <1>12
  <2>2. \A i \in DOMAIN after : LookupInBlock(after[i], n) = LookupInBlock(blocks[i], n)
    BY <1>9, <2>1 DEF block
  <2>3. QED
    BY <1>9, <1>10, <2>2, LookupInDirSame
<1>13. ASSUME LookupInDir(blocks, name) = Deleted, f.at \in Chain(block)
       PROVE  LookupInDir(after, name) = ino
  <2>1. \A i \in DOMAIN blocks : LookupInBlock(blocks[i], name) = Deleted
    BY <1>10, <1>13, LookupInDirFinds
  <2>2. LookupInBlock(new, name) = ino
    BY <1>1, <1>7, <1>13, <2>1 DEF block
  <2>3. \A i \in DOMAIN after : i # b => LookupInBlock(after[i], name) = Deleted
    BY <1>9, <2>1
  <2>4. LookupInDir(after, name) # Deleted
    BY <1>1, <1>4, <1>9, <1>10, <2>2, LookupInDirFinds
  <2>5. \E i \in DOMAIN after : LookupInDir(after, name) = LookupInBlock(after[i], name)
    BY <1>9, <1>10, <2>4, LookupInDirFinds
  <2>6. QED
    BY <1>9, <2>2, <2>3, <2>4, <2>5
<1>14. ASSUME LookupInDir(blocks, name) = Deleted, UniqueIn(blocks)
       PROVE  UniqueIn(after)
  <2>1. \A i \in DOMAIN blocks : \A o \in Live(blocks[i]) : blocks[i][o].name # name
    BY <1>14, LookupInDirExact
  <2>2. \A i \in DOMAIN after : \A o \in Live(after[i]) :
            \/ i = b /\ o = f.at /\ f.at \in Chain(block)
            \/ o \in Live(blocks[i]) /\ after[i][o] = blocks[i][o]
    BY <1>7, <1>9 DEF block
  <2>3. f.at \in Chain(block) => new[f.at].name = name
    BY <1>3, InsertKeepsChain DEF Inserts, Entry, new
  <2>4. QED
    BY <1>9, <1>14, <2>1, <2>2, <2>3 DEF UniqueIn
<1>15. QED
  <2>1. f.at = p.at
    BY <1>2
  <2>2. CASE f.at \in Chain(block)
    BY <1>9, <1>11, <1>12, <1>13, <1>14, <2>1, <2>2 DEF Adds, block
  <2>3. CASE f.at \notin Chain(block)
    BY <1>9, <1>11, <1>12, <1>14, <2>1, <2>3 DEF Adds, block
  <2>4. QED
    BY <2>2, <2>3

\* The same of the block that add_dir_entry allocates.
LEMMA AddInNewBlockAdds ==
    ASSUME IsDirectory(blocks), ChainsTile, Len(blocks) < MaxExtents,
           NEW name \in Names, NEW ino \in Inodes,
           NEW after, after = Append(blocks, FreshBlock(ino, name))
    PROVE  Adds(name, ino, after, "fresh")
<1> DEFINE new == FreshBlock(ino, name)
           b == Len(blocks) + 1
<1>1. /\ IsBlock(new) /\ WellFormed(new)
      /\ Chain(new) = {0} /\ new[0] = Entry(ino, BlockWords, name)
  BY FreshBlockChain
<1>2. ino # Deleted
  BY DEF Inodes, Deleted
<1>3. new[0].ino = ino /\ new[0].name = name
  BY <1>1 DEF Entry
<1>4. Live(new) = {0}
  BY <1>1, <1>2, <1>3 DEF Live
<1>5. IsDirBlock(new, Inodes)
  BY FreshIsDirBlock
<1>6. /\ \A n \in Names : n # name => LookupInBlock(new, n) = Deleted
      /\ LookupInBlock(new, name) = ino
  <2>1. \A n \in Names : n # name => Matches(new, n) = {}
    BY <1>3, <1>4 DEF Matches
  <2>2. Matches(new, name) = {0}
    BY <1>3, <1>4 DEF Matches
  <2>3. QED
    BY <1>1, <1>3, <2>1, <2>2, LookupInBlockFinds
<1> HIDE DEF new
<1>7. /\ IsDirectory(after) /\ DOMAIN after = DOMAIN blocks \cup {b} /\ after[b] = new
      /\ \A j \in DOMAIN blocks : after[j] = blocks[j]
      /\ b \notin DOMAIN blocks
  <2>1. SameBut(blocks, b, new, Append(blocks, new)) /\ b \notin DOMAIN blocks
    BY <1>5, ExtentIsAddedOrReplaced
  <2>2. after = Append(blocks, new)
    BY DEF new
  <2>3. SameBut(blocks, b, new, after)
    BY <2>1, <2>2, Zenon
  <2>4. QED
    BY <2>1, <2>3 DEF SameBut
<1> HIDE DEF b
<1>8. DOMAIN blocks \in SUBSET Nat /\ DOMAIN after \in SUBSET Nat
  BY <1>7 DEF IsDirectory
<1>9. \A i \in DOMAIN after : WellFormed(after[i])
  BY <1>1, <1>7 DEF ChainsTile
<1>10. ASSUME NEW n \in Names, n # name
       PROVE  LookupInDir(after, n) = LookupInDir(blocks, n)
  <2>1. \A i \in DOMAIN after : LookupInBlock(after[i], n) =
            IF i \in DOMAIN blocks THEN LookupInBlock(blocks[i], n) ELSE Deleted
    BY <1>6, <1>7, <1>10
  <2>2. QED
    BY <1>7, <1>8, <2>1, LookupInDirSame
<1>11. ASSUME LookupInDir(blocks, name) = Deleted
       PROVE  LookupInDir(after, name) = ino
  <2>1. \A i \in DOMAIN after : i # b => LookupInBlock(after[i], name) = Deleted
    BY <1>7, <1>8, <1>11, LookupInDirFinds
  <2>2. LookupInDir(after, name) # Deleted
    <3>1. b \in DOMAIN after /\ LookupInBlock(after[b], name) # Deleted
      BY <1>2, <1>6, <1>7
    <3>2. QED
      BY <1>8, <3>1, LookupInDirFinds
  <2>3. \E i \in DOMAIN after : LookupInDir(after, name) = LookupInBlock(after[i], name)
    BY <1>8, <2>2, LookupInDirFinds
  <2>4. QED
    BY <1>6, <1>7, <2>1, <2>2, <2>3
<1>12. ASSUME LookupInDir(blocks, name) = Deleted, UniqueIn(blocks)
       PROVE  UniqueIn(after)
  <2>1. \A i \in DOMAIN blocks : \A o \in Live(blocks[i]) : blocks[i][o].name # name
    BY <1>12, LookupInDirExact
  <2>2. \A i \in DOMAIN after : \A o \in Live(after[i]) :
            \/ i = b /\ o = 0
            \/ i \in DOMAIN blocks /\ o \in Live(blocks[i]) /\ after[i][o] = blocks[i][o]
    BY <1>4, <1>7
  <2>3. QED
    BY <1>3, <1>7, <1>12, <2>1, <2>2 DEF UniqueIn
<1>13. QED
  BY <1>7, <1>9, <1>10, <1>11, <1>12 DEF Adds

\* A step either leaves the directory alone, or marks an inode and adds an
\* entry for it, on a sound device under a name that the lookup did not find.
LEMMA StepAdds ==
    ASSUME TypeOK, ChainsTile, NEW name \in Names, WriteFile(name) \/ Mkdir(name),
           UNCHANGED faulty
    PROVE  /\ used' \subseteq Inodes
           /\ \/ UNCHANGED blocks /\ reply' \in {Error} \cup {Existing(name, i) : i \in Inodes}
              \/ \E ino \in Inodes \ used : \E where \in {"slot", "slack", "fresh"} :
                    /\ ino \in used'
                    /\ Adds(name, ino, blocks', where)
                    /\ reply' \in AfterWrite(Created(name, ino, where))
                    /\ ~faulty => LookupInDir(blocks, name) = Deleted
<1>1. DOMAIN blocks \in SUBSET Nat /\ IsDirectory(blocks)
  BY DEF TypeOK, IsDirectory
<1>2. ASSUME NEW f, f = LookupInDir(blocks, name), f # Deleted
      PROVE  f \in Inodes
  <2>1. PICK i \in DOMAIN blocks : f = LookupInBlock(blocks[i], name)
    BY <1>1, <1>2, LookupInDirFinds
  <2>2. IsDirBlock(blocks[i], Inodes) /\ IsBlock(blocks[i])
    BY <1>1, DirBlockIsBlock DEF IsDirectory
  <2>3. PICK o \in Matches(blocks[i], name) : f = blocks[i][o].ino
    BY <1>2, <2>1, <2>2, LookupInBlockFinds
  <2>4. o \in DOMAIN blocks[i]
    BY <2>2, ChainClosed DEF Matches, Live, Begins
  <2>5. blocks[i][o] \in Records(Inodes)
    BY <2>2, <2>4 DEF IsDirBlock
  <2>6. QED
    BY <1>2, <2>3, <2>5 DEF Records
<1>3. ASSUME used # Inodes, used \subseteq Inodes
      PROVE  NewIno \in Inodes \ used
  <2>1. Inodes \ used \in SUBSET Nat /\ Inodes \ used # {}
    <3>1. Inodes \in SUBSET Nat
      BY DirectoryAssumption DEF Inodes
    <3>2. QED
      BY <1>3, <3>1
  <2>2. QED
    BY <2>1, MinExists DEF NewIno
<1> DEFINE alone == UNCHANGED blocks /\ reply' \in {Error} \cup {Existing(name, i) : i \in Inodes}
           adds(ino) == /\ ino \in used'
                        /\ \E where \in {"slot", "slack", "fresh"} :
                            /\ Adds(name, ino, blocks', where)
                            /\ reply' \in AfterWrite(Created(name, ino, where))
<1>4. ASSUME Create(name)
      PROVE  /\ used' \subseteq Inodes
             /\ alone \/ \E ino \in Inodes \ used : adds(ino)
  <2>1. CASE UNCHANGED <<blocks, used>> /\ reply' = Error
    BY <2>1 DEF TypeOK
  <2>2. CASE used # Inodes /\ used' = used \cup {NewIno}
                /\ reply' = Error /\ UNCHANGED blocks
    BY <1>3, <2>2 DEF TypeOK
  <2>3. CASE used # Inodes /\ used' = used \cup {NewIno} /\ AddInPlace(name, NewIno)
    <3>1. NewIno \in Inodes \ used /\ NewIno \in used' /\ used' \subseteq Inodes
      BY <1>3, <2>3 DEF TypeOK
    <3>2. PICK p \in Places(NameWords[name]) :
            /\ blocks' = [blocks EXCEPT ![p.block] =
                             InsertEntry(@, p.at, Entry(NewIno, p.rec, name))]
            /\ reply' \in AfterWrite(Created(name, NewIno,
                    IF p.at \in Chain(blocks[p.block]) THEN "slot" ELSE "slack"))
      BY <2>3, Zenon DEF AddInPlace
    <3> DEFINE where == IF p.at \in Chain(blocks[p.block]) THEN "slot" ELSE "slack"
    <3>3. Adds(name, NewIno, blocks', where)
      BY <1>1, <3>1, <3>2, AddInPlaceAdds
    <3>4. where \in {"slot", "slack", "fresh"}
      OBVIOUS
    <3> HIDE DEF where
    <3>5. QED
      BY <3>1, <3>2, <3>3, <3>4 DEF where
  <2>4. CASE used # Inodes /\ used' = used \cup {NewIno} /\ AddInNewBlock(name, NewIno)
    <3>1. NewIno \in Inodes \ used /\ NewIno \in used' /\ used' \subseteq Inodes
      BY <1>3, <2>4 DEF TypeOK
    <3>2. CASE UNCHANGED blocks /\ reply' = Error
      BY <3>1, <3>2
    <3>3. CASE /\ Len(blocks) < MaxExtents
               /\ blocks' = Append(blocks, FreshBlock(NewIno, name))
               /\ reply' \in AfterWrite(Created(name, NewIno, "fresh"))
      <4>1. Adds(name, NewIno, blocks', "fresh")
        BY <1>1, <3>1, <3>3, AddInNewBlockAdds
      <4>2. QED
        BY <3>1, <3>3, <4>1
    <3>4. QED
      BY <2>4, <3>2, <3>3 DEF AddInNewBlock
  <2>5. QED
    BY <1>4, <2>1, <2>2, <2>3, <2>4 DEF Create
<1>5. CASE Create(name) /\ (faulty \/ LookupInDir(blocks, name) = Deleted)
  BY <1>4, <1>5
<1>6. CASE UNCHANGED <<blocks, used>> /\ reply' = Error
  BY <1>6 DEF TypeOK
<1>7. CASE /\ LookupInDir(blocks, name) # Deleted
           /\ reply' \in {Existing(name, LookupInDir(blocks, name)), Error}
           /\ UNCHANGED <<blocks, used>>
  BY <1>2, <1>7 DEF TypeOK
<1>8. QED
  BY <1>5, <1>6, <1>7 DEF WriteFile, Mkdir

LEMMA TidyInit == Init => Tidy
<1> SUFFICES ASSUME Init PROVE Tidy
  OBVIOUS
<1>1. IsDirectory(blocks) /\ UniqueIn(blocks) /\ ChainsTile
  BY ImagesAssumption DEF Init, ChainsTile
<1>2. used \subseteq Inodes /\ reply = Silent
  BY DEF Init
<1>3. QED
  BY <1>1, <1>2 DEF Tidy, TypeOK, NamesUniqueWithoutFaults, NamesUnique,
                    FoundUnlessInSlack, Silent

LEMMA TidyStep == Tidy /\ [Next]_vars => Tidy'
<1> SUFFICES ASSUME Tidy, [Next]_vars
             PROVE  Tidy'
  OBVIOUS
<1>1. CASE UNCHANGED vars
  BY <1>1 DEF vars, Tidy, TypeOK, ChainsTile, NamesUniqueWithoutFaults, NamesUnique,
              FoundUnlessInSlack
<1>2. ASSUME UNCHANGED faulty, NEW name \in Names, WriteFile(name) \/ Mkdir(name)
      PROVE  Tidy'
  <2>1. used' \subseteq Inodes
    BY <1>2, StepAdds DEF Tidy
  <2>2. CASE UNCHANGED blocks /\ reply' \in {Error} \cup {Existing(name, i) : i \in Inodes}
    <3>1. reply'.result # "created"
      BY <2>2 DEF Error, Existing
    <3>2. TypeOK'
      BY <2>1, <2>2 DEF Tidy, TypeOK
    <3>3. QED
      BY <1>2, <2>2, <3>1, <3>2 DEF Tidy, ChainsTile, NamesUniqueWithoutFaults, NamesUnique,
                                    FoundUnlessInSlack
  <2>3. ASSUME NEW ino \in Inodes \ used, NEW where \in {"slot", "slack", "fresh"},
               Adds(name, ino, blocks', where),
               reply' \in AfterWrite(Created(name, ino, where)),
               ~faulty => LookupInDir(blocks, name) = Deleted
        PROVE  Tidy'
    <3>1. reply' \in {Error, Created(name, ino, where)}
      BY <2>3 DEF AfterWrite
    <3>2. TypeOK'
      BY <2>1, <2>3, <3>1 DEF TypeOK, Adds
    <3>3. ChainsTile'
      BY <2>3 DEF ChainsTile, Adds
    <3>4. NamesUniqueWithoutFaults'
      BY <1>2, <2>3 DEF Tidy, NamesUniqueWithoutFaults, NamesUnique, Adds
    <3>5. FoundUnlessInSlack'
      <4>1. CASE reply' = Error
        BY <4>1 DEF Error, FoundUnlessInSlack
      <4>2. CASE reply' = Created(name, ino, where)
        BY <1>2, <2>3, <4>2 DEF Created, FoundUnlessInSlack, Adds
      <4>3. QED
        BY <3>1, <4>1, <4>2
    <3>6. QED
      BY <3>2, <3>3, <3>4, <3>5 DEF Tidy
  <2>4. QED
    BY <1>2, <2>2, <2>3, StepAdds DEF Tidy
<1>3. QED
  BY <1>1, <1>2 DEF Next

LEMMA TidyAlways == Spec => []Tidy
BY TidyInit, TidyStep, PTL DEF Spec

\* The blocks of the directory hold entries of its size, its names and its
\* inodes, and there are no more of them than the root of its tree has room
\* for, whatever write_file and mkdir add.
THEOREM Typed == Spec => []TypeOK
<1>1. Tidy => TypeOK
  BY DEF Tidy
<1>2. QED
  BY <1>1, TidyAlways, PTL

\* add_dir_entry never breaks the chain of a block: every entry fits in its
\* record and the records end where the block ends, so that iteration meets
\* them all.
THEOREM ChainsStayTiled == Spec => []ChainsTile
<1>1. Tidy => ChainsTile
  BY DEF Tidy
<1>2. QED
  BY <1>1, TidyAlways, PTL

\* On a device that does not fail, write_file and mkdir never put a name into
\* the directory that an entry in use has.
THEOREM NamesStayUnique == Spec => []NamesUniqueWithoutFaults
<1>1. Tidy => NamesUniqueWithoutFaults
  BY DEF Tidy
<1>2. QED
  BY <1>1, TidyAlways, PTL

\* On a device that does not fail, the entry that a call added is what the next
\* lookup finds, unless add_dir_entry put it into slack space.
THEOREM CreatedFoundUnlessInSlack == Spec => []FoundUnlessInSlack
<1>1. Tidy => FoundUnlessInSlack
  BY DEF Tidy
<1>2. QED
  BY <1>1, TidyAlways, PTL

\* On a device that does not fail, no later call makes a name that a lookup
\* finds disappear or stand for another inode.
THEOREM FoundNamesAreKept == Spec => NamesKept
<1> DEFINE kept == ~faulty => \A n \in Names : LookupInDir(blocks, n) # Deleted =>
                        LookupInDir(blocks', n) = LookupInDir(blocks, n)
<1>1. ASSUME Tidy, [Next]_vars
      PROVE  [kept]_blocks
  <2>1. CASE UNCHANGED vars
    BY <2>1 DEF vars
  <2>2. ASSUME UNCHANGED faulty, NEW name \in Names, WriteFile(name) \/ Mkdir(name)
        PROVE  [kept]_blocks
    BY <1>1, <2>2, StepAdds DEF Tidy, Adds
  <2>3. QED
    BY <1>1, <2>1, <2>2 DEF Next
<1>2. QED
  BY <1>1, TidyAlways, PTL DEF Spec, NamesKept

\* What a lookup begins to find is the inode that this very call allocated,
\* also on a device that fails: an entry lost in slack space stays lost.
THEOREM LostStaysLost == Spec => NothingResurfaces
<1> DEFINE new == \A n \in Names :
                LookupInDir(blocks, n) = Deleted /\ LookupInDir(blocks', n) # Deleted =>
                    LookupInDir(blocks', n) \in used' \ used
<1>1. ASSUME Tidy, [Next]_vars
      PROVE  [new]_blocks
  <2>1. CASE UNCHANGED vars
    BY <2>1 DEF vars
  <2>2. ASSUME UNCHANGED faulty, NEW name \in Names, WriteFile(name) \/ Mkdir(name)
        PROVE  [new]_blocks
    BY <1>1, <2>2, StepAdds DEF Tidy, Adds
  <2>3. QED
    BY <1>1, <2>1, <2>2 DEF Next
<1>2. QED
  BY <1>1, TidyAlways, PTL DEF Spec, NothingResurfaces
=============================================================================
