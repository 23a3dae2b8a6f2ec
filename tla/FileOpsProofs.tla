--------------------------- MODULE FileOpsProofs ----------------------------
(***************************************************************************)
(* Theorems about FileOps, for every set of blocks and inodes, every       *)
(* allocation policy, every size of directory blocks and every set of      *)
(* names, from every clean image: that blocks are not shared, that files   *)
(* read back, that what is linked is written, that entries, space and      *)
(* links are kept, and that the whole refines FileStore.                   *)
(*                                                                         *)
(* The last part is about CachedDevice, for any number of failed calls:    *)
(* what write_file and mkdir have reported by Ok survives a crash at any   *)
(* later point, whichever writes reached the medium by then.               *)
(***************************************************************************)
EXTENDS CachedDevice, DirBlockProofs, FiniteSetTheorems, TLAPS

\* A block between its allocation and its extent: marked, and nobody's.
HeldIsUnmapped ==
    HeldBlock # {} =>
        /\ call.block \in Blocks
        /\ call.block \in taken.block
        /\ \A i \in Inodes : \A m \in DOMAIN inodes[i].extents :
            inodes[i].extents[m] # call.block

\* A call in progress is a record with these fields, and what it writes has a
\* length.
CallFields == {"pc", "op", "parent", "name", "data", "ino", "block", "done"}
CallIsRecord == call # Idle => DOMAIN call = CallFields /\ Len(call.data) \in Nat

\* The inductive invariant.  NoSharedBlock is not inductive: that the block a
\* call appends is mapped nowhere follows from its having been marked when the
\* call took it, which every mapped block is.
Exclusive ==
    /\ inodes \in [Inodes -> InodeRecords]
    /\ taken \in Bitmaps
    /\ NoSharedBlock
    /\ Marked(inodes, taken)
    /\ HeldIsUnmapped

\* The inodes that the calls write are records of inodes.
LEMMA NewInodeType ==
    ASSUME NEW type \in InodeTypes, NEW links \in Nat
    PROVE  NewInode(type, links) \in InodeRecords /\ NewInode(type, links).extents = <<>>
<1>1. <<>> \in Seq(Blocks)
  OBVIOUS
<1>2. QED
  BY <1>1 DEF NewInode, Unwritten, InodeRecords

LEMMA CountedUp ==
    ASSUME NEW old \in InodeRecords
    PROVE  /\ [old EXCEPT !.size = @ + 1] \in InodeRecords
           /\ [old EXCEPT !.links = @ + 1] \in InodeRecords
<1>1. ASSUME NEW n \in Nat
      PROVE  [old EXCEPT !.size = n] \in InodeRecords /\ [old EXCEPT !.links = n] \in InodeRecords
  BY DEF InodeRecords
<1>2. old.size + 1 \in Nat /\ old.links + 1 \in Nat
  BY DEF InodeRecords
<1>3. QED
  BY <1>1, <1>2

\* A call that stops holds no block.
LEMMA IdleHoldsNothing == call = Idle => HeldBlock = {}
BY DEF Idle, HeldBlock

\* Extents map blocks in use.
LEMMA MappedIs ==
    ASSUME NEW table, NEW b
    PROVE  b \in Mapped(table) <=>
                \E i \in Inodes : \E m \in DOMAIN table[i].extents : table[i].extents[m] = b
BY DEF Mapped, ToSet

LEMMA ExclusiveInit == Init => Exclusive
<1>1. SUFFICES ASSUME Init PROVE Exclusive
  OBVIOUS
<1>2. PICK image \in Images : inodes = image.inodes /\ taken = image.taken
  BY <1>1 DEF Init
<1>3. /\ inodes \in [Inodes -> InodeRecords] /\ taken \in Bitmaps /\ Unshared(inodes)
      /\ taken.block = Reserved.block \cup Mapped(inodes)
  BY <1>2, ImagesAssumption
<1>4. Marked(inodes, taken)
  BY <1>3, MappedIs DEF Marked
<1>5. HeldIsUnmapped
  BY <1>1 DEF Init, HeldIsUnmapped, HeldBlock, Idle
<1>6. QED
  BY <1>3, <1>4, <1>5 DEF Exclusive, NoSharedBlock

\* The write of an inode that drops its extents or keeps them.
LEMMA PutKeeping ==
    ASSUME Exclusive, NEW i, NEW inode, PutInode(i, inode),
           i \in Inodes => inode \in InodeRecords,
           inode.extents = <<>> \/ inode.extents = inodes[i].extents,
           UNCHANGED taken,
           HeldBlock' = {} \/ (HeldBlock' = HeldBlock /\ call'.block = call.block)
    PROVE  Exclusive'
<1>1. inodes' \in [Inodes -> InodeRecords]
  BY DEF Exclusive, PutInode
<1>2. \A j \in Inodes : inodes'[j].extents = <<>> \/ inodes'[j].extents = inodes[j].extents
  BY DEF Exclusive, PutInode
<1>3. \A j \in Inodes : \A m \in DOMAIN inodes'[j].extents :
        m \in DOMAIN inodes[j].extents /\ inodes'[j].extents[m] = inodes[j].extents[m]
  <2>1. DOMAIN <<>> = {}
    OBVIOUS
  <2>2. QED
    BY <1>2, <2>1
<1>4. NoSharedBlock'
  BY <1>3 DEF Exclusive, NoSharedBlock, Unshared
<1>5. Marked(inodes', taken')
  BY <1>3 DEF Exclusive, Marked
<1>6. HeldIsUnmapped'
  BY <1>3 DEF Exclusive, HeldIsUnmapped
<1>7. QED
  BY <1>1, <1>4, <1>5, <1>6 DEF Exclusive

\* The write of an inode that appends the block which the call holds to no
\* extents or to those it had; the call holds nothing afterwards.
LEMMA PutAppending ==
    ASSUME Exclusive, HeldBlock # {},
           NEW i, NEW inode, PutInode(i, inode),
           NEW kept, i \in Inodes => inode \in InodeRecords /\ kept \in Seq(Blocks),
           kept = <<>> \/ kept = inodes[i].extents,
           inode.extents = Append(kept, call.block),
           UNCHANGED taken, HeldBlock' = {}
    PROVE  Exclusive'
<1> DEFINE b == call.block
<1>1. inodes' \in [Inodes -> InodeRecords]
  BY DEF Exclusive, PutInode
<1>2. /\ b \in taken.block
      /\ \A j \in Inodes : \A m \in DOMAIN inodes[j].extents : inodes[j].extents[m] # b
  BY DEF Exclusive, HeldIsUnmapped
<1>3. i \in Inodes => \A m \in DOMAIN inode.extents :
        \/ m = Len(kept) + 1 /\ inode.extents[m] = b
        \/ m \in DOMAIN kept /\ inode.extents[m] = kept[m]
  OBVIOUS
<1>4. \A j \in Inodes : inodes'[j] = IF j = i THEN inode ELSE inodes[j]
  BY DEF Exclusive, PutInode
<1>5. \A j \in Inodes : \A m \in DOMAIN inodes'[j].extents :
        \/ j = i /\ m = Len(kept) + 1 /\ inodes'[j].extents[m] = b
        \/ m \in DOMAIN inodes[j].extents /\ inodes'[j].extents[m] = inodes[j].extents[m]
  <2>1. DOMAIN <<>> = {}
    OBVIOUS
  <2>2. \A m \in DOMAIN kept : m \in DOMAIN inodes[i].extents /\ kept[m] = inodes[i].extents[m]
    BY <2>1
  <2>3. QED
    BY <1>3, <1>4, <2>2
<1> HIDE DEF b
<1>6. NoSharedBlock'
  BY <1>2, <1>5 DEF Exclusive, NoSharedBlock, Unshared
<1>7. Marked(inodes', taken')
  BY <1>2, <1>5 DEF Exclusive, Marked
<1>8. HeldIsUnmapped'
  BY DEF HeldIsUnmapped
<1>9. QED
  BY <1>1, <1>6, <1>7, <1>8 DEF Exclusive

\* A step that writes no inode and no bitmap.
LEMMA PutNothing ==
    ASSUME Exclusive, UNCHANGED <<inodes, taken>>,
           HeldBlock' = {} \/ (HeldBlock' = HeldBlock /\ call'.block = call.block)
    PROVE  Exclusive'
BY DEF Exclusive, NoSharedBlock, Unshared, Marked, HeldIsUnmapped

\* The end of a call, by whatever error.
LEMMA FailKeeps == ASSUME Exclusive, Fail PROVE Exclusive'
<1>1. HeldBlock' = {}
  BY DEF Fail, HeldBlock, Idle
<1>2. QED
  BY <1>1, PutNothing DEF Fail, disk

\* allocate_block: the block that is taken was marked by nobody, hence mapped
\* by nobody.
LEMMA AllocateBlockKeeps ==
    ASSUME Exclusive, CallIsRecord, call # Idle, NEW pc, AllocateBlockThen(pc)
    PROVE  Exclusive'
<1>1. CASE Fail
  BY <1>1, FailKeeps
<1>2. CASE /\ \E b \in Candidates(Blocks \ taken.block) :
                /\ Take("block", b)
                /\ call' = [call EXCEPT !.pc = pc, !.block = b]
           /\ UNCHANGED <<inodes, content, history>>
  <2>1. PICK b \in Candidates(Blocks \ taken.block) :
            /\ Take("block", b)
            /\ call' = [call EXCEPT !.pc = pc, !.block = b]
    BY <1>2
  <2>2. b \in Blocks \ taken.block
    <3>1. Blocks \ taken.block \in SUBSET Blocks
      OBVIOUS
    <3>2. QED
      BY <2>1, <3>1, CandidatesAssumption
  <2>3. taken' \in Bitmaps /\ taken'.block = taken.block \cup {b}
    BY <2>1, <2>2 DEF Take, Exclusive, Bitmaps
  <2>4. \A i \in Inodes : \A m \in DOMAIN inodes[i].extents : inodes[i].extents[m] # b
    BY <2>2 DEF Exclusive, Marked
  <2>5. call'.block = b
    BY <2>1 DEF CallIsRecord, CallFields
  <2>6. QED
    BY <1>2, <2>2, <2>3, <2>4, <2>5
       DEF Exclusive, NoSharedBlock, Unshared, Marked, HeldIsUnmapped
<1>3. QED
  BY <1>1, <1>2 DEF AllocateBlockThen

\* append_extent, of the block that the call holds.
LEMMA AppendExtentKeeps ==
    ASSUME Exclusive, CallIsRecord, call # Idle, HeldBlock # {},
           NEW i, NEW inode, NEW pc, AppendExtentThen(i, inode, pc),
           i \in Inodes => inode \in InodeRecords,
           inode.extents = <<>> \/ inode.extents = inodes[i].extents,
           pc \in {"size_dir", "size_parent"}
    PROVE  Exclusive'
<1> DEFINE appended == [inode EXCEPT !.extents = Append(@, call.block)]
<1>1. CASE Fail
  BY <1>1, FailKeeps
<1>2. CASE PutInode(i, appended) /\ Goto(pc) /\ UNCHANGED <<content, taken, history>>
  <2>1. call.block \in Blocks
    BY DEF Exclusive, HeldIsUnmapped
  <2>2. ASSUME i \in Inodes
        PROVE  appended \in InodeRecords /\ inode.extents \in Seq(Blocks)
    <3>1. inode \in InodeRecords /\ inode.extents \in Seq(Blocks)
      BY <2>2 DEF InodeRecords
    <3>2. Append(inode.extents, call.block) \in Seq(Blocks)
      BY <2>1, <3>1
    <3>3. QED
      BY <3>1, <3>2 DEF InodeRecords
  <2>3. appended.extents = Append(inode.extents, call.block)
    OBVIOUS
  <2>4. HeldBlock' = {}
    BY <1>2 DEF Goto, HeldBlock, CallIsRecord, CallFields
  <2> HIDE DEF appended
  <2>5. QED
    BY <1>2, <2>2, <2>3, <2>4, PutAppending
<1>3. QED
  BY <1>1, <1>2 DEF AppendExtentThen

-----------------------------------------------------------------------------

LEMMA CallInit == Init => CallIsRecord
BY DEF Init, CallIsRecord

\* A call begins as a record of its fields.
LEMMA StartMakesRecord ==
    ASSUME NEW op, NEW path, NEW name, NEW data, Len(data) \in Nat,
           Start(op, path, name, data)
    PROVE  CallIsRecord' /\ HeldBlock' = {}
<1> DEFINE new == [pc |-> "allocate_inode", op |-> op, parent |-> Resolve(path), name |-> name,
                   data |-> data, ino |-> Root, block |-> CHOOSE b \in Blocks : TRUE,
                   done |-> 0]
<1>1. call' = new \/ \E f : call' = [new EXCEPT !.pc = "data", !.ino = f]
  BY DEF Start
<1>2. CASE call' = new
  BY <1>2 DEF CallIsRecord, CallFields, HeldBlock
<1>3. CASE \E f : call' = [new EXCEPT !.pc = "data", !.ino = f]
  BY <1>3 DEF CallIsRecord, CallFields, HeldBlock
<1>4. QED
  BY <1>1, <1>2, <1>3

\* A step within a call.
LEMMA CallNext ==
    ASSUME CallIsRecord, Next
    PROVE  CallIsRecord'
<1>1. CASE WriteFile
  BY <1>1, StartMakesRecord, WritesAssumption DEF WriteFile
<1>2. CASE Mkdir
  <2>1. Len(<<>>) \in Nat
    OBVIOUS
  <2>2. QED
    BY <1>2, <2>1, StartMakesRecord DEF Mkdir
<1>3. CASE call' = Idle
  BY <1>3 DEF CallIsRecord
<1>4. CASE call # Idle /\ DOMAIN call' = DOMAIN call /\ call'.data = call.data
  BY <1>4 DEF CallIsRecord
<1>5. CASE AllocateInode
  <2>1. call # Idle
    <3>1. At("allocate_inode")
      BY <1>5, Zenon DEF AllocateInode
    <3>2. QED
      BY <3>1 DEF At, Idle
  <2>2. ASSUME NEW pc, NEW i, call' = [call EXCEPT !.ino = i, !.pc = pc]
        PROVE  CallIsRecord'
    BY <2>1, <2>2 DEF CallIsRecord, CallFields
  <2>3. Fail \/ \E pc, i : call' = [call EXCEPT !.ino = i, !.pc = pc]
    BY <1>5, Zenon DEF AllocateInode
  <2>4. Fail => call' = Idle
    BY DEF Fail
  <2>5. QED
    BY <1>3, <2>2, <2>3, <2>4, Zenon
<1>6. ASSUME NEW pc, call # Idle, AllocateBlockThen(pc)
      PROVE  CallIsRecord'
  <2>1. ASSUME NEW b, call' = [call EXCEPT !.pc = pc, !.block = b]
        PROVE  CallIsRecord'
    BY <1>6, <2>1 DEF CallIsRecord, CallFields
  <2>2. Fail \/ \E b : call' = [call EXCEPT !.pc = pc, !.block = b]
    BY <1>6, Zenon DEF AllocateBlockThen
  <2>3. Fail => call' = Idle
    BY DEF Fail
  <2>4. QED
    BY <1>3, <2>1, <2>2, <2>3, Zenon
<1>7. CASE AllocateDots \/ Grow \/ AllocateData
  BY <1>6, <1>7 DEF AllocateDots, Grow, AllocateData, At, Idle
<1>8. ASSUME NEW pc, call # Idle, Goto(pc)
      PROVE  CallIsRecord'
  BY <1>4, <1>8 DEF Goto
<1>9. CASE WriteNewDir \/ AppendEntry
  BY <1>3, <1>8, <1>9 DEF WriteNewDir, AppendEntry, AppendExtentThen, At, Fail, Idle
<1>10. CASE AppendData
  <2>1. call # Idle
    BY <1>10 DEF AppendData, At, Idle
  <2>2. CASE call' = [call EXCEPT !.pc = "data", !.done = @ + 1]
    BY <2>1, <2>2 DEF CallIsRecord, CallFields
  <2>3. Fail \/ call' = [call EXCEPT !.pc = "data", !.done = @ + 1]
    BY <1>10, Zenon DEF AppendData
  <2>4. Fail => call' = Idle
    BY DEF Fail
  <2>5. QED
    BY <1>3, <2>2, <2>3, <2>4, Zenon
<1>11. CASE WriteNewFile \/ WriteDots \/ SizeNewDir \/ AddInPlace \/ WriteEntry
            \/ SizeParent \/ CountLink \/ WriteData \/ SizeFile
  BY <1>8, <1>11 DEF WriteNewFile, WriteDots, SizeNewDir, AddInPlace, WriteEntry, SizeParent,
       CountLink, WriteData, SizeFile, At, Idle
<1>12. CASE Return \/ Abort
  BY <1>3, <1>12 DEF Return, Abort, Fail
<1>13. QED
  BY <1>1, <1>2, <1>5, <1>7, <1>9, <1>10, <1>11, <1>12 DEF Next, Step

\* Every call keeps every extent to itself, whatever it does and wherever it
\* is cut short.
LEMMA ExclusiveNext ==
    ASSUME Exclusive, CallIsRecord, Next
    PROVE  Exclusive'
<1>1. CASE WriteFile
  <2>1. HeldBlock' = {} /\ UNCHANGED <<inodes, taken>>
    <3>1. PICK path \in ParentPaths, name \in Names, data \in Writes :
            Start("write_file", path, name, data)
      BY <1>1 DEF WriteFile
    <3>2. HeldBlock' = {}
      BY <3>1, StartMakesRecord, WritesAssumption
    <3>3. QED
      BY <3>1, <3>2 DEF Start, disk
  <2>2. QED
    BY <2>1, PutNothing
<1>2. CASE Mkdir
  <2>1. HeldBlock' = {} /\ UNCHANGED <<inodes, taken>>
    <3>1. PICK path, name : Start("mkdir", path, name, <<>>)
      BY <1>2 DEF Mkdir
    <3>2. Len(<<>>) \in Nat
      OBVIOUS
    <3>3. HeldBlock' = {}
      BY <3>1, <3>2, StartMakesRecord
    <3>4. QED
      BY <3>1, <3>3 DEF Start, disk
  <2>2. QED
    BY <2>1, PutNothing
<1>3. CASE AllocateInode
  <2>1. CASE Fail
    BY <2>1, FailKeeps
  <2>2. CASE /\ At("allocate_inode")
             /\ \E i \in Candidates(Inodes \ taken.inode) :
                    /\ Take("inode", i)
                    /\ call' = [call EXCEPT !.ino = i,
                                    !.pc = IF call.op = "mkdir" THEN "allocate_dots"
                                           ELSE "new_file"]
             /\ UNCHANGED <<inodes, content, history>>
    <3>1. PICK i \in Candidates(Inodes \ taken.inode) :
            /\ Take("inode", i)
            /\ call' = [call EXCEPT !.ino = i,
                            !.pc = IF call.op = "mkdir" THEN "allocate_dots" ELSE "new_file"]
      BY <2>2
    <3>2. i \in Inodes
      <4>1. Inodes \ taken.inode \in SUBSET Inodes
        OBVIOUS
      <4>2. QED
        BY <3>1, <4>1, CandidatesAssumption
    <3>3. taken' \in Bitmaps /\ taken'.block = taken.block
      BY <3>1, <3>2 DEF Take, Exclusive, Bitmaps
    <3>4. HeldBlock' = {}
      <4>1. call'.pc \in {"allocate_dots", "new_file"}
        <5>1. call # Idle
          BY <2>2 DEF At, Idle
        <5>2. QED
          BY <3>1, <5>1 DEF CallIsRecord, CallFields
      <4>2. QED
        BY <4>1 DEF HeldBlock
    <3>5. QED
      BY <2>2, <3>3, <3>4 DEF Exclusive, NoSharedBlock, Unshared, Marked, HeldIsUnmapped
  <2>3. QED
    BY <1>3, <2>1, <2>2, Zenon DEF AllocateInode
<1>4. CASE AllocateDots \/ Grow \/ AllocateData
  BY <1>4, AllocateBlockKeeps DEF AllocateDots, Grow, AllocateData, At, Idle
<1>5. CASE Abort
  BY <1>5, FailKeeps DEF Abort
<1>6. CASE Return
  <2>1. HeldBlock' = {}
    BY <1>6 DEF Return, HeldBlock, Idle
  <2>2. QED
    BY <1>6, <2>1, PutNothing DEF Return, disk
<1>7. ASSUME NEW pc, call # Idle, Goto(pc)
      PROVE  call'.pc = pc /\ call'.block = call.block
  BY <1>7 DEF Goto, CallIsRecord, CallFields
<1>8. ASSUME NEW pc \in {"add", "size_parent", "links", "data", "flush"}, call # Idle, Goto(pc)
      PROVE  HeldBlock' = {}
  BY <1>7, <1>8 DEF HeldBlock
<1>9. CASE WriteNewFile
  <2>1. NewInode("file", 1) \in InodeRecords /\ NewInode("file", 1).extents = <<>>
    BY NewInodeType DEF InodeTypes
  <2>2. HeldBlock' = {}
    BY <1>8, <1>9 DEF WriteNewFile, At, Idle
  <2>3. QED
    BY <1>9, <2>1, <2>2, PutKeeping DEF WriteNewFile
<1>10. CASE WriteDots
  <2>1. call # Idle /\ Goto("new_dir") /\ UNCHANGED <<inodes, taken>>
    BY <1>10 DEF WriteDots, At, Idle
  <2>2. HeldBlock' = HeldBlock /\ call'.block = call.block
    BY <1>7, <1>10, <2>1 DEF WriteDots, At, HeldBlock
  <2>3. QED
    BY <2>1, <2>2, PutNothing
<1>11. CASE WriteNewDir
  <2>1. NewInode("dir", 2) \in InodeRecords /\ NewInode("dir", 2).extents = <<>>
    BY NewInodeType DEF InodeTypes
  <2>2. call # Idle /\ HeldBlock # {}
    BY <1>11 DEF WriteNewDir, At, HeldBlock, Idle
  <2>3. QED
    BY <1>11, <2>1, <2>2, AppendExtentKeeps DEF WriteNewDir
<1>12. CASE SizeNewDir
  <2> DEFINE inode == [inodes[call.ino] EXCEPT !.size = 1, !.blocks = 1]
  <2>1. call.ino \in Inodes => inode \in InodeRecords
    BY DEF Exclusive, InodeRecords
  <2>2. inode.extents = inodes[call.ino].extents
    OBVIOUS
  <2>3. HeldBlock' = {}
    BY <1>8, <1>12 DEF SizeNewDir, At, Idle
  <2> HIDE DEF inode
  <2>4. PutInode(call.ino, inode) /\ UNCHANGED taken
    BY <1>12 DEF SizeNewDir, inode
  <2>5. QED
    BY <2>1, <2>2, <2>3, <2>4, PutKeeping
<1>13. CASE AddInPlace
  <2>1. HeldBlock' = {}
    BY <1>8, <1>13 DEF AddInPlace, AfterAdd, At, Idle
  <2>2. QED
    BY <1>13, <2>1, PutNothing DEF AddInPlace
<1>14. CASE WriteEntry
  <2>1. call # Idle /\ Goto("append_entry") /\ UNCHANGED <<inodes, taken>>
    BY <1>14 DEF WriteEntry, At, Idle
  <2>2. HeldBlock' = HeldBlock /\ call'.block = call.block
    BY <1>7, <1>14, <2>1 DEF WriteEntry, At, HeldBlock
  <2>3. QED
    BY <2>1, <2>2, PutNothing
<1>15. CASE AppendEntry
  <2>1. call.parent \in Inodes => inodes[call.parent] \in InodeRecords
    BY DEF Exclusive
  <2>2. call # Idle /\ HeldBlock # {}
    BY <1>15 DEF AppendEntry, At, HeldBlock, Idle
  <2>3. QED
    BY <1>15, <2>1, <2>2, AppendExtentKeeps DEF AppendEntry
<1>16. CASE SizeParent
  <2> DEFINE inode == [inodes[call.parent] EXCEPT !.size = @ + 1]
  <2>1. ASSUME call.parent \in Inodes
        PROVE  inode \in InodeRecords
    <3>1. inodes[call.parent] \in InodeRecords
      BY <2>1 DEF Exclusive
    <3>2. QED
      BY <3>1, CountedUp
  <2>2. inode.extents = inodes[call.parent].extents
    OBVIOUS
  <2>3. HeldBlock' = {}
    BY <1>8, <1>16 DEF SizeParent, AfterAdd, At, Idle
  <2> HIDE DEF inode
  <2>4. PutInode(call.parent, inode) /\ UNCHANGED taken
    BY <1>16 DEF SizeParent, inode
  <2>5. QED
    BY <2>1, <2>2, <2>3, <2>4, PutKeeping
<1>17. CASE CountLink
  <2> DEFINE inode == [inodes[call.parent] EXCEPT !.links = @ + 1]
  <2>1. ASSUME call.parent \in Inodes
        PROVE  inode \in InodeRecords
    <3>1. inodes[call.parent] \in InodeRecords
      BY <2>1 DEF Exclusive
    <3>2. QED
      BY <3>1, CountedUp
  <2>2. inode.extents = inodes[call.parent].extents
    OBVIOUS
  <2>3. HeldBlock' = {}
    BY <1>8, <1>17 DEF CountLink, At, Idle
  <2> HIDE DEF inode
  <2>4. PutInode(call.parent, inode) /\ UNCHANGED taken
    BY <1>17 DEF CountLink, inode
  <2>5. QED
    BY <2>1, <2>2, <2>3, <2>4, PutKeeping
<1>18. CASE WriteData
  <2>1. call # Idle /\ Goto("append_data") /\ UNCHANGED <<inodes, taken>>
    BY <1>18 DEF WriteData, At, Idle
  <2>2. HeldBlock' = HeldBlock /\ call'.block = call.block
    BY <1>7, <1>18, <2>1 DEF WriteData, At, HeldBlock
  <2>3. QED
    BY <2>1, <2>2, PutNothing
<1>19. CASE AppendData
  <2> DEFINE old == inodes[call.ino]
             kept == IF call.done = 0 THEN <<>> ELSE old.extents
             inode == [old EXCEPT !.extents = Append(kept, call.block)]
  <2>1. call # Idle /\ HeldBlock # {}
    BY <1>19 DEF AppendData, At, HeldBlock, Idle
  <2>2. CASE Fail
    BY <2>2, FailKeeps
  <2>3. CASE ~ Fail
    <3>1. /\ PutInode(call.ino, inode)
          /\ call' = [call EXCEPT !.pc = "data", !.done = @ + 1]
          /\ UNCHANGED taken
      BY <1>19, <2>3 DEF AppendData, PutInode
    <3>2. ASSUME call.ino \in Inodes
          PROVE  inode \in InodeRecords /\ kept \in Seq(Blocks)
      <4>1. old \in InodeRecords
        BY <3>2 DEF Exclusive
      <4>2. call.block \in Blocks
        BY <2>1 DEF Exclusive, HeldIsUnmapped
      <4>3. kept \in Seq(Blocks) /\ Append(kept, call.block) \in Seq(Blocks)
        <5>1. <<>> \in Seq(Blocks) /\ old.extents \in Seq(Blocks)
          BY <4>1 DEF InodeRecords
        <5>2. QED
          BY <4>2, <5>1
      <4>4. QED
        BY <4>1, <4>3 DEF InodeRecords
    <3>3. inode.extents = Append(kept, call.block)
      OBVIOUS
    <3>4. kept = <<>> \/ kept = inodes[call.ino].extents
      OBVIOUS
    <3>5. HeldBlock' = {}
      BY <2>1, <3>1 DEF HeldBlock, CallIsRecord, CallFields
    <3> HIDE DEF inode, kept
    <3>6. QED
      BY <2>1, <3>1, <3>2, <3>3, <3>4, <3>5, PutAppending
  <2>4. QED
    BY <2>2, <2>3
<1>20. CASE SizeFile
  <2> DEFINE old == inodes[call.ino]
             inode == [old EXCEPT !.extents = IF call.done = 0 THEN <<>> ELSE @,
                                  !.size = Len(call.data), !.blocks = Len(call.data)]
  <2>1. call # Idle
    BY <1>20 DEF SizeFile, At, Idle
  <2>2. ASSUME call.ino \in Inodes
        PROVE  inode \in InodeRecords
    <3>1. old \in InodeRecords /\ Len(call.data) \in Nat
      BY <2>1, <2>2 DEF Exclusive, CallIsRecord
    <3>2. <<>> \in Seq(Blocks) /\ old.extents \in Seq(Blocks)
      BY <3>1 DEF InodeRecords
    <3>3. QED
      BY <3>1, <3>2 DEF InodeRecords
  <2>3. inode.extents = <<>> \/ inode.extents = inodes[call.ino].extents
    OBVIOUS
  <2>4. HeldBlock' = {}
    BY <1>8, <1>20, <2>1 DEF SizeFile
  <2> HIDE DEF inode
  <2>5. PutInode(call.ino, inode) /\ UNCHANGED taken
    BY <1>20 DEF SizeFile, inode
  <2>6. QED
    BY <2>2, <2>3, <2>4, <2>5, PutKeeping
<1>21. QED
  BY <1>1, <1>2, <1>3, <1>4, <1>5, <1>6, <1>9, <1>10, <1>11, <1>12, <1>13, <1>14, <1>15,
     <1>16, <1>17, <1>18, <1>19, <1>20 DEF Next, Step

\* What holds nowhere in the code but in the order of its writes: the bit before
\* the block, the block before the extent.  At every point of write_file and
\* mkdir, and whatever calls an error or a loss of power has ended before, no
\* block is mapped by two extents, on any disk that is mounted clean.
THEOREM NoSharedBlockCorrect == Spec => []NoSharedBlock
<1>1. Init => Exclusive /\ CallIsRecord
  BY ExclusiveInit, CallInit
<1>2. Exclusive /\ CallIsRecord /\ [Next]_vars => (Exclusive /\ CallIsRecord)'
  <2>1. CASE Next
    BY <2>1, ExclusiveNext, CallNext
  <2>2. CASE UNCHANGED vars
    BY <2>2 DEF vars, Exclusive, NoSharedBlock, Unshared, Marked, HeldIsUnmapped, HeldBlock,
         CallIsRecord
  <2>3. QED
    BY <2>1, <2>2
<1>3. Exclusive => NoSharedBlock
  BY DEF Exclusive
<1>4. QED
  BY <1>1, <1>2, <1>3, PTL DEF Spec

-----------------------------------------------------------------------------
(* Types, and what files read as.                                          *)

\* The places of a call at which its parent is still to be written, and those
\* at which it writes data.
ParentPcs ==
    {"allocate_inode", "new_file", "allocate_dots", "write_dots", "new_dir", "size_dir", "add",
     "write_entry", "append_entry", "size_parent", "links"}
NewPcs == {"new_file", "allocate_dots", "write_dots", "new_dir"}
DataPcs == {"data", "write_data", "append_data"}

\* What a call in progress is about: directories that are one, an inode of its
\* own, marked before it is written.
Control ==
    /\ \A i \in Inodes : inodes[i].type # "unwritten" => i \in taken.inode
    /\ call # Idle =>
        /\ call.pc \in ParentPcs \cup DataPcs \cup {"flush"}
        /\ call.done \in Nat
        /\ DOMAIN call.data = 1..Len(call.data)
        /\ call.pc # "allocate_inode" => call.ino \in Inodes
        /\ call.pc \in ParentPcs => call.parent \in Inodes /\ IsDir(call.parent)
        /\ call.pc \in NewPcs => call.ino # call.parent /\ call.ino \in taken.inode
        /\ call.pc = "size_dir" => IsDir(call.ino)

\* A file that is not torn: its extents reach as far as its size, and its
\* blocks hold what it was last completely written with.
Intact(i) ==
    IsFile(i) /\ i \notin torn =>
        /\ inodes[i].size <= Len(inodes[i].extents)
        /\ DOMAIN acked[i] = 1..inodes[i].size
        /\ \A j \in 1..inodes[i].size : content[inodes[i].extents[j]].data = {acked[i][j]}

\* As many extents as the call has replaced, each with its data; none before it
\* begins to write them.
Copied ==
    call # Idle =>
        /\ call.pc \in ParentPcs => call.done = 0
        /\ call.pc \in DataPcs => call.done <= Len(call.data)
        /\ call.pc \in DataPcs \ {"data"} => call.done < Len(call.data)
        /\ call.pc = "append_data" =>
            content[call.block].data = {call.data[call.done + 1]}
        /\ call.pc \in DataPcs /\ call.done > 0 =>
            /\ Len(inodes[call.ino].extents) = call.done
            /\ \A j \in 1..call.done :
                content[inodes[call.ino].extents[j]].data = {call.data[j]}

\* The inductive invariant, with Exclusive and CallIsRecord.
Reading ==
    /\ DOMAIN content = Blocks
    /\ DOMAIN acked = Inodes
    /\ torn \subseteq Inodes
    /\ clean \in BOOLEAN
    /\ \A i \in Inodes : Len(inodes[i].extents) <= MaxExtents
    /\ \A i \in Inodes : Intact(i)
    /\ Copied

-----------------------------------------------------------------------------
(* Steps of calls.                                                         *)

\* A call that goes on keeps all but its place.
LEMMA GoesOn ==
    ASSUME CallIsRecord, call # Idle, NEW pc, Goto(pc)
    PROVE  /\ call' # Idle /\ call'.pc = pc
           /\ call'.op = call.op /\ call'.parent = call.parent /\ call'.data = call.data
           /\ call'.name = call.name
           /\ call'.ino = call.ino /\ call'.block = call.block /\ call'.done = call.done
<1>1. DOMAIN call' = CallFields
  BY DEF Goto, CallIsRecord
<1>2. DOMAIN call' # DOMAIN Idle
  BY <1>1 DEF Idle, CallFields
<1>3. QED
  BY <1>2 DEF Goto, CallIsRecord, CallFields

\* The same with a block in hand.
LEMMA GoesOnWith ==
    ASSUME CallIsRecord, call # Idle, NEW pc, NEW b,
           call' = [call EXCEPT !.pc = pc, !.block = b]
    PROVE  /\ call' # Idle /\ call'.pc = pc /\ call'.block = b
           /\ call'.op = call.op /\ call'.parent = call.parent /\ call'.data = call.data
           /\ call'.name = call.name
           /\ call'.ino = call.ino /\ call'.done = call.done
<1>1. DOMAIN call' = CallFields
  BY DEF CallIsRecord
<1>2. DOMAIN call' # DOMAIN Idle
  BY <1>1 DEF Idle, CallFields
<1>3. QED
  BY <1>2 DEF CallIsRecord, CallFields

\* With an inode in hand.
LEMMA GoesOnFor ==
    ASSUME CallIsRecord, call # Idle, NEW pc, NEW i,
           call' = [call EXCEPT !.ino = i, !.pc = pc]
    PROVE  /\ call' # Idle /\ call'.pc = pc /\ call'.ino = i
           /\ call'.op = call.op /\ call'.parent = call.parent /\ call'.data = call.data
           /\ call'.name = call.name
           /\ call'.block = call.block /\ call'.done = call.done
<1>1. DOMAIN call' = CallFields
  BY DEF CallIsRecord
<1>2. DOMAIN call' # DOMAIN Idle
  BY <1>1 DEF Idle, CallFields
<1>3. QED
  BY <1>2 DEF CallIsRecord, CallFields

\* With a block more done.
LEMMA GoesOnPast ==
    ASSUME CallIsRecord, call # Idle,
           call' = [call EXCEPT !.pc = "data", !.done = @ + 1]
    PROVE  /\ call' # Idle /\ call'.pc = "data" /\ call'.done = call.done + 1
           /\ call'.op = call.op /\ call'.parent = call.parent /\ call'.data = call.data
           /\ call'.name = call.name
           /\ call'.ino = call.ino /\ call'.block = call.block
<1>1. DOMAIN call' = CallFields
  BY DEF CallIsRecord
<1>2. DOMAIN call' # DOMAIN Idle
  BY <1>1 DEF Idle, CallFields
<1>3. QED
  BY <1>2 DEF CallIsRecord, CallFields

-----------------------------------------------------------------------------
(* The disk.                                                               *)

\* The extents of an inode are blocks.
LEMMA ExtentsAreBlocks ==
    ASSUME Exclusive, NEW i \in Inodes
    PROVE  /\ inodes[i].extents \in Seq(Blocks) /\ inodes[i].size \in Nat
           /\ Len(inodes[i].extents) \in Nat
           /\ DOMAIN inodes[i].extents = 1..Len(inodes[i].extents)
<1>1. inodes[i] \in InodeRecords
  BY DEF Exclusive
<1>2. inodes[i].extents \in Seq(Blocks) /\ inodes[i].size \in Nat
  BY <1>1 DEF InodeRecords
<1>3. QED
  BY <1>2

\* A file stays intact when its inode and the blocks it maps are left alone.
LEMMA IntactFrame ==
    ASSUME Exclusive, NEW i \in Inodes, Intact(i),
           inodes'[i] = inodes[i], acked'[i] = acked[i], i \in torn => i \in torn',
           \A m \in DOMAIN inodes[i].extents :
                content'[inodes[i].extents[m]].data = content[inodes[i].extents[m]].data
    PROVE  Intact(i)'
<1>1. ASSUME inodes[i].size <= Len(inodes[i].extents)
      PROVE  1..inodes[i].size \subseteq DOMAIN inodes[i].extents
  BY <1>1, ExtentsAreBlocks
<1>2. QED
  BY <1>1 DEF Intact, IsFile

\* A write to a block that no file maps.
LEMMA PutBlockElsewhere ==
    ASSUME Exclusive, Reading, NEW b, NEW what, PutBlock(b, what),
           UNCHANGED <<inodes, acked, torn>>,
           \A i \in Inodes : IsFile(i) => \A m \in DOMAIN inodes[i].extents :
                inodes[i].extents[m] # b
    PROVE  \A i \in Inodes : Intact(i)'
<1>1. SUFFICES ASSUME NEW i \in Inodes, IsFile(i)
               PROVE  Intact(i)'
  BY DEF Intact, IsFile
<1>2. Intact(i)
  BY DEF Reading
<1>3. \A m \in DOMAIN inodes[i].extents :
        content'[inodes[i].extents[m]].data = content[inodes[i].extents[m]].data
  <2>1. SUFFICES ASSUME NEW m \in DOMAIN inodes[i].extents
                 PROVE  content'[inodes[i].extents[m]] = content[inodes[i].extents[m]]
    OBVIOUS
  <2>2. inodes[i].extents[m] \in Blocks
    BY ExtentsAreBlocks
  <2>3. QED
    BY <1>1, <2>2 DEF PutBlock, Reading
<1>4. QED
  BY <1>2, <1>3, IntactFrame

\* A write of one inode leaves the other files intact.
LEMMA PutInodeElsewhere ==
    ASSUME Exclusive, Reading, NEW i, NEW inode, PutInode(i, inode),
           UNCHANGED content, NEW k \in Inodes, k # i,
           acked'[k] = acked[k], k \in torn => k \in torn'
    PROVE  Intact(k)'
<1>1. inodes'[k] = inodes[k]
  BY DEF PutInode, Exclusive
<1>2. Intact(k)
  BY DEF Reading
<1>3. QED
  BY <1>1, <1>2, IntactFrame

-----------------------------------------------------------------------------
(* Control.                                                                *)

\* What Control says of the call alone.
LEMMA ControlSplit ==
    ASSUME Control, call # Idle
    PROVE  /\ call.pc \in ParentPcs \cup DataPcs \cup {"flush"}
           /\ call.done \in Nat
           /\ DOMAIN call.data = 1..Len(call.data)
           /\ call.pc # "allocate_inode" => call.ino \in Inodes
           /\ call.pc \in ParentPcs => call.parent \in Inodes /\ IsDir(call.parent)
           /\ call.pc \in NewPcs => call.ino # call.parent /\ call.ino \in taken.inode
           /\ call.pc = "size_dir" => IsDir(call.ino)
BY DEF Control

\* A step that ends the call, or that goes on to where less is demanded, and
\* changes the type of no inode and clears no bit.
LEMMA ControlFrame ==
    ASSUME Control, \A i \in Inodes : inodes'[i].type = inodes[i].type,
           taken.inode \subseteq taken'.inode,
           \/ call' = Idle
           \/ /\ call # Idle /\ call.pc # "allocate_inode"
              /\ call'.pc \in ParentPcs \cup DataPcs \cup {"flush"}
              /\ call'.done \in Nat /\ call'.data = call.data
              /\ call'.ino = call.ino /\ call'.parent = call.parent
              /\ call'.pc \in ParentPcs => call.pc \in ParentPcs
              /\ call'.pc \in NewPcs => call.pc \in NewPcs
              /\ call'.pc # "size_dir"
    PROVE  Control'
<1>1. \A i \in Inodes : inodes'[i].type # "unwritten" => i \in taken'.inode
  BY DEF Control
<1>2. CASE call' = Idle
  BY <1>1, <1>2 DEF Control
<1>3. CASE call' # Idle
  BY <1>1, <1>3, ControlSplit DEF Control, IsDir
<1>4. QED
  BY <1>2, <1>3

\* The write of an inode that keeps its type.
LEMMA PutSameType ==
    ASSUME Exclusive, NEW i, NEW inode, PutInode(i, inode), inode.type = inodes[i].type
    PROVE  \A j \in Inodes : inodes'[j].type = inodes[j].type
BY DEF PutInode, Exclusive

LEMMA FailControl == ASSUME Control, Fail PROVE Control'
BY ControlFrame DEF Fail, disk

LEMMA AllocateBlockControl ==
    ASSUME Exclusive, CallIsRecord, Control, call # Idle, NEW pc, AllocateBlockThen(pc),
           \/ call.pc = "allocate_dots" /\ pc = "write_dots"
           \/ call.pc = "add" /\ pc = "write_entry"
           \/ call.pc = "data" /\ pc = "write_data"
    PROVE  Control'
<1>1. CASE Fail
  BY <1>1, FailControl
<1>2. CASE ~ Fail
  <2>1. PICK b : /\ Take("block", b)
                 /\ call' = [call EXCEPT !.pc = pc, !.block = b]
                 /\ UNCHANGED inodes
    BY <1>2 DEF AllocateBlockThen
  <2>2. taken'.inode = taken.inode
    BY <2>1 DEF Take, Exclusive, Bitmaps
  <2>3. /\ call' # Idle /\ call'.pc = pc
        /\ call'.parent = call.parent /\ call'.data = call.data
        /\ call'.ino = call.ino /\ call'.done = call.done
    BY <2>1, GoesOnWith
  <2>4. QED
    BY <2>1, <2>2, <2>3, ControlFrame, ControlSplit DEF ParentPcs, NewPcs, DataPcs
<1>3. QED
  BY <1>1, <1>2

\* The start of a call, in a directory.
LEMMA StartControl ==
    ASSUME Control, NEW op, NEW path, NEW name, NEW data, DOMAIN data = 1..Len(data),
           Start(op, path, name, data)
    PROVE  Control'
<1> DEFINE parent == Resolve(path)
           new == [pc |-> "allocate_inode", op |-> op, parent |-> parent, name |-> name,
                   data |-> data, ino |-> Root, block |-> CHOOSE b \in Blocks : TRUE,
                   done |-> 0]
<1>1. /\ parent \in Inodes /\ IsDir(parent) /\ UNCHANGED <<inodes, taken>>
      /\ call' = new \/ \E f \in Inodes : call' = [new EXCEPT !.pc = "data", !.ino = f]
  BY DEF Start, disk
<1>2. \A i \in Inodes : inodes'[i].type # "unwritten" => i \in taken'.inode
  BY <1>1 DEF Control
<1>3. CASE call' = new
  <2>1. /\ call'.pc = "allocate_inode" /\ call'.done = 0 /\ call'.data = data
        /\ call'.parent = parent
    BY <1>3
  <2>2. parent \in Inodes /\ inodes'[parent].type = "dir"
    BY <1>1 DEF IsDir
  <2> HIDE DEF parent, new
  <2>3. QED
    BY <1>2, <2>1, <2>2 DEF Control, ParentPcs, NewPcs, DataPcs, IsDir
<1>4. ASSUME NEW f \in Inodes, call' = [new EXCEPT !.pc = "data", !.ino = f]
      PROVE  Control'
  <2>1. call'.pc = "data" /\ call'.done = 0 /\ call'.data = data /\ call'.ino = f
    BY <1>4
  <2> HIDE DEF parent, new
  <2>2. QED
    BY <1>2, <2>1 DEF Control, ParentPcs, NewPcs, DataPcs
<1>5. QED
  BY <1>1, <1>3, <1>4

\* append_extent to a directory.
LEMMA AppendExtentControl ==
    ASSUME Exclusive, CallIsRecord, Control, call # Idle, NEW i, NEW inode, NEW pc,
           AppendExtentThen(i, inode, pc), inode.type = "dir",
           \/ i = call.ino /\ call.pc = "new_dir" /\ pc = "size_dir"
           \/ i = call.parent /\ call.pc = "append_entry" /\ pc = "size_parent"
    PROVE  Control'
<1> DEFINE appended == [inode EXCEPT !.extents = Append(@, call.block)]
<1>1. CASE Fail
  BY <1>1, FailControl
<1>2. CASE ~ Fail
  <2>1. PutInode(i, appended) /\ Goto(pc) /\ UNCHANGED taken
    BY <1>2 DEF AppendExtentThen
  <2>2. appended.type = "dir"
    OBVIOUS
  <2> HIDE DEF appended
  <2>3. \A j \in Inodes : inodes'[j] = IF j = i THEN appended ELSE inodes[j]
    BY <2>1 DEF PutInode, Exclusive
  <2>4. i \in Inodes /\ i \in taken.inode
    BY ControlSplit DEF Control, IsDir, ParentPcs, NewPcs
  <2>5. \A j \in Inodes : inodes'[j].type # "unwritten" => j \in taken'.inode
    BY <2>1, <2>3, <2>4 DEF Control
  <2>6. /\ call' # Idle /\ call'.pc = pc
        /\ call'.parent = call.parent /\ call'.data = call.data
        /\ call'.ino = call.ino /\ call'.done = call.done
    BY <2>1, GoesOn
  <2>7. inodes'[i].type = "dir"
    BY <2>2, <2>3, <2>4
  <2>8. call.parent \in Inodes /\ inodes'[call.parent].type = "dir"
    BY <2>2, <2>3, ControlSplit DEF IsDir, ParentPcs
  <2>9. QED
    BY <2>5, <2>6, <2>7, <2>8, ControlSplit DEF Control, IsDir, ParentPcs, NewPcs, DataPcs
<1>3. QED
  BY <1>1, <1>2

LEMMA ControlNext ==
    ASSUME Exclusive, CallIsRecord, Control, Next
    PROVE  Control'
<1>1. CASE WriteFile
  BY <1>1, StartControl, WritesAssumption DEF WriteFile
<1>2. CASE Mkdir
  <2>1. DOMAIN <<>> = 1..Len(<<>>)
    OBVIOUS
  <2>2. QED
    BY <1>2, <2>1, StartControl DEF Mkdir
<1>3. CASE AllocateInode
  <2>1. CASE Fail
    BY <2>1, FailControl
  <2>2. CASE ~ Fail
    <3>1. call # Idle /\ call.pc = "allocate_inode"
      <4>1. At("allocate_inode")
        BY <1>3, Zenon DEF AllocateInode
      <4>2. QED
        BY <4>1 DEF At, Idle
    <3>2. PICK i \in Candidates(Inodes \ taken.inode) :
            /\ Take("inode", i)
            /\ call' = [call EXCEPT !.ino = i,
                            !.pc = IF call.op = "mkdir" THEN "allocate_dots" ELSE "new_file"]
            /\ UNCHANGED inodes
      BY <1>3, <2>2 DEF AllocateInode
    <3>3. i \in Inodes /\ i \notin taken.inode
      <4>1. Inodes \ taken.inode \in SUBSET Inodes
        OBVIOUS
      <4>2. QED
        BY <3>2, <4>1, CandidatesAssumption
    <3>4. taken'.inode = taken.inode \cup {i}
      BY <3>2 DEF Take, Exclusive, Bitmaps
    <3>5. /\ call' # Idle /\ call'.pc \in {"allocate_dots", "new_file"}
          /\ call'.parent = call.parent /\ call'.data = call.data
          /\ call'.ino = i /\ call'.done = call.done
      BY <3>1, <3>2, GoesOnFor
    <3>6. call.parent \in Inodes /\ IsDir(call.parent) /\ call.parent # i
      BY <3>1, <3>3, ControlSplit DEF Control, IsDir, ParentPcs
    <3>7. \A j \in Inodes : inodes'[j].type # "unwritten" => j \in taken'.inode
      BY <3>2, <3>4 DEF Control
    <3>8. QED
      BY <3>1, <3>2, <3>3, <3>4, <3>5, <3>6, <3>7, ControlSplit
         DEF Control, IsDir, ParentPcs, NewPcs, DataPcs
  <2>3. QED
    BY <2>1, <2>2
<1>4. CASE WriteNewFile
  <2>1. /\ call # Idle /\ call.pc = "new_file" /\ Goto("add") /\ UNCHANGED taken
        /\ PutInode(call.ino, NewInode("file", 1))
    BY <1>4 DEF WriteNewFile, At, Idle
  <2>2. /\ call' # Idle /\ call'.pc = "add"
        /\ call'.parent = call.parent /\ call'.data = call.data
        /\ call'.ino = call.ino /\ call'.done = call.done
    BY <2>1, GoesOn
  <2>3. /\ call.ino \in Inodes /\ call.ino # call.parent /\ call.ino \in taken.inode
        /\ call.parent \in Inodes /\ inodes[call.parent].type = "dir"
    BY <2>1, ControlSplit DEF IsDir, ParentPcs, NewPcs
  <2>4. \A j \in Inodes : j # call.ino => inodes'[j] = inodes[j]
    BY <2>1 DEF PutInode, Exclusive
  <2>5. \A j \in Inodes : inodes'[j].type # "unwritten" => j \in taken'.inode
    BY <2>1, <2>3, <2>4 DEF Control
  <2>6. QED
    BY <2>1, <2>2, <2>3, <2>4, <2>5, ControlSplit DEF Control, IsDir, ParentPcs, NewPcs, DataPcs
<1>5. CASE AllocateDots \/ Grow \/ AllocateData
  BY <1>5, AllocateBlockControl DEF AllocateDots, Grow, AllocateData, At, Idle
<1>6. CASE WriteDots \/ AddInPlace \/ WriteEntry \/ WriteData
  <2>1. call # Idle /\ UNCHANGED <<inodes, taken>>
    BY <1>6 DEF WriteDots, AddInPlace, WriteEntry, WriteData, At, Idle
  <2>2. \E pc : /\ Goto(pc)
                /\ \/ call.pc = "write_dots" /\ pc = "new_dir"
                   \/ call.pc = "add" /\ pc \in {"links", "data"}
                   \/ call.pc = "write_entry" /\ pc = "append_entry"
                   \/ call.pc = "write_data" /\ pc = "append_data"
    BY <1>6 DEF WriteDots, AddInPlace, WriteEntry, WriteData, At, AfterAdd
  <2>3. QED
    BY <2>1, <2>2, GoesOn, ControlFrame, ControlSplit DEF ParentPcs, NewPcs, DataPcs
<1>7. CASE WriteNewDir
  <2>1. NewInode("dir", 2).type = "dir"
    BY DEF NewInode, Unwritten
  <2>2. QED
    BY <1>7, <2>1, AppendExtentControl DEF WriteNewDir, At, Idle
<1>8. CASE AppendEntry
  <2>1. call # Idle /\ call.pc = "append_entry"
    BY <1>8 DEF AppendEntry, At, Idle
  <2>2. inodes[call.parent].type = "dir"
    BY <2>1, ControlSplit DEF ParentPcs, IsDir
  <2>3. QED
    BY <1>8, <2>1, <2>2, AppendExtentControl DEF AppendEntry
<1>9. CASE SizeNewDir \/ SizeParent \/ CountLink
  <2>1. call # Idle /\ UNCHANGED taken
    BY <1>9 DEF SizeNewDir, SizeParent, CountLink, At, Idle
  <2>2. \E pc : /\ Goto(pc)
                /\ \/ call.pc = "size_dir" /\ pc = "add"
                   \/ call.pc = "size_parent" /\ pc \in {"links", "data"}
                   \/ call.pc = "links" /\ pc = "flush"
    BY <1>9 DEF SizeNewDir, SizeParent, CountLink, At, AfterAdd
  <2>3. \E i, inode : PutInode(i, inode) /\ inode.type = inodes[i].type
    <3>1. \A i \in Nat \cup {call.ino, call.parent} :
            /\ [inodes[i] EXCEPT !.size = 1, !.blocks = 1].type = inodes[i].type
            /\ [inodes[i] EXCEPT !.size = @ + 1].type = inodes[i].type
            /\ [inodes[i] EXCEPT !.links = @ + 1].type = inodes[i].type
      OBVIOUS
    <3>2. QED
      BY <1>9, <3>1 DEF SizeNewDir, SizeParent, CountLink
  <2>4. \A j \in Inodes : inodes'[j].type = inodes[j].type
    BY <2>3, PutSameType
  <2>5. QED
    BY <2>1, <2>2, <2>4, GoesOn, ControlFrame, ControlSplit DEF ParentPcs, NewPcs, DataPcs
<1>10. CASE AppendData
  <2>1. CASE Fail
    BY <2>1, FailControl
  <2>2. CASE ~ Fail
    <3> DEFINE old == inodes[call.ino]
               inode == [(IF call.done = 0 THEN [old EXCEPT !.extents = <<>>] ELSE old)
                            EXCEPT !.extents = Append(@, call.block)]
    <3>1. /\ PutInode(call.ino, inode) /\ UNCHANGED taken
          /\ call # Idle /\ call.pc = "append_data"
          /\ call' = [call EXCEPT !.pc = "data", !.done = @ + 1]
      BY <1>10, <2>2 DEF AppendData, At, Idle
    <3>2. inode.type = inodes[call.ino].type
      OBVIOUS
    <3> HIDE DEF inode
    <3>3. \A j \in Inodes : inodes'[j].type = inodes[j].type
      BY <3>1, <3>2, PutSameType
    <3>4. /\ call' # Idle /\ call'.pc = "data" /\ call'.done = call.done + 1
          /\ call'.parent = call.parent /\ call'.data = call.data /\ call'.ino = call.ino
      BY <3>1, GoesOnPast
    <3>5. QED
      BY <3>1, <3>3, <3>4, ControlFrame, ControlSplit DEF ParentPcs, NewPcs, DataPcs
  <2>3. QED
    BY <2>1, <2>2
<1>11. CASE SizeFile
  <2> DEFINE old == inodes[call.ino]
             inode == [old EXCEPT !.extents = IF call.done = 0 THEN <<>> ELSE @,
                                  !.size = Len(call.data), !.blocks = Len(call.data)]
  <2>1. /\ PutInode(call.ino, inode) /\ UNCHANGED taken
        /\ call # Idle /\ call.pc = "data" /\ Goto("flush")
    BY <1>11 DEF SizeFile, At, Idle
  <2>2. inode.type = inodes[call.ino].type
    OBVIOUS
  <2> HIDE DEF inode
  <2>3. \A j \in Inodes : inodes'[j].type = inodes[j].type
    BY <2>1, <2>2, PutSameType
  <2>4. QED
    BY <2>1, <2>3, GoesOn, ControlFrame, ControlSplit DEF ParentPcs, NewPcs, DataPcs
<1>12. CASE Return
  BY <1>12, ControlFrame DEF Return, disk
<1>13. CASE Abort
  BY <1>13, FailControl DEF Abort
<1>14. QED
  BY <1>1, <1>2, <1>3, <1>4, <1>5, <1>6, <1>7, <1>8, <1>9, <1>10, <1>11, <1>12, <1>13
     DEF Next, Step

-----------------------------------------------------------------------------
(* Reading.                                                                *)

LEMMA ReadingSplit ==
    ASSUME Reading
    PROVE  /\ DOMAIN content = Blocks /\ DOMAIN acked = Inodes
           /\ torn \subseteq Inodes /\ clean \in BOOLEAN
           /\ \A i \in Inodes : Len(inodes[i].extents) <= MaxExtents
           /\ \A i \in Inodes : Intact(i)
           /\ Copied
BY DEF Reading

\* A step that writes neither an inode nor a block.
LEMMA ReadingFrame ==
    ASSUME Reading, UNCHANGED <<inodes, content, acked, torn>>, clean' \in BOOLEAN, Copied'
    PROVE  Reading'
<1>1. \A i \in Inodes : Intact(i)'
  BY DEF Reading, Intact, IsFile
<1>2. QED
  BY <1>1 DEF Reading

LEMMA IdleCopied == call = Idle => Copied
BY DEF Copied

LEMMA FailReading == ASSUME Reading, Fail PROVE Reading'
<1>1. Copied'
  BY DEF Copied, Fail
<1>2. QED
  BY <1>1, ReadingFrame DEF Fail, disk

\* A call that goes on before it has replaced any extent.
LEMMA CopiedFrame ==
    ASSUME CallIsRecord, Copied, call # Idle, call.pc \in ParentPcs,
           call'.pc \in ParentPcs \cup {"data", "flush"},
           call'.done = call.done, call'.data = call.data
    PROVE  Copied'
<1>1. call.done = 0 /\ Len(call.data) \in Nat
  BY DEF Copied, CallIsRecord
<1>2. QED
  BY <1>1 DEF Copied, ParentPcs, DataPcs

\* The write of an inode that is no file, or of one that is intact.
LEMMA PutReading ==
    ASSUME Exclusive, Reading, NEW i \in Inodes, NEW inode, PutInode(i, inode),
           UNCHANGED content, DOMAIN acked' = Inodes, torn' \subseteq Inodes,
           clean' \in BOOLEAN, Len(inode.extents) <= MaxExtents,
           \A k \in Inodes : k # i => acked'[k] = acked[k] /\ (k \in torn => k \in torn'),
           Intact(i)', Copied'
    PROVE  Reading'
<1>1. \A k \in Inodes : Intact(k)'
  BY PutInodeElsewhere
<1>2. \A k \in Inodes : Len(inodes'[k].extents) <= MaxExtents
  BY DEF PutInode, Exclusive, Reading
<1>3. QED
  BY <1>1, <1>2 DEF Reading

\* The write of a directory's inode.
LEMMA PutDirReading ==
    ASSUME Exclusive, CallIsRecord, Reading, call # Idle, call.pc \in ParentPcs,
           NEW i \in Inodes, NEW inode, PutInode(i, inode), inode.type = "dir",
           Len(inode.extents) <= MaxExtents, UNCHANGED <<content, history>>,
           NEW pc \in ParentPcs \cup {"data", "flush"}, Goto(pc)
    PROVE  Reading'
<1>1. UNCHANGED <<content, acked, torn, clean>>
  BY DEF history
<1>2. inodes'[i] = inode
  BY DEF PutInode, Exclusive
<1>3. Intact(i)'
  BY <1>2 DEF Intact, IsFile
<1>4. Copied'
  BY GoesOn, CopiedFrame DEF Reading
<1>5. QED
  BY <1>1, <1>3, <1>4, PutReading, ReadingSplit

\* The write of a block that no file maps.
LEMMA PutBlockReading ==
    ASSUME Exclusive, Reading, NEW b, NEW what, PutBlock(b, what),
           UNCHANGED <<inodes, history>>,
           \A i \in Inodes : IsFile(i) => \A m \in DOMAIN inodes[i].extents :
                inodes[i].extents[m] # b,
           Copied'
    PROVE  Reading'
<1>1. UNCHANGED <<inodes, acked, torn, clean>>
  BY DEF history
<1>2. \A i \in Inodes : Intact(i)'
  BY <1>1, PutBlockElsewhere
<1>3. DOMAIN content' = Blocks
  BY DEF PutBlock, Reading
<1>4. QED
  BY <1>1, <1>2, <1>3 DEF Reading

LEMMA AllocateBlockReading ==
    ASSUME CallIsRecord, Reading, call # Idle, NEW pc, AllocateBlockThen(pc),
           \/ call.pc \in ParentPcs /\ pc \in ParentPcs
           \/ call.pc = "data" /\ pc = "write_data" /\ call.done < Len(call.data)
    PROVE  Reading'
<1>1. CASE Fail
  BY <1>1, FailReading
<1>2. CASE ~ Fail
  <2>1. PICK b : /\ call' = [call EXCEPT !.pc = pc, !.block = b]
                 /\ UNCHANGED <<inodes, content, history>>
    BY <1>2 DEF AllocateBlockThen
  <2>2. /\ call' # Idle /\ call'.pc = pc /\ call'.ino = call.ino
        /\ call'.data = call.data /\ call'.done = call.done
    BY <2>1, GoesOnWith
  <2>3. Copied'
    <3>1. CASE call.pc \in ParentPcs /\ pc \in ParentPcs
      BY <2>2, <3>1, CopiedFrame DEF Reading
    <3>2. CASE call.pc = "data" /\ pc = "write_data" /\ call.done < Len(call.data)
      BY <2>1, <2>2, <3>2 DEF Reading, Copied, ParentPcs, DataPcs
    <3>3. QED
      BY <3>1, <3>2
  <2>4. UNCHANGED <<inodes, content, acked, torn, clean>>
    BY <2>1 DEF history
  <2>5. QED
    BY <2>3, <2>4, ReadingFrame, ReadingSplit
<1>3. QED
  BY <1>1, <1>2

LEMMA StartReading ==
    ASSUME Reading, NEW op, NEW path, NEW name, NEW data, Len(data) \in Nat,
           Start(op, path, name, data)
    PROVE  Reading'
<1> DEFINE new == [pc |-> "allocate_inode", op |-> op, parent |-> Resolve(path), name |-> name,
                   data |-> data, ino |-> Root, block |-> CHOOSE b \in Blocks : TRUE,
                   done |-> 0]
<1>1. call' = new \/ \E f : call' = [new EXCEPT !.pc = "data", !.ino = f]
  BY DEF Start
<1>2. call'.pc \in {"allocate_inode", "data"} /\ call'.done = 0 /\ call'.data = data
  <2>1. ASSUME NEW f
        PROVE  LET other == [new EXCEPT !.pc = "data", !.ino = f]
               IN  other.pc = "data" /\ other.done = 0 /\ other.data = data
    OBVIOUS
  <2>2. new.pc = "allocate_inode" /\ new.done = 0 /\ new.data = data
    OBVIOUS
  <2> HIDE DEF new
  <2>3. QED
    BY <1>1, <2>1, <2>2
<1>3. Copied'
  BY <1>2 DEF Copied, ParentPcs, DataPcs
<1>4. UNCHANGED <<inodes, content, acked, torn, clean>>
  BY DEF Start, disk, history
<1>5. QED
  BY <1>3, <1>4, ReadingFrame, ReadingSplit

\* append_extent to a directory.
LEMMA AppendExtentReading ==
    ASSUME Exclusive, CallIsRecord, Reading, call # Idle, NEW i \in Inodes, NEW inode,
           inode.type = "dir", inode.extents \in Seq(Blocks),
           NEW pc \in ParentPcs, AppendExtentThen(i, inode, pc), call.pc \in ParentPcs,
           call.block \in Blocks
    PROVE  Reading'
<1> DEFINE appended == [inode EXCEPT !.extents = Append(@, call.block)]
<1>1. CASE Fail
  BY <1>1, FailReading
<1>2. CASE ~ Fail
  <2>1. /\ Len(inode.extents) < MaxExtents /\ PutInode(i, appended)
        /\ Goto(pc) /\ UNCHANGED <<content, taken, history>>
    BY <1>2 DEF AppendExtentThen
  <2>2. appended.type = "dir"
    OBVIOUS
  <2>3. appended.extents = Append(inode.extents, call.block)
    OBVIOUS
  <2> HIDE DEF appended
  <2>4. Len(appended.extents) <= MaxExtents
    BY <2>1, <2>3, MaxExtentsAssumption
  <2>5. UNCHANGED <<content, history>>
    BY <2>1
  <2>6. QED
    BY <2>1, <2>2, <2>4, <2>5, PutDirReading
<1>3. QED
  BY <1>1, <1>2

\* A directory's block takes an entry: no file maps it.
LEMMA AddInPlaceReading ==
    ASSUME Exclusive, CallIsRecord, Control, Reading, AddInPlace
    PROVE  Reading'
<1> DEFINE dir == inodes[call.parent]
           j == Min(Roomy)
           b == dir.extents[j]
<1>1. call # Idle /\ call.pc = "add"
  BY DEF AddInPlace, At, Idle
<1>2. call.parent \in Inodes /\ dir.type = "dir"
  BY <1>1, ControlSplit DEF ParentPcs, IsDir
<1>3. j \in DOMAIN dir.extents
  <2>1. DOMAIN dir.extents = 1..Len(dir.extents) /\ Len(dir.extents) \in Nat
    BY <1>2, ExtentsAreBlocks
  <2>2. Roomy \subseteq DOMAIN dir.extents
    BY DEF Roomy, DirBlocks, BlocksOf
  <2>3. Roomy \subseteq Nat /\ Roomy # {}
    BY <2>1, <2>2 DEF AddInPlace
  <2>4. Min(Roomy) \in Roomy
    BY <2>3, MinExists
  <2>5. QED
    BY <2>2, <2>4
<1>4. \A i \in Inodes : IsFile(i) => \A m \in DOMAIN inodes[i].extents : inodes[i].extents[m] # b
  BY <1>2, <1>3 DEF Exclusive, NoSharedBlock, Unshared, IsFile
<1>5. \E what : PutBlock(b, what)
  BY DEF AddInPlace
<1>6. PICK pc \in {"links", "data"} : Goto(pc)
  BY DEF AddInPlace, AfterAdd
<1>7. Copied'
  BY <1>1, <1>6, GoesOn, CopiedFrame DEF Reading, ParentPcs
<1>8. UNCHANGED <<inodes, history>>
  BY DEF AddInPlace
<1> HIDE DEF b
<1>9. QED
  BY <1>4, <1>5, <1>7, <1>8, PutBlockReading

\* The block that a call has just allocated is written.
LEMMA WriteHeldReading ==
    ASSUME Exclusive, CallIsRecord, Control, Reading, WriteDots \/ WriteEntry \/ WriteData
    PROVE  Reading'
<1>1. call # Idle /\ HeldBlock # {} /\ UNCHANGED <<inodes, history>>
  BY DEF WriteDots, WriteEntry, WriteData, HeldBlock, At, Idle
<1>2. /\ call.block \in Blocks
      /\ \A i \in Inodes : \A m \in DOMAIN inodes[i].extents : inodes[i].extents[m] # call.block
  BY <1>1 DEF Exclusive, HeldIsUnmapped
<1>3. ASSUME NEW what, PutBlock(call.block, what), Copied'
      PROVE  Reading'
  BY <1>1, <1>2, <1>3, PutBlockReading
<1>4. CASE WriteDots
  <2>1. call.pc = "write_dots" /\ Goto("new_dir")
    BY <1>4 DEF WriteDots, At
  <2>2. Copied'
    BY <1>1, <2>1, GoesOn, CopiedFrame DEF Reading, ParentPcs
  <2>3. QED
    BY <1>3, <1>4, <2>2 DEF WriteDots
<1>5. CASE WriteEntry
  <2>1. call.pc = "write_entry" /\ Goto("append_entry")
    BY <1>5 DEF WriteEntry, At
  <2>2. Copied'
    BY <1>1, <2>1, GoesOn, CopiedFrame DEF Reading, ParentPcs
  <2>3. QED
    BY <1>3, <1>5, <2>2 DEF WriteEntry
<1>6. CASE WriteData
  <2>1. /\ call.pc = "write_data" /\ Goto("append_data")
        /\ PutBlock(call.block, Holds(call.data[call.done + 1]))
    BY <1>6 DEF WriteData, At
  <2>2. /\ call' # Idle /\ call'.pc = "append_data" /\ call'.ino = call.ino
        /\ call'.block = call.block /\ call'.data = call.data /\ call'.done = call.done
    BY <1>1, <2>1, GoesOn
  <2>3. content'[call.block].data = {call.data[call.done + 1]}
    BY <1>2, <2>1 DEF PutBlock, Reading, Holds
  <2>4. call.ino \in Inodes /\ call.done \in Nat
    BY <1>1, <2>1, ControlSplit
  <2>5. \A m \in DOMAIN inodes[call.ino].extents :
            content'[inodes[call.ino].extents[m]] = content[inodes[call.ino].extents[m]]
    <3>1. SUFFICES ASSUME NEW m \in DOMAIN inodes[call.ino].extents
                   PROVE  content'[inodes[call.ino].extents[m]]
                            = content[inodes[call.ino].extents[m]]
      OBVIOUS
    <3>2. inodes[call.ino].extents[m] \in Blocks
      BY <2>4, ExtentsAreBlocks
    <3>3. QED
      BY <1>2, <2>1, <2>4, <3>2 DEF PutBlock, Reading
  <2>6. /\ call.done < Len(call.data)
        /\ call.done > 0 =>
            /\ Len(inodes[call.ino].extents) = call.done
            /\ \A j \in 1..call.done :
                content[inodes[call.ino].extents[j]].data = {call.data[j]}
    BY <1>1, <2>1 DEF Reading, Copied, DataPcs
  <2>7. ASSUME call.done > 0
        PROVE  /\ Len(inodes[call.ino].extents) = call.done
               /\ \A j \in 1..call.done :
                    content'[inodes[call.ino].extents[j]].data = {call.data[j]}
    <3>1. DOMAIN inodes[call.ino].extents = 1..call.done
      BY <2>4, <2>6, <2>7, ExtentsAreBlocks
    <3>2. QED
      BY <2>5, <2>6, <2>7, <3>1
  <2>8. Copied'
    <3>1. Len(call.data) \in Nat
      BY <1>1 DEF CallIsRecord
    <3>2. call.done <= Len(call.data)
      BY <2>4, <2>6, <3>1
    <3>3. QED
      BY <1>1, <2>2, <2>3, <2>6, <2>7, <3>2 DEF Copied, ParentPcs, DataPcs
  <2>9. QED
    BY <1>3, <2>1, <2>8
<1>7. QED
  BY <1>4, <1>5, <1>6

\* One more extent of the data: the file is torn from the first one on, unless
\* it was empty and stays so.
LEMMA AppendDataReading ==
    ASSUME Exclusive, CallIsRecord, Control, Reading, AppendData
    PROVE  Reading'
<1>1. call # Idle /\ call.pc = "append_data"
  BY DEF AppendData, At, Idle
<1> PICK i \in Inodes : i = call.ino
  BY <1>1, ControlSplit
<1> DEFINE old == inodes[i]
           kept == IF call.done = 0 THEN <<>> ELSE old.extents
           inode == [old EXCEPT !.extents = Append(kept, call.block)]
<1>2. CASE Fail
  BY <1>2, FailReading
<1>3. CASE ~ Fail
  <2>1. /\ PutInode(i, inode) /\ Len(kept) < MaxExtents
        /\ call' = [call EXCEPT !.pc = "data", !.done = @ + 1]
        /\ torn' = IF old.size > 0 THEN torn \cup {i} ELSE torn
        /\ UNCHANGED <<content, acked>>
    BY <1>3 DEF AppendData, PutInode
  <2>2. clean' \in BOOLEAN
    BY <1>3 DEF AppendData
  <2>3. i \in Inodes /\ call.done \in Nat
    BY <1>1, ControlSplit
  <2>4. old.extents \in Seq(Blocks) /\ old.size \in Nat /\ call.block \in Blocks
    BY <1>1, <2>3, ExtentsAreBlocks DEF Exclusive, HeldIsUnmapped, HeldBlock
  <2>5. kept \in Seq(Blocks)
    BY <2>4
  <2>6. inode.extents = Append(kept, call.block) /\ inode.size = old.size /\ inode.type = old.type
    BY <2>3 DEF Exclusive, InodeRecords
  <2>7. /\ call.done < Len(call.data)
        /\ content[call.block].data = {call.data[call.done + 1]}
        /\ call.done > 0 =>
            /\ Len(old.extents) = call.done
            /\ \A j \in 1..call.done : content[old.extents[j]].data = {call.data[j]}
    BY <1>1 DEF Reading, Copied, DataPcs
  <2>8. /\ Len(kept) = call.done
        /\ \A j \in 1..call.done : content[kept[j]].data = {call.data[j]}
    <3>1. CASE call.done = 0
      BY <3>1
    <3>2. CASE call.done > 0
      <4>1. kept = old.extents
        BY <2>3, <3>2
      <4>2. QED
        BY <2>7, <3>2, <4>1
    <3>3. QED
      BY <2>3, <3>1, <3>2
  <2> HIDE DEF inode, kept
  <2>9. inodes'[i] = inode
    BY <2>1, <2>3 DEF PutInode, Exclusive
  <2>10. Len(inode.extents) = call.done + 1 /\ Len(inode.extents) <= MaxExtents
    BY <2>1, <2>3, <2>4, <2>5, <2>6, <2>8, MaxExtentsAssumption
  <2>11. \A j \in 1..(call.done + 1) : content[inode.extents[j]].data = {call.data[j]}
    <3>1. SUFFICES ASSUME NEW j \in 1..(call.done + 1)
                   PROVE  content[inode.extents[j]].data = {call.data[j]}
      OBVIOUS
    <3>2. CASE j = call.done + 1
      <4>1. inode.extents[j] = call.block
        BY <2>3, <2>4, <2>5, <2>6, <2>8, <3>2
      <4>2. QED
        BY <2>7, <3>2, <4>1
    <3>3. CASE j # call.done + 1
      <4>1. j \in 1..call.done
        BY <2>3, <3>1, <3>3
      <4>2. inode.extents[j] = kept[j]
        BY <2>4, <2>5, <2>6, <2>8, <4>1
      <4>3. QED
        BY <2>8, <4>1, <4>2
    <3>4. QED
      BY <3>2, <3>3
  <2>12. Intact(i)'
    <3>1. SUFFICES ASSUME inodes'[i].type = "file", i \notin torn'
                   PROVE  Intact(i)'
      BY DEF Intact, IsFile
    <3>2. inodes[i].size = 0 /\ i \notin torn /\ inodes[i].type = "file"
      BY <2>1, <2>4, <2>6, <2>9, <3>1
    <3>3. DOMAIN acked[i] = 1..0
      BY <2>3, <3>2 DEF Reading, Intact, IsFile
    <3>4. inodes'[i].size = 0 /\ Len(inodes'[i].extents) >= 0
      BY <2>3, <2>6, <2>9, <2>10, <3>2
    <3>5. acked'[i] = acked[i]
      BY <2>1
    <3>6. QED
      BY <3>3, <3>4, <3>5 DEF Intact
  <2>13. Copied'
    <3>1. /\ call' # Idle /\ call'.pc = "data" /\ call'.done = call.done + 1
          /\ call'.data = call.data /\ call'.ino = i
      BY <1>1, <2>1, GoesOnPast
    <3>2. call.done + 1 <= Len(call.data)
      <4>1. Len(call.data) \in Nat
        BY <1>1 DEF CallIsRecord
      <4>2. QED
        BY <2>3, <2>7, <4>1
    <3>3. content' = content
      BY <2>1
    <3>4. QED
      BY <2>9, <2>10, <2>11, <3>1, <3>2, <3>3 DEF Copied, ParentPcs, DataPcs
  <2>14. DOMAIN acked' = Inodes /\ torn' \subseteq Inodes /\ content' = content
    BY <2>1, <2>3 DEF Reading
  <2>15. \A k \in Inodes : k # i => acked'[k] = acked[k] /\ (k \in torn => k \in torn')
    BY <2>1
  <2>16. QED
    BY <2>1, <2>2, <2>3, <2>10, <2>12, <2>13, <2>14, <2>15, PutReading
<1>4. QED
  BY <1>2, <1>3

\* The last write: what has been replaced is all there is.
LEMMA SizeFileReading ==
    ASSUME Exclusive, CallIsRecord, Control, Reading, SizeFile
    PROVE  Reading'
<1> PICK i \in Inodes : i = call.ino
  BY ControlSplit DEF SizeFile, At, Idle
<1> DEFINE old == inodes[i]
           extents == IF call.done = 0 THEN <<>> ELSE old.extents
           inode == [old EXCEPT !.extents = extents,
                                !.size = Len(call.data), !.blocks = Len(call.data)]
<1>1. /\ call # Idle /\ call.pc = "data" /\ call.done = Len(call.data)
      /\ PutInode(i, inode) /\ Goto("flush") /\ UNCHANGED content
      /\ acked' = [acked EXCEPT ![i] = call.data] /\ torn' = torn \ {i}
  BY DEF SizeFile, At, Idle
<1>2. clean' \in BOOLEAN
  BY DEF SizeFile
<1>3. i \in Inodes /\ call.done \in Nat /\ DOMAIN call.data = 1..Len(call.data)
  BY <1>1, ControlSplit DEF DataPcs
<1>4. inode.extents = extents /\ inode.size = Len(call.data)
  BY <1>3 DEF Exclusive, InodeRecords
<1>5. call.done > 0 =>
        /\ Len(old.extents) = call.done
        /\ \A j \in 1..call.done : content[old.extents[j]].data = {call.data[j]}
  BY <1>1 DEF Reading, Copied, DataPcs
<1>6. /\ Len(extents) = call.done
      /\ \A j \in 1..call.done : content[extents[j]].data = {call.data[j]}
  <2>1. CASE call.done = 0
    BY <2>1
  <2>2. CASE call.done > 0
    <3>1. extents = old.extents
      BY <1>3, <2>2
    <3>2. QED
      BY <1>5, <2>2, <3>1
  <2>3. QED
    BY <1>3, <2>1, <2>2
<1>7. Len(extents) <= MaxExtents
  BY <1>3, <1>5, <1>6, MaxExtentsAssumption DEF Reading
<1> HIDE DEF inode, extents
<1>8. inodes'[i] = inode /\ acked'[i] = call.data
  BY <1>1, <1>3 DEF PutInode, Exclusive, Reading
<1>9. Intact(i)'
  <2>1. inodes'[i].size = call.done /\ Len(inodes'[i].extents) = call.done
    BY <1>1, <1>4, <1>6, <1>8
  <2>2. DOMAIN acked'[i] = 1..call.done
    BY <1>1, <1>3, <1>8
  <2>3. \A j \in 1..call.done : content'[inodes'[i].extents[j]].data = {acked'[i][j]}
    BY <1>1, <1>4, <1>6, <1>8
  <2>4. inodes'[i].size <= Len(inodes'[i].extents)
    BY <1>3, <2>1
  <2>5. DOMAIN acked'[i] = 1..inodes'[i].size
    BY <2>1, <2>2
  <2>6. \A j \in 1..inodes'[i].size :
            content'[inodes'[i].extents[j]].data = {acked'[i][j]}
    BY <2>1, <2>3
  <2>7. QED
    BY <2>4, <2>5, <2>6 DEF Intact
<1>10. call' # Idle /\ call'.pc = "flush"
  BY <1>1, GoesOn
<1>11. Copied'
  BY <1>10 DEF Copied, ParentPcs, DataPcs
<1>12. DOMAIN acked' = Inodes /\ torn' \subseteq Inodes /\ content' = content
  BY <1>1 DEF Reading
<1>13. \A k \in Inodes : k # i => acked'[k] = acked[k] /\ (k \in torn => k \in torn')
  BY <1>1
<1>14. QED
  BY <1>1, <1>2, <1>4, <1>7, <1>9, <1>11, <1>12, <1>13, PutReading

\* A new file's inode: it has nothing to read.
LEMMA WriteNewFileReading ==
    ASSUME Exclusive, CallIsRecord, Control, Reading, WriteNewFile
    PROVE  Reading'
<1> PICK i \in Inodes : i = call.ino
  BY ControlSplit DEF WriteNewFile, At, Idle
<1> DEFINE inode == NewInode("file", 1)
<1>1. /\ call # Idle /\ call.pc = "new_file" /\ PutInode(i, inode) /\ Goto("add")
      /\ acked' = [acked EXCEPT ![i] = <<>>] /\ UNCHANGED <<content, torn, clean>>
  BY DEF WriteNewFile, At, Idle
<1>2. i \in Inodes
  BY <1>1, ControlSplit
<1>3. inode.extents = <<>> /\ inode.size = 0 /\ Len(<<>>) = 0
  BY DEF NewInode, Unwritten
<1> HIDE DEF inode
<1>4. inodes'[i] = inode /\ acked'[i] = <<>>
  BY <1>1, <1>2 DEF PutInode, Exclusive, Reading
<1>5. DOMAIN <<>> = 1..0
  OBVIOUS
<1>6. Intact(i)'
  BY <1>3, <1>4, <1>5 DEF Intact
<1>7. Copied'
  BY <1>1, GoesOn, CopiedFrame DEF Reading, ParentPcs
<1>8. DOMAIN acked' = Inodes /\ torn' \subseteq Inodes /\ clean' \in BOOLEAN
  BY <1>1 DEF Reading
<1>9. \A k \in Inodes : k # i => acked'[k] = acked[k] /\ (k \in torn => k \in torn')
  BY <1>1
<1>10. Len(inode.extents) <= MaxExtents
  BY <1>3, MaxExtentsAssumption
<1>11. QED
  BY <1>1, <1>2, <1>6, <1>7, <1>8, <1>9, <1>10, PutReading

\* The writes of a directory's size and of its links.
LEMMA SizeDirReading ==
    ASSUME Exclusive, CallIsRecord, Control, Reading, SizeNewDir \/ SizeParent \/ CountLink
    PROVE  Reading'
<1>1. /\ call # Idle /\ call.pc \in {"size_dir", "size_parent", "links"}
      /\ UNCHANGED <<content, history>>
  BY DEF SizeNewDir, SizeParent, CountLink, At, Idle
<1>2. ASSUME NEW i \in Inodes, IsDir(i), NEW inode, PutInode(i, inode),
             inode.type = inodes[i].type, inode.extents = inodes[i].extents,
             NEW pc \in {"add", "links", "data", "flush"}, Goto(pc)
      PROVE  Reading'
  <2>1. inode.type = "dir" /\ Len(inode.extents) <= MaxExtents
    BY <1>2 DEF IsDir, Reading
  <2>2. call.pc \in ParentPcs /\ pc \in ParentPcs \cup {"data", "flush"}
    BY <1>1, <1>2 DEF ParentPcs
  <2>3. QED
    BY <1>1, <1>2, <2>1, <2>2, PutDirReading
<1>3. CASE SizeNewDir
  <2> DEFINE inode == [inodes[call.ino] EXCEPT !.size = 1, !.blocks = 1]
  <2>1. inode.type = inodes[call.ino].type /\ inode.extents = inodes[call.ino].extents
    OBVIOUS
  <2>2. PutInode(call.ino, inode) /\ Goto("add") /\ call.pc = "size_dir"
    BY <1>3 DEF SizeNewDir, At
  <2> HIDE DEF inode
  <2>3. call.ino \in Inodes /\ IsDir(call.ino)
    BY <1>1, <2>2, ControlSplit
  <2>4. QED
    BY <1>2, <2>1, <2>2, <2>3
<1>4. CASE SizeParent
  <2> DEFINE inode == [inodes[call.parent] EXCEPT !.size = @ + 1]
  <2>1. inode.type = inodes[call.parent].type /\ inode.extents = inodes[call.parent].extents
    OBVIOUS
  <2>2. PutInode(call.parent, inode)
    BY <1>4 DEF SizeParent
  <2>3. PICK pc \in {"links", "data"} : Goto(pc)
    BY <1>4 DEF SizeParent, AfterAdd
  <2> HIDE DEF inode
  <2>4. call.parent \in Inodes /\ IsDir(call.parent)
    BY <1>1, ControlSplit DEF ParentPcs
  <2>5. QED
    BY <1>2, <2>1, <2>2, <2>3, <2>4
<1>5. CASE CountLink
  <2> DEFINE inode == [inodes[call.parent] EXCEPT !.links = @ + 1]
  <2>1. inode.type = inodes[call.parent].type /\ inode.extents = inodes[call.parent].extents
    OBVIOUS
  <2>2. PutInode(call.parent, inode) /\ Goto("flush")
    BY <1>5 DEF CountLink
  <2> HIDE DEF inode
  <2>3. call.parent \in Inodes /\ IsDir(call.parent)
    BY <1>1, ControlSplit DEF ParentPcs
  <2>4. QED
    BY <1>2, <2>1, <2>2, <2>3
<1>6. QED
  BY <1>3, <1>4, <1>5

\* append_extent to a new directory, or to the parent.
LEMMA AppendDirReading ==
    ASSUME Exclusive, CallIsRecord, Control, Reading, WriteNewDir \/ AppendEntry
    PROVE  Reading'
<1>1. call # Idle /\ call.pc \in {"new_dir", "append_entry"} /\ HeldBlock # {}
  BY DEF WriteNewDir, AppendEntry, At, Idle, HeldBlock
<1>2. call.block \in Blocks /\ call.pc \in ParentPcs
  BY <1>1 DEF Exclusive, HeldIsUnmapped, ParentPcs
<1>3. CASE WriteNewDir
  <2>1. /\ NewInode("dir", 2).type = "dir" /\ NewInode("dir", 2).extents = <<>>
        /\ <<>> \in Seq(Blocks)
    BY DEF NewInode, Unwritten
  <2>2. call.ino \in Inodes /\ AppendExtentThen(call.ino, NewInode("dir", 2), "size_dir")
    BY <1>1, <1>3, ControlSplit DEF WriteNewDir, At
  <2>3. QED
    BY <1>1, <1>2, <2>1, <2>2, AppendExtentReading DEF ParentPcs
<1>4. CASE AppendEntry
  <2>1. call.parent \in Inodes /\ inodes[call.parent].type = "dir"
    BY <1>1, <1>2, ControlSplit DEF IsDir
  <2>2. inodes[call.parent].extents \in Seq(Blocks)
    BY <2>1, ExtentsAreBlocks
  <2>3. AppendExtentThen(call.parent, inodes[call.parent], "size_parent")
    BY <1>4 DEF AppendEntry
  <2>4. QED
    BY <1>1, <1>2, <2>1, <2>2, <2>3, AppendExtentReading DEF ParentPcs
<1>5. QED
  BY <1>3, <1>4

LEMMA AllocateInodeReading ==
    ASSUME CallIsRecord, Reading, AllocateInode
    PROVE  Reading'
<1>1. At("allocate_inode")
  BY Zenon DEF AllocateInode
<1>2. call # Idle /\ call.pc = "allocate_inode"
  BY <1>1 DEF At, Idle
<1>3. CASE Fail
  BY <1>3, FailReading
<1>4. CASE ~ Fail
  <2>1. PICK i : /\ call' = [call EXCEPT !.ino = i,
                                !.pc = IF call.op = "mkdir" THEN "allocate_dots" ELSE "new_file"]
                 /\ UNCHANGED <<inodes, content, history>>
    BY <1>4 DEF AllocateInode
  <2>2. /\ call' # Idle /\ call'.pc \in {"allocate_dots", "new_file"}
        /\ call'.done = call.done /\ call'.data = call.data
    BY <1>2, <2>1, GoesOnFor
  <2>3. Copied'
    BY <1>2, <2>2, CopiedFrame DEF Reading, ParentPcs
  <2>4. UNCHANGED <<inodes, content, acked, torn, clean>>
    BY <2>1 DEF history
  <2>5. QED
    BY <2>3, <2>4, ReadingFrame, ReadingSplit
<1>5. QED
  BY <1>3, <1>4

LEMMA ReadingNext ==
    ASSUME Exclusive, CallIsRecord, Control, Reading, Next
    PROVE  Reading'
<1>1. CASE WriteFile
  BY <1>1, StartReading, WritesAssumption DEF WriteFile
<1>2. CASE Mkdir
  <2>1. Len(<<>>) \in Nat
    OBVIOUS
  <2>2. QED
    BY <1>2, <2>1, StartReading DEF Mkdir
<1>3. CASE AllocateInode
  BY <1>3, AllocateInodeReading
<1>4. CASE AllocateDots \/ Grow \/ AllocateData
  BY <1>4, AllocateBlockReading DEF AllocateDots, Grow, AllocateData, At, Idle, ParentPcs
<1>5. CASE WriteNewFile
  BY <1>5, WriteNewFileReading
<1>6. CASE WriteDots \/ WriteEntry \/ WriteData
  BY <1>6, WriteHeldReading
<1>7. CASE AddInPlace
  BY <1>7, AddInPlaceReading
<1>8. CASE WriteNewDir \/ AppendEntry
  BY <1>8, AppendDirReading
<1>9. CASE SizeNewDir \/ SizeParent \/ CountLink
  BY <1>9, SizeDirReading
<1>10. CASE AppendData
  BY <1>10, AppendDataReading
<1>11. CASE SizeFile
  BY <1>11, SizeFileReading
<1>12. CASE Return
  <2>1. call' = Idle /\ UNCHANGED <<inodes, content, acked, torn, clean>>
    BY <1>12 DEF Return, disk, history
  <2>2. Copied'
    BY <2>1 DEF Copied
  <2>3. QED
    BY <2>1, <2>2, ReadingFrame, ReadingSplit
<1>13. CASE Abort
  BY <1>13, FailReading DEF Abort
<1>14. QED
  BY <1>1, <1>2, <1>3, <1>4, <1>5, <1>6, <1>7, <1>8, <1>9, <1>10, <1>11, <1>12, <1>13
     DEF Next, Step

-----------------------------------------------------------------------------
(* The beginning, and the theorems.                                        *)

LEMMA ControlInit == Init => Control
BY ImagesAssumption DEF Init, Control, Written

LEMMA ReadingInit == Init => Reading
<1>1. SUFFICES ASSUME Init PROVE Reading
  OBVIOUS
<1>2. PICK image \in Images :
        /\ inodes = image.inodes
        /\ content = image.content
        /\ acked = [i \in Inodes |->
            IF image.inodes[i].type = "file"
            THEN [j \in 1..image.inodes[i].size |->
                    CHOOSE d \in image.content[image.inodes[i].extents[j]].data : TRUE]
            ELSE <<>>]
  BY <1>1 DEF Init
<1>3. torn = {} /\ clean = TRUE /\ Copied
  BY <1>1 DEF Init, Copied
<1>4. DOMAIN content = Blocks /\ \A i \in Inodes : Len(inodes[i].extents) <= MaxExtents
  BY <1>2, ImagesAssumption
<1>5. ASSUME NEW i \in Inodes, IsFile(i)
      PROVE  Intact(i)
  <2>1. inodes[i].size <= Len(inodes[i].extents)
    BY <1>2, <1>5, ImagesAssumption DEF IsFile
  <2>2. acked[i] = [j \in 1..inodes[i].size |->
                        CHOOSE d \in content[inodes[i].extents[j]].data : TRUE]
    BY <1>2, <1>5 DEF IsFile
  <2>3. ASSUME NEW j \in 1..inodes[i].size
        PROVE  content[inodes[i].extents[j]].data = {acked[i][j]}
    <3> DEFINE held == content[inodes[i].extents[j]].data
    <3>1. PICK d \in held : held = {d}
      <4>1. image.inodes[i].type = "file" =>
                \A m \in 1..image.inodes[i].size :
                    \E e \in image.content[image.inodes[i].extents[m]].data :
                        image.content[image.inodes[i].extents[m]].data = {e}
        BY ImagesAssumption
      <4>2. QED
        BY <1>2, <1>5, <2>3, <4>1 DEF IsFile
    <3>2. (CHOOSE e \in held : TRUE) = d
      BY <3>1
    <3>3. QED
      BY <2>2, <2>3, <3>1, <3>2
  <2>4. QED
    BY <2>1, <2>2, <2>3 DEF Intact
<1>6. \A i \in Inodes : Intact(i)
  BY <1>5 DEF Intact
<1>7. QED
  BY <1>2, <1>3, <1>4, <1>6 DEF Reading

LEMMA Invariant == Spec => [](Exclusive /\ CallIsRecord /\ Control /\ Reading)
<1> DEFINE Inv == Exclusive /\ CallIsRecord /\ Control /\ Reading
<1>1. Init => Inv
  BY ExclusiveInit, CallInit, ControlInit, ReadingInit
<1>2. Inv /\ [Next]_vars => Inv'
  <2> SUFFICES ASSUME Inv, [Next]_vars
               PROVE  Inv'
    OBVIOUS
  <2>1. CASE Next
    BY <2>1, ExclusiveNext, CallNext, ControlNext, ReadingNext
  <2>2. CASE UNCHANGED vars
    <3>1. UNCHANGED <<inodes, content, taken, call, acked, torn, clean>>
      BY <2>2 DEF vars
    <3>2. (Exclusive /\ CallIsRecord)'
      BY <3>1 DEF Exclusive, NoSharedBlock, Unshared, Marked, HeldIsUnmapped, HeldBlock,
           CallIsRecord
    <3>3. Control'
      BY <3>1 DEF Control, IsDir
    <3>4. Copied'
      BY <3>1 DEF Reading, Copied
    <3>5. Reading'
      BY <3>1, <3>4, ReadingFrame, ReadingSplit
    <3>6. QED
      BY <3>2, <3>3, <3>5
  <2>3. QED
    BY <2>1, <2>2
<1>3. QED
  BY <1>1, <1>2, PTL DEF Spec

\* The variables of write_file and mkdir keep their types, and no call writes
\* an inode whose root node has more entries than fit into it.
THEOREM FileOpsTypeCorrect == Spec => []TypeOK
<1>1. Exclusive /\ Reading => TypeOK
  BY DEF Exclusive, Reading, TypeOK
<1>2. QED
  BY <1>1, Invariant, PTL

\* A file that is not torn reads as what it was last completely written with.
LEMMA IntactReads ==
    ASSUME Exclusive, Reading, NEW i \in Inodes, IsFile(i), i \notin torn
    PROVE  ReadFile(i) = Reads(acked[i]) /\ inodes[i].size <= Len(inodes[i].extents)
<1>1. /\ inodes[i].size <= Len(inodes[i].extents)
      /\ DOMAIN acked[i] = 1..inodes[i].size
      /\ \A j \in 1..inodes[i].size : content[inodes[i].extents[j]].data = {acked[i][j]}
  BY DEF Reading, Intact
<1>2. inodes[i].size \in Nat /\ Len(inodes[i].extents) \in Nat
  BY ExtentsAreBlocks
<1>3. ReadFile(i) = [j \in 1..inodes[i].size |-> content[inodes[i].extents[j]].data]
  BY <1>1, <1>2 DEF ReadFile
<1>4. Reads(acked[i]) = [j \in 1..inodes[i].size |-> {acked[i][j]}]
  BY <1>1 DEF Reads
<1>5. QED
  BY <1>1, <1>3, <1>4

\* Whatever calls, errors and losses of power have come before, and in the
\* middle of any call, a file reads as what write_file last wrote into it with
\* Ok: its data reach the disk before the extents that map them, the size is
\* written last, and no other call writes a block that the file maps.
THEOREM FilesReadBackCorrect == Spec => []FilesReadBack
<1>1. Exclusive /\ Reading => FilesReadBack
  BY IntactReads DEF FilesReadBack
<1>2. QED
  BY <1>1, Invariant, PTL

-----------------------------------------------------------------------------
(* Links: what directories list.                                           *)

\* A block that lists inodes that were written, and the blocks of a directory
\* that begins with "." and "..".
ListsWritten(entries, table) ==
    /\ IsDirBlock(entries, Inodes)
    /\ WellFormed(entries)
    /\ \A o \in Live(entries) : table[entries[o].ino].type # "unwritten"
ListingOf(i, blocks, table) ==
    /\ DOMAIN blocks \in SUBSET (Nat \ {0})
    /\ \A m \in DOMAIN blocks : ListsWritten(blocks[m], table)
    /\ BeginsWithDots(blocks, i)

\* What the blocks of an inode hold.
SoundInode(i) ==
    /\ IsDir(i) => ListingOf(i, DirBlocks(i), inodes)
    /\ IsFile(i) => \A m \in DOMAIN inodes[i].extents : content[inodes[i].extents[m]].data # {}

\* What a call in progress is about to link.
AddPcs == {"add", "write_entry", "append_entry", "size_parent"}
CallLinks ==
    call # Idle =>
        /\ call.pc \in ParentPcs => call.name \in Names
        /\ call.pc \in NewPcs => inodes[call.ino].type = "unwritten"
        /\ call.pc \in {"allocate_dots", "write_dots", "new_dir", "size_dir", "links"} =>
            call.op = "mkdir"
        /\ call.pc = "new_file" => call.op # "mkdir"
        /\ call.pc \in AddPcs =>
            inodes[call.ino].type = IF call.op = "mkdir" THEN "dir" ELSE "file"
        /\ call.pc \in DataPcs => IsFile(call.ino)
        /\ call.pc = "new_dir" => content[call.block].entries = Dots(call.ino, call.parent)
        /\ call.pc = "append_entry" =>
            content[call.block].entries = FreshBlock(call.ino, call.name)

Linking == CallLinks /\ \A i \in Inodes : SoundInode(i)

\* An entry in use names an inode.
LEMMA EntryNamesInode ==
    ASSUME NEW entries, IsDirBlock(entries, Inodes), NEW o \in Live(entries)
    PROVE  /\ entries[o].ino \in Inodes /\ entries[o].name \in Names
           /\ o \in Chain(entries) /\ o \in DOMAIN entries
<1>1. IsBlock(entries)
  BY DirBlockIsBlock
<1>2. o \in Chain(entries) /\ entries[o].ino # Deleted
  BY DEF Live
<1>3. o \in DOMAIN entries
  BY <1>1, <1>2, ChainClosed DEF Begins
<1>4. entries[o] \in Records(Inodes)
  BY <1>3 DEF IsDirBlock
<1>5. QED
  BY <1>2, <1>3, <1>4 DEF Records

\* The first two entries of a block are what their names are looked up as.
LEMMA FirstEntries ==
    ASSUME NEW entries, IsBlock(entries), NEW w, 0 \in Live(entries), w \in Live(entries),
           entries[0].rec = w, entries[w].name # entries[0].name
    PROVE  /\ LookupInBlock(entries, entries[0].name) = entries[0].ino
           /\ LookupInBlock(entries, entries[w].name) = entries[w].ino
<1>1. /\ 0 \in Chain(entries) /\ w \in Chain(entries)
      /\ \A o \in Live(entries) : o \in Chain(entries)
  BY DEF Live
<1>2. \A o \in Chain(entries) : o \in Nat
  BY <1>1, ChainClosed, AfterIsOffset, DirAssumption DEF Offsets
<1>3. \A o \in Chain(entries) : 0 < o => w <= o
  <2>1. After(entries, 0) = w
    BY <1>1, <1>2 DEF After
  <2>2. QED
    BY <1>1, <2>1, ChainOrdered
<1>4. 0 \in Matches(entries, entries[0].name) /\ w \in Matches(entries, entries[w].name)
  BY DEF Matches
<1>5. \A o \in Matches(entries, entries[0].name) : o \in Nat
  BY <1>1, <1>2 DEF Matches
<1>6. \A o \in Matches(entries, entries[w].name) : o \in Nat /\ w <= o
  BY <1>1, <1>2, <1>3 DEF Matches
<1>7. ASSUME NEW first, NEW name, first \in Matches(entries, name), first \in Nat,
             \A o \in Matches(entries, name) : o \in Nat /\ first <= o
      PROVE  LookupInBlock(entries, name) = entries[first].ino
  <2>1. PICK o \in Matches(entries, name) :
            /\ LookupInBlock(entries, name) = entries[o].ino
            /\ \A q \in Matches(entries, name) : o <= q
    BY <1>7, LookupInBlockFinds
  <2>2. o \in Nat /\ first <= o /\ o <= first
    BY <1>7, <2>1
  <2>3. o = first
    BY <1>7, <2>2
  <2>4. QED
    BY <2>1, <2>3
<1>8. LookupInBlock(entries, entries[0].name) = entries[0].ino
  <2>1. \A o \in Matches(entries, entries[0].name) : o \in Nat /\ 0 <= o
    BY <1>5
  <2>2. QED
    BY <1>4, <1>7, <2>1
<1>9. w \in Nat
  BY <1>1, <1>2
<1>10. LookupInBlock(entries, entries[w].name) = entries[w].ino
  BY <1>4, <1>6, <1>7, <1>9
<1>11. QED
  BY <1>8, <1>10

\* What the first block of a directory has is what the directory has.
LEMMA FirstBlockListing ==
    ASSUME NEW blocks, DOMAIN blocks \in SUBSET Nat, \A k \in DOMAIN blocks : ~ k < 1,
           NEW name, NEW i, i # Deleted,
           1 \in DOMAIN blocks, LookupInBlock(blocks[1], name) = i
    PROVE  LookupInDir(blocks, name) = i
BY LookupInDirFirst

\* What a directory that begins with "." and ".." lists them as.
LEMMA DotsListed ==
    ASSUME NEW i, NEW blocks, NEW table, ListingOf(i, blocks, table)
    PROVE  /\ LookupInDir(blocks, Dot) = i
           /\ LookupInDir(blocks, DotDot) = blocks[1][NameWords[Dot]].ino
           /\ i \in Inodes /\ blocks[1][NameWords[Dot]].ino \in Inodes
           /\ LookupInBlock(blocks[1], Dot) = i
<1> DEFINE w == NameWords[Dot]
<1>1. /\ 1 \in DOMAIN blocks
      /\ 0 \in Live(blocks[1]) /\ w \in Live(blocks[1])
      /\ blocks[1][0] = Entry(i, w, Dot) /\ blocks[1][w].name = DotDot
  BY DEF ListingOf, BeginsWithDots
<1>2. blocks[1][0].ino = i /\ blocks[1][0].rec = w /\ blocks[1][0].name = Dot
  BY <1>1 DEF Entry
<1>3. IsDirBlock(blocks[1], Inodes) /\ IsBlock(blocks[1])
  BY <1>1, DirBlockIsBlock DEF ListingOf, ListsWritten
<1> HIDE DEF w
<1>4. LookupInBlock(blocks[1], Dot) = i /\ LookupInBlock(blocks[1], DotDot) = blocks[1][w].ino
  BY <1>1, <1>2, <1>3, FirstEntries, DotsAssumption
<1>5. i \in Inodes /\ blocks[1][w].ino \in Inodes
  BY <1>1, <1>2, <1>3, EntryNamesInode
<1>6. i # Deleted /\ blocks[1][w].ino # Deleted
  BY <1>5, DotsAssumption
<1>7. DOMAIN blocks \in SUBSET Nat /\ \A k \in DOMAIN blocks : ~ k < 1
  BY DEF ListingOf
<1>8. LookupInDir(blocks, Dot) = i
  BY <1>1, <1>4, <1>6, <1>7, FirstBlockListing
<1>9. LookupInDir(blocks, DotDot) = blocks[1][w].ino
  BY <1>1, <1>4, <1>6, <1>7, FirstBlockListing
<1>10. QED
  BY <1>4, <1>5, <1>8, <1>9 DEF w

\* No inode that was written becomes unwritten, and so listings stay sound.
LEMMA ListingStays ==
    ASSUME NEW i, NEW blocks, NEW table, NEW other, ListingOf(i, blocks, table),
           \A k \in Inodes : table[k].type # "unwritten" => other[k].type # "unwritten"
    PROVE  ListingOf(i, blocks, other)
<1>1. ASSUME NEW m \in DOMAIN blocks
      PROVE  ListsWritten(blocks[m], other)
  BY EntryNamesInode DEF ListingOf, ListsWritten
<1>2. QED
  BY <1>1 DEF ListingOf

\* An inode stays sound when it and the blocks it maps are left alone.
LEMMA SoundFrame ==
    ASSUME NEW i \in Inodes, SoundInode(i),
           inodes'[i].type = inodes[i].type, inodes'[i].extents = inodes[i].extents,
           \A m \in DOMAIN inodes[i].extents :
                content'[inodes[i].extents[m]] = content[inodes[i].extents[m]],
           \A k \in Inodes : inodes[k].type # "unwritten" => inodes'[k].type # "unwritten"
    PROVE  SoundInode(i)' /\ DirBlocks(i)' = DirBlocks(i)
<1>1. DirBlocks(i)' = DirBlocks(i)
  BY DEF DirBlocks, BlocksOf
<1>2. IsDir(i)' => ListingOf(i, DirBlocks(i)', inodes')
  BY <1>1, ListingStays DEF SoundInode, IsDir
<1>3. IsFile(i)' => \A m \in DOMAIN inodes'[i].extents :
                        content'[inodes'[i].extents[m]].data # {}
  BY DEF SoundInode, IsFile
<1>4. QED
  BY <1>1, <1>2, <1>3 DEF SoundInode

\* A block that lists one name, and the block of "." and "..".
LEMMA FreshNames ==
    ASSUME NEW name \in Names, NEW ino \in Inodes, NEW table,
           table[ino].type # "unwritten"
    PROVE  /\ ListsWritten(FreshBlock(ino, name), table)
           /\ \A n \in Names : n # name => LookupInBlock(FreshBlock(ino, name), n) = Deleted
<1> DEFINE new == FreshBlock(ino, name)
<1>1. IsBlock(new) /\ WellFormed(new) /\ Chain(new) = {0} /\ new[0] = Entry(ino, BlockWords, name)
  BY FreshBlockChain
<1>2. new[0].ino = ino /\ new[0].name = name
  BY <1>1 DEF Entry
<1>3. Live(new) \subseteq {0}
  BY <1>1 DEF Live
<1>4. IsDirBlock(new, Inodes)
  BY FreshIsDirBlock
<1> HIDE DEF new
<1>5. \A n \in Names : n # name => Matches(new, n) = {}
  BY <1>2, <1>3 DEF Matches
<1>6. \A n \in Names : n # name => LookupInBlock(new, n) = Deleted
  BY <1>1, <1>5, LookupInBlockFinds
<1>7. ListsWritten(new, table)
  BY <1>1, <1>2, <1>3, <1>4 DEF ListsWritten
<1>8. QED
  BY <1>6, <1>7 DEF new

LEMMA DotsAre ==
    ASSUME NEW self \in Inodes, NEW parent \in Inodes
    PROVE  LET block == Dots(self, parent)
           IN  /\ IsDirBlock(block, Inodes) /\ WellFormed(block)
               /\ \A o \in Live(block) :
                    block[o].ino \in {self, parent} /\ block[o].name \in {Dot, DotDot}
               /\ {0, NameWords[Dot]} \subseteq Live(block)
               /\ block[0] = Entry(self, NameWords[Dot], Dot)
               /\ block[NameWords[Dot]].name = DotDot
               /\ block[NameWords[Dot]].ino = parent
<1> DEFINE w == NameWords[Dot]
           block == Dots(self, parent)
<1>1. /\ w \in Nat /\ w > 2 /\ NameWords[DotDot] \in Nat /\ NameWords[DotDot] > 2
      /\ w + NameWords[DotDot] <= BlockWords /\ BlockWords \in Nat
  BY DirAssumption, DotsAssumption DEF MinWords
<1>2. self # Deleted /\ parent # Deleted
  BY DotsAssumption
<1>3. /\ DOMAIN block = {0, w}
      /\ block[0] = Entry(self, w, Dot)
      /\ block[w] = Entry(parent, BlockWords - w, DotDot)
  BY <1>1 DEF Dots
<1>4. /\ block[0].ino = self /\ block[0].rec = w /\ block[0].name = Dot
      /\ block[w].ino = parent /\ block[w].rec = BlockWords - w /\ block[w].name = DotDot
  BY <1>3 DEF Entry
<1>5. ActualSize(block[0]) = w /\ ActualSize(block[w]) = NameWords[DotDot]
  BY <1>4 DEF ActualSize
<1>6. IsDirBlock(block, Inodes)
  <2>1. Entry(self, w, Dot) \in Records(Inodes) /\ Entry(parent, BlockWords - w, DotDot) \in Records(Inodes)
    BY <1>1, DotsAssumption DEF Entry, Records
  <2>2. {0, w} \subseteq 0..(BlockWords - 1)
    BY <1>1
  <2>3. block \in [DOMAIN block -> Records(Inodes)]
    BY <1>3, <2>1 DEF Dots
  <2>4. QED
    BY <1>3, <2>2, <2>3 DEF IsDirBlock
<1> HIDE DEF block
<1>7. IsBlock(block)
  BY <1>6, DirBlockIsBlock
<1>8. /\ Begins(block, 0) /\ After(block, 0) = w
      /\ Begins(block, w) /\ After(block, w) = BlockWords
  BY <1>1, <1>3, <1>4, <1>5 DEF Begins, After, Parses, MinWords
<1>9. Chain(block) = {0, w}
  <2>1. 0 \in Chain(block)
    BY <1>7, <1>8, ChainClosed
  <2>2. w \in Chain(block)
    BY <1>7, <1>8, <2>1, ChainClosed
  <2>3. \A o \in Chain(block) : o \in DOMAIN block
    BY <1>7, ChainClosed DEF Begins
  <2>4. QED
    BY <1>3, <2>1, <2>2, <2>3
<1>10. WellFormed(block)
  BY <1>1, <1>4, <1>5, <1>9 DEF WellFormed
<1>11. Live(block) = {0, w}
  BY <1>2, <1>4, <1>9 DEF Live
<1>12. QED
  BY <1>3, <1>4, <1>6, <1>10, <1>11 DEF block

\* The one block of a new directory.
LEMMA DotsList ==
    ASSUME NEW self \in Inodes, NEW parent \in Inodes, NEW table,
           table[self].type # "unwritten", table[parent].type # "unwritten",
           NEW blocks, blocks = <<Dots(self, parent)>>
    PROVE  ListingOf(self, blocks, table) /\ LookupInDir(blocks, DotDot) = parent
<1> DEFINE block == Dots(self, parent)
<1>1. DOMAIN blocks = {1} /\ blocks[1] = block
  OBVIOUS
<1>2. /\ IsDirBlock(block, Inodes) /\ WellFormed(block)
      /\ \A o \in Live(block) : block[o].ino \in {self, parent}
      /\ {0, NameWords[Dot]} \subseteq Live(block)
      /\ block[0] = Entry(self, NameWords[Dot], Dot)
      /\ block[NameWords[Dot]].name = DotDot
      /\ block[NameWords[Dot]].ino = parent
  BY DotsAre
<1> HIDE DEF block
<1>3. ListsWritten(block, table)
  BY <1>2 DEF ListsWritten
<1>4. {1} \in SUBSET (Nat \ {0})
  OBVIOUS
<1>5. ListingOf(self, blocks, table)
  BY <1>1, <1>2, <1>3, <1>4 DEF ListingOf, BeginsWithDots
<1>6. QED
  BY <1>1, <1>2, <1>5, DotsListed

\* Listings stay such, and their parent the same, when they lose no entry.
LEMMA ListingKept ==
    ASSUME NEW i, NEW blocks, NEW others, NEW table, ListingOf(i, blocks, table),
           DOMAIN blocks \subseteq DOMAIN others, DOMAIN others \in SUBSET (Nat \ {0}),
           \A m \in DOMAIN others : ListsWritten(others[m], table),
           \A m \in DOMAIN blocks : \A o \in Live(blocks[m]) :
                o \in Live(others[m]) /\ others[m][o] = blocks[m][o]
    PROVE  ListingOf(i, others, table) /\ LookupInDir(others, DotDot) = LookupInDir(blocks, DotDot)
<1>1. /\ 1 \in DOMAIN blocks
      /\ 0 \in Live(blocks[1]) /\ NameWords[Dot] \in Live(blocks[1])
      /\ blocks[1][0] = Entry(i, NameWords[Dot], Dot)
      /\ blocks[1][NameWords[Dot]].name = DotDot
  BY DEF ListingOf, BeginsWithDots
<1>2. /\ 1 \in DOMAIN others
      /\ 0 \in Live(others[1]) /\ others[1][0] = blocks[1][0]
      /\ NameWords[Dot] \in Live(others[1])
      /\ others[1][NameWords[Dot]] = blocks[1][NameWords[Dot]]
  BY <1>1
<1>3. ListingOf(i, others, table)
  BY <1>1, <1>2 DEF ListingOf, BeginsWithDots
<1>4. QED
  BY <1>2, <1>3, DotsListed

\* A new entry, of an inode that was written.
Gains(name, entries, table, after) ==
    /\ ListsWritten(after, table)
    /\ \A n \in Names : n # name => LookupInBlock(after, n) = LookupInBlock(entries, n)
    /\ \A o \in Live(entries) : o \in Live(after) /\ after[o] = entries[o]

LEMMA InsertLists ==
    ASSUME NEW entries, NEW table, ListsWritten(entries, table),
           NEW name \in Names, NEW ino \in Inodes, table[ino].type # "unwritten",
           NEW p \in FindSpace(entries, NameWords[name]),
           NEW after, after = InsertEntry(entries, p.at, Entry(ino, p.rec, name))
    PROVE  Gains(name, entries, table, after)
<1>1. IsDirBlock(entries, Inodes) /\ IsBlock(entries) /\ WellFormed(entries)
  BY DirBlockIsBlock DEF ListsWritten
<1>2. ino # Deleted
  BY DotsAssumption
<1>3. Inserts(entries, p, ino, name, after)
  BY <1>1, InsertKeepsChain
<1>4. Shows(entries, p, ino, name, after)
  BY <1>1, <1>2, InsertLookup
<1>5. IsDirBlock(after, Inodes)
  BY <1>1, InsertIsDirBlock
<1>6. /\ \A o \in Live(entries) : o \in Live(after) /\ after[o] = entries[o]
      /\ \A o \in Live(after) : o \in Live(entries) \/ o = p.at
      /\ \A n \in Names : n # name => LookupInBlock(after, n) = LookupInBlock(entries, n)
  BY <1>4 DEF Shows
<1>7. WellFormed(after) /\ after[p.at] = Entry(ino, p.rec, name)
  BY <1>3 DEF Inserts
<1>8. after[p.at].ino = ino
  BY <1>7 DEF Entry
<1>9. ASSUME NEW o \in Live(after)
      PROVE  table[after[o].ino].type # "unwritten"
  <2>1. CASE o = p.at
    BY <1>8, <2>1
  <2>2. CASE o \in Live(entries)
    BY <1>6, <2>2 DEF ListsWritten
  <2>3. QED
    BY <1>6, <2>1, <2>2
<1>10. QED
  BY <1>5, <1>6, <1>7, <1>9 DEF ListsWritten, Gains

-----------------------------------------------------------------------------
(* What a step leaves of a directory.                                      *)

\* The entries of its blocks, and its parent.
ParentKept(d) == IsDir(d) => IsDir(d)' /\ Lookup(d, DotDot)' = Lookup(d, DotDot)
EntriesKeptIn(d) ==
    IsDir(d) =>
        /\ IsPrefix(inodes[d].extents, inodes'[d].extents)
        /\ \A b \in ToSet(inodes[d].extents) : content'[b] # content[b] =>
            LET before == content[b].entries
                after == content'[b].entries
            IN  \A o \in Live(before) : o \in Live(after) /\ after[o] = before[o]
DirKept(d) == ParentKept(d) /\ EntriesKeptIn(d)

LEMMA PrefixIs ==
    ASSUME NEW s \in Seq(Blocks), NEW t \in Seq(Blocks), Len(s) <= Len(t),
           \A k \in 1..Len(s) : s[k] = t[k]
    PROVE  IsPrefix(s, t)
BY DEF IsPrefix

LEMMA KeptFrame ==
    ASSUME Exclusive, NEW i \in Inodes, SoundInode(i),
           inodes'[i].type = inodes[i].type, inodes'[i].extents = inodes[i].extents,
           \A m \in DOMAIN inodes[i].extents :
                content'[inodes[i].extents[m]] = content[inodes[i].extents[m]],
           \A k \in Inodes : inodes[k].type # "unwritten" => inodes'[k].type # "unwritten"
    PROVE  SoundInode(i)' /\ DirKept(i)
<1>1. SoundInode(i)' /\ DirBlocks(i)' = DirBlocks(i)
  BY SoundFrame
<1>2. ParentKept(i)
  BY <1>1 DEF ParentKept, IsDir, Lookup
<1>3. IsPrefix(inodes[i].extents, inodes'[i].extents)
  <2>1. inodes[i].extents \in Seq(Blocks) /\ Len(inodes[i].extents) \in Nat
    BY ExtentsAreBlocks
  <2>2. QED
    BY <2>1, PrefixIs
<1>4. \A b \in ToSet(inodes[i].extents) : content'[b] = content[b]
  BY DEF ToSet
<1>5. QED
  BY <1>1, <1>2, <1>3, <1>4 DEF DirKept, EntriesKeptIn

\* Steps that write neither inode nor block.
LEMMA LinkingFrame ==
    ASSUME Exclusive, Linking, UNCHANGED <<inodes, content>>, CallLinks'
    PROVE  Linking' /\ \A d \in Inodes : DirKept(d)
<1>1. \A i \in Inodes : SoundInode(i)' /\ DirKept(i)
  BY KeptFrame DEF Linking
<1>2. QED
  BY <1>1 DEF Linking

\* The write of a block that nobody maps.
LEMMA PutBlockLinks ==
    ASSUME Exclusive, Reading, Linking, NEW b, NEW what, PutBlock(b, what), UNCHANGED inodes,
           \A i \in Inodes : \A m \in DOMAIN inodes[i].extents : inodes[i].extents[m] # b,
           CallLinks'
    PROVE  Linking' /\ \A d \in Inodes : DirKept(d)
<1>1. ASSUME NEW i \in Inodes
      PROVE  SoundInode(i)' /\ DirKept(i)
  <2>1. \A m \in DOMAIN inodes[i].extents :
            content'[inodes[i].extents[m]] = content[inodes[i].extents[m]]
    <3>1. \A c \in Blocks : c # b => content'[c] = content[c]
      BY DEF PutBlock, Reading
    <3>2. \A m \in DOMAIN inodes[i].extents : inodes[i].extents[m] \in Blocks
      BY ExtentsAreBlocks
    <3>3. QED
      BY <3>1, <3>2
  <2>2. QED
    BY <2>1, KeptFrame DEF Linking
<1>2. QED
  BY <1>1 DEF Linking

-----------------------------------------------------------------------------
(* Steps that write neither inode nor block.                               *)

LEMMA IdleLinks == call = Idle => CallLinks
BY DEF CallLinks

LEMMA FailLinks ==
    ASSUME Exclusive, Linking, Fail
    PROVE  Linking' /\ \A d \in Inodes : DirKept(d)
<1>1. CallLinks'
  BY DEF Fail, CallLinks
<1>2. QED
  BY <1>1, LinkingFrame DEF Fail, disk

LEMMA StartLinks ==
    ASSUME Exclusive, Linking, NEW op, NEW path, NEW name \in Names, NEW data,
           Start(op, path, name, data)
    PROVE  Linking' /\ \A d \in Inodes : DirKept(d)
<1> DEFINE new == [pc |-> "allocate_inode", op |-> op, parent |-> Resolve(path), name |-> name,
                   data |-> data, ino |-> Root, block |-> CHOOSE b \in Blocks : TRUE,
                   done |-> 0]
<1>1. UNCHANGED <<inodes, content>>
  BY DEF Start, disk
<1>2. \/ call' = new
      \/ \E f \in Inodes : IsFile(f) /\ call' = [new EXCEPT !.pc = "data", !.ino = f]
  BY Zenon DEF Start
<1>3. new.name = name /\ new.pc = "allocate_inode"
  OBVIOUS
<1>4. \A f : [new EXCEPT !.pc = "data", !.ino = f].pc = "data"
             /\ [new EXCEPT !.pc = "data", !.ino = f].ino = f
  OBVIOUS
<1> HIDE DEF new
<1>5. CASE call' = new
  <2>1. call'.pc = "allocate_inode" /\ call'.name = name
    BY <1>5, <1>3
  <2>2. CallLinks'
    BY <2>1 DEF CallLinks, NewPcs, AddPcs, DataPcs
  <2>3. QED
    BY <1>1, <2>2, LinkingFrame
<1>6. CASE \E f \in Inodes : IsFile(f) /\ call' = [new EXCEPT !.pc = "data", !.ino = f]
  <2>1. PICK f \in Inodes : IsFile(f) /\ call' = [new EXCEPT !.pc = "data", !.ino = f]
    BY <1>6
  <2>2. call'.pc = "data" /\ call'.ino = f
    BY <1>4, <2>1
  <2>3. IsFile(f)'
    BY <1>1, <2>1 DEF IsFile
  <2>4. CallLinks'
    BY <2>2, <2>3 DEF CallLinks, NewPcs, AddPcs, DataPcs, ParentPcs
  <2>5. QED
    BY <1>1, <2>4, LinkingFrame
<1>7. QED
  BY <1>5, <1>6, <1>2

LEMMA AllocateInodeLinks ==
    ASSUME Exclusive, CallIsRecord, Control, Linking, AllocateInode
    PROVE  Linking' /\ \A d \in Inodes : DirKept(d)
<1>1. At("allocate_inode")
  BY Zenon DEF AllocateInode
<1>2. call # Idle /\ call.pc = "allocate_inode"
  BY <1>1 DEF At, Idle
<1>3. CASE Fail
  BY <1>3, FailLinks
<1>4. CASE ~ Fail
  <2>1. PICK i \in Candidates(Inodes \ taken.inode) :
            /\ call' = [call EXCEPT !.ino = i,
                            !.pc = IF call.op = "mkdir" THEN "allocate_dots" ELSE "new_file"]
            /\ UNCHANGED <<inodes, content, history>>
    BY <1>4 DEF AllocateInode
  <2>2. i \in Inodes \ taken.inode
    <3>1. Inodes \ taken.inode \in SUBSET Inodes
      OBVIOUS
    <3>2. QED
      BY <2>1, <3>1, CandidatesAssumption
  <2>3. inodes[i].type = "unwritten"
    BY <2>2 DEF Control
  <2>4. /\ call'.pc = IF call.op = "mkdir" THEN "allocate_dots" ELSE "new_file"
        /\ call'.ino = i /\ call'.name = call.name /\ call'.op = call.op
    BY <1>2, <2>1, GoesOnFor
  <2>5. call.name \in Names
    BY <1>2 DEF Linking, CallLinks, ParentPcs
  <2>6. CallLinks'
    BY <2>1, <2>3, <2>4, <2>5 DEF CallLinks, AddPcs, DataPcs
  <2>7. QED
    BY <2>1, <2>6, LinkingFrame
<1>5. QED
  BY <1>3, <1>4

LEMMA AllocateBlockLinks ==
    ASSUME Exclusive, CallIsRecord, Control, Linking, AllocateDots \/ Grow \/ AllocateData
    PROVE  Linking' /\ \A d \in Inodes : DirKept(d)
<1>1. ASSUME NEW from, NEW to, call # Idle, call.pc = from, AllocateBlockThen(to),
             \/ from = "allocate_dots" /\ to = "write_dots"
             \/ from = "add" /\ to = "write_entry"
             \/ from = "data" /\ to = "write_data"
      PROVE  Linking' /\ \A d \in Inodes : DirKept(d)
  <2>1. CASE Fail
    BY <2>1, FailLinks
  <2>2. CASE ~ Fail
    <3>1. PICK b : /\ call' = [call EXCEPT !.pc = to, !.block = b]
                   /\ UNCHANGED <<inodes, content, history>>
      BY <1>1, <2>2 DEF AllocateBlockThen
    <3>2. /\ call'.pc = to /\ call'.ino = call.ino /\ call'.name = call.name
          /\ call'.op = call.op
      BY <1>1, <3>1, GoesOnWith
    <3>3. CallLinks
      BY DEF Linking
    <3>4. CallLinks'
      BY <1>1, <3>1, <3>2, <3>3 DEF CallLinks, NewPcs, AddPcs, DataPcs, ParentPcs, IsFile
    <3>5. QED
      BY <3>1, <3>4, LinkingFrame
  <2>3. QED
    BY <2>1, <2>2
<1>2. CASE AllocateDots
  BY <1>1, <1>2 DEF AllocateDots, At, Idle
<1>3. CASE Grow
  BY <1>1, <1>3 DEF Grow, At, Idle
<1>4. CASE AllocateData
  BY <1>1, <1>4 DEF AllocateData, At, Idle
<1>5. QED
  BY <1>2, <1>3, <1>4

-----------------------------------------------------------------------------
(* Steps that write a block.                                               *)

\* The block that the call has allocated and that no inode maps.
LEMMA WriteHeldLinks ==
    ASSUME Exclusive, CallIsRecord, Control, Reading, Linking, WriteDots \/ WriteEntry \/ WriteData
    PROVE  Linking' /\ \A d \in Inodes : DirKept(d)
<1>1. call # Idle /\ HeldBlock # {} /\ UNCHANGED inodes
  BY DEF WriteDots, WriteEntry, WriteData, HeldBlock, At, Idle
<1>2. /\ call.block \in Blocks
      /\ \A i \in Inodes : \A m \in DOMAIN inodes[i].extents : inodes[i].extents[m] # call.block
  BY <1>1 DEF Exclusive, HeldIsUnmapped
<1>3. ASSUME NEW what, PutBlock(call.block, what)
      PROVE  content'[call.block] = what
  BY <1>2, <1>3 DEF PutBlock, Reading
<1>4. CallLinks
  BY DEF Linking
<1>5. CASE WriteDots
  <2>1. /\ call.pc = "write_dots" /\ Goto("new_dir")
        /\ PutBlock(call.block, Lists(Dots(call.ino, call.parent)))
    BY <1>5 DEF WriteDots, At
  <2>2. /\ call'.pc = "new_dir" /\ call'.op = call.op /\ call'.parent = call.parent
        /\ call'.ino = call.ino /\ call'.block = call.block /\ call'.name = call.name
    BY <1>1, <2>1, GoesOn
  <2>3. content'[call.block].entries = Dots(call.ino, call.parent)
    BY <1>3, <2>1 DEF Lists
  <2>4. Dots(call.ino, call.parent)' = Dots(call.ino, call.parent)
    BY <2>2 DEF Dots
  <2>5. CallLinks'
    BY <1>1, <1>4, <2>1, <2>2, <2>3, <2>4 DEF CallLinks, NewPcs, AddPcs, DataPcs, ParentPcs
  <2>6. QED
    BY <1>1, <1>2, <2>1, <2>5, PutBlockLinks
<1>6. CASE WriteEntry
  <2>1. /\ call.pc = "write_entry" /\ Goto("append_entry")
        /\ PutBlock(call.block, Lists(FreshBlock(call.ino, call.name)))
    BY <1>6 DEF WriteEntry, At
  <2>2. /\ call'.pc = "append_entry" /\ call'.op = call.op /\ call'.parent = call.parent
        /\ call'.ino = call.ino /\ call'.block = call.block /\ call'.name = call.name
    BY <1>1, <2>1, GoesOn
  <2>3. content'[call.block].entries = FreshBlock(call.ino, call.name)
    BY <1>3, <2>1 DEF Lists
  <2>4. CallLinks'
    BY <1>1, <1>4, <2>1, <2>2, <2>3 DEF CallLinks, NewPcs, AddPcs, DataPcs, ParentPcs
  <2>5. QED
    BY <1>1, <1>2, <2>1, <2>4, PutBlockLinks
<1>7. CASE WriteData
  <2>1. /\ call.pc = "write_data" /\ Goto("append_data")
        /\ PutBlock(call.block, Holds(call.data[call.done + 1]))
    BY <1>7 DEF WriteData, At
  <2>2. /\ call'.pc = "append_data" /\ call'.ino = call.ino
    BY <1>1, <2>1, GoesOn
  <2>3. CallLinks'
    BY <1>1, <1>4, <2>1, <2>2 DEF CallLinks, NewPcs, AddPcs, DataPcs, ParentPcs, IsFile
  <2>4. QED
    BY <1>1, <1>2, <2>1, <2>3, PutBlockLinks
<1>8. QED
  BY <1>5, <1>6, <1>7

\* A block of the parent, which takes the entry.
LEMMA AddInPlaceLinks ==
    ASSUME Exclusive, CallIsRecord, Control, Reading, Linking, AddInPlace
    PROVE  Linking' /\ \A d \in Inodes : DirKept(d)
<1> DEFINE dir == inodes[call.parent]
           j == Min(Roomy)
           b == dir.extents[j]
           before == content[b].entries
<1>1. call # Idle /\ call.pc = "add" /\ UNCHANGED inodes
  BY DEF AddInPlace, At, Idle
<1> PICK d \in Inodes : d = call.parent /\ IsDir(d)
  BY <1>1, ControlSplit DEF ParentPcs
<1>2. DOMAIN dir.extents = 1..Len(dir.extents) /\ Len(dir.extents) \in Nat
      /\ dir.extents \in Seq(Blocks)
  BY ExtentsAreBlocks
<1>3. j \in DOMAIN dir.extents
  <2>1. Roomy \subseteq DOMAIN dir.extents
    BY DEF Roomy, DirBlocks, BlocksOf
  <2>2. Roomy \subseteq Nat /\ Roomy # {}
    BY <1>2, <2>1 DEF AddInPlace
  <2>3. Min(Roomy) \in Roomy
    BY <2>2, MinExists
  <2>4. QED
    BY <2>1, <2>3
<1>4. b \in Blocks
  BY <1>2, <1>3
<1>5. \A i \in Inodes : \A m \in DOMAIN inodes[i].extents :
        inodes[i].extents[m] = b => i = d /\ m = j
  BY <1>3 DEF Exclusive, NoSharedBlock, Unshared
<1>6. CallLinks /\ SoundInode(d)
  BY DEF Linking
<1>7. DirBlocks(d) = [m \in DOMAIN dir.extents |-> content[dir.extents[m]].entries]
  BY DEF DirBlocks, BlocksOf
<1>8. ListingOf(d, DirBlocks(d), inodes)
  BY <1>6 DEF SoundInode
<1>9. ListsWritten(before, inodes)
  BY <1>3, <1>7, <1>8 DEF ListingOf
<1>10. /\ call.name \in Names
       /\ call.ino \in Inodes /\ inodes[call.ino].type = IF call.op = "mkdir" THEN "dir" ELSE "file"
  BY <1>1, <1>6, ControlSplit DEF CallLinks, ParentPcs, AddPcs
<1>11. PICK p \in FindSpace(before, NameWords[call.name]) :
        PutBlock(b, Lists(InsertEntry(before, p.at, Entry(call.ino, p.rec, call.name))))
  BY DEF AddInPlace
<1> DEFINE after == InsertEntry(before, p.at, Entry(call.ino, p.rec, call.name))
<1>12. /\ ListsWritten(after, inodes)
       /\ \A o \in Live(before) : o \in Live(after) /\ after[o] = before[o]
  <2>1. inodes[call.ino].type # "unwritten"
    BY <1>10
  <2>2. Gains(call.name, before, inodes, after)
    BY <1>9, <1>10, <2>1, InsertLists
  <2> HIDE DEF before, after, b, j
  <2>3. QED
    BY <2>2 DEF Gains
<1> HIDE DEF before, after, b, j
<1>13. /\ content'[b].entries = after
       /\ \A c \in Blocks : c # b => content'[c] = content[c]
  BY <1>4, <1>11 DEF PutBlock, Reading, Lists, after
<1>14. PICK pc \in {"links", "data"} : Goto(pc) /\ pc = IF call.op = "mkdir" THEN "links" ELSE "data"
  BY DEF AddInPlace, AfterAdd
<1>15. CallLinks'
  <2>1. call'.pc = pc /\ call'.op = call.op /\ call'.ino = call.ino /\ call'.name = call.name
    BY <1>1, <1>14, GoesOn
  <2>2. QED
    BY <1>1, <1>10, <1>14, <2>1 DEF CallLinks, NewPcs, AddPcs, DataPcs, ParentPcs, IsFile
<1>16. ASSUME NEW i \in Inodes, i # d
       PROVE  SoundInode(i)' /\ DirKept(i)
  <2>1. \A m \in DOMAIN inodes[i].extents :
            content'[inodes[i].extents[m]] = content[inodes[i].extents[m]]
    <3>1. \A m \in DOMAIN inodes[i].extents : inodes[i].extents[m] \in Blocks
      BY ExtentsAreBlocks
    <3>2. QED
      BY <1>5, <1>13, <1>16, <3>1
  <2>2. QED
    BY <1>1, <2>1, KeptFrame DEF Linking
<1>17. /\ DirBlocks(d)' = [m \in DOMAIN dir.extents |-> content'[dir.extents[m]].entries]
  BY <1>1 DEF DirBlocks, BlocksOf
<1>18. \A m \in DOMAIN dir.extents :
        DirBlocks(d)'[m] = IF m = j THEN after ELSE DirBlocks(d)[m]
  <2>1. \A m \in DOMAIN dir.extents : dir.extents[m] \in Blocks
    BY <1>2
  <2>2. \A m \in DOMAIN dir.extents : m # j => dir.extents[m] # b
    BY <1>5
  <2>3. dir.extents[j] = b
    BY DEF b, j
  <2>4. QED
    BY <1>7, <1>13, <1>17, <2>1, <2>2, <2>3
<1>19. DirBlocks(d)[j] = before
  BY <1>3, <1>7 DEF before, b
<1>20. /\ ListingOf(d, DirBlocks(d)', inodes)
       /\ LookupInDir(DirBlocks(d)', DotDot) = LookupInDir(DirBlocks(d), DotDot)
  <2>1. DOMAIN DirBlocks(d)' = DOMAIN dir.extents /\ DOMAIN DirBlocks(d) = DOMAIN dir.extents
    BY <1>7, <1>17
  <2>2. \A m \in DOMAIN dir.extents : ListsWritten(DirBlocks(d)'[m], inodes)
    BY <1>8, <1>12, <1>18, <2>1 DEF ListingOf
  <2>3. \A m \in DOMAIN dir.extents : \A o \in Live(DirBlocks(d)[m]) :
            o \in Live(DirBlocks(d)'[m]) /\ DirBlocks(d)'[m][o] = DirBlocks(d)[m][o]
    BY <1>12, <1>18, <1>19
  <2>4. QED
    BY <1>8, <2>1, <2>2, <2>3, ListingKept DEF ListingOf
<1>21. SoundInode(d)'
  <2>1. ~ IsFile(d)' /\ inodes' = inodes
    BY <1>1 DEF IsFile, IsDir
  <2>2. QED
    BY <1>20, <2>1 DEF SoundInode
<1>22. DirKept(d)
  <2>1. ParentKept(d)
    BY <1>1, <1>20 DEF ParentKept, Lookup, IsDir
  <2>2. IsPrefix(dir.extents, inodes'[d].extents)
    BY <1>1, <1>2, PrefixIs
  <2>3. ASSUME NEW c \in ToSet(dir.extents), content'[c] # content[c]
        PROVE  \A o \in Live(content[c].entries) :
                    o \in Live(content'[c].entries) /\ content'[c].entries[o] = content[c].entries[o]
    <3>1. c \in Blocks
      BY <1>2 DEF ToSet
    <3>2. c = b
      BY <1>13, <2>3, <3>1
    <3>3. QED
      BY <1>12, <1>13, <3>2 DEF before
  <2>4. QED
    BY <2>1, <2>2, <2>3 DEF DirKept, EntriesKeptIn
<1>23. QED
  BY <1>15, <1>16, <1>21, <1>22 DEF Linking

-----------------------------------------------------------------------------
(* Steps that write an inode.                                              *)

LEMMA PutInodeLinks ==
    ASSUME Exclusive, Linking, NEW k \in Inodes, NEW inode, PutInode(k, inode),
           UNCHANGED content, inode.type # "unwritten",
           SoundInode(k)', DirKept(k), CallLinks'
    PROVE  Linking' /\ \A d \in Inodes : DirKept(d)
<1>1. \A i \in Inodes : inodes'[i] = IF i = k THEN inode ELSE inodes[i]
  BY DEF PutInode, Exclusive
<1>2. \A i \in Inodes : inodes[i].type # "unwritten" => inodes'[i].type # "unwritten"
  BY <1>1
<1>3. ASSUME NEW i \in Inodes
      PROVE  SoundInode(i)' /\ DirKept(i)
  <2>1. CASE i = k
    BY <2>1
  <2>2. CASE i # k
    <3>1. inodes'[i] = inodes[i]
      BY <1>1, <2>2
    <3>2. SoundInode(i)
      BY DEF Linking
    <3>3. QED
      BY <1>2, <3>1, <3>2, KeptFrame
  <2>3. QED
    BY <2>1, <2>2
<1>4. QED
  BY <1>3 DEF Linking

\* An inode that keeps its type and its extents.
LEMMA PutSameLinks ==
    ASSUME Exclusive, Linking, NEW k \in Inodes, NEW inode, PutInode(k, inode),
           UNCHANGED content, inode.type # "unwritten",
           inode.type = inodes[k].type, inode.extents = inodes[k].extents, CallLinks'
    PROVE  Linking' /\ \A d \in Inodes : DirKept(d)
<1>1. \A i \in Inodes : inodes'[i] = IF i = k THEN inode ELSE inodes[i]
  BY DEF PutInode, Exclusive
<1>2. \A i \in Inodes : inodes[i].type # "unwritten" => inodes'[i].type # "unwritten"
  BY <1>1
<1>3. inodes'[k].type = inodes[k].type /\ inodes'[k].extents = inodes[k].extents
  BY <1>1
<1>4. SoundInode(k)' /\ DirKept(k)
  BY <1>2, <1>3, KeptFrame DEF Linking
<1>5. QED
  BY <1>4, PutInodeLinks

LEMMA WriteNewFileLinks ==
    ASSUME Exclusive, CallIsRecord, Control, Linking, WriteNewFile
    PROVE  Linking' /\ \A d \in Inodes : DirKept(d)
<1> DEFINE inode == NewInode("file", 1)
<1> PICK k \in Inodes : k = call.ino
  BY ControlSplit DEF WriteNewFile, At, Idle
<1>1. /\ call # Idle /\ call.pc = "new_file" /\ PutInode(k, inode) /\ Goto("add")
      /\ UNCHANGED content
  BY DEF WriteNewFile, At, Idle
<1>2. inode.type = "file" /\ inode.extents = <<>>
  BY DEF NewInode, Unwritten
<1> HIDE DEF inode
<1>3. inodes'[k] = inode
  BY <1>1 DEF PutInode, Exclusive
<1>4. inodes[k].type = "unwritten" /\ call.op # "mkdir" /\ call.name \in Names
  BY <1>1 DEF Linking, CallLinks, NewPcs, ParentPcs
<1>5. SoundInode(k)'
  <2>1. DOMAIN <<>> = {}
    OBVIOUS
  <2>2. QED
    BY <1>2, <1>3, <2>1 DEF SoundInode, IsDir, IsFile
<1>6. DirKept(k)
  BY <1>4 DEF DirKept, ParentKept, EntriesKeptIn, IsDir
<1>7. CallLinks'
  <2>1. call'.pc = "add" /\ call'.op = call.op /\ call'.ino = k /\ call'.name = call.name
    BY <1>1, GoesOn
  <2>2. QED
    BY <1>2, <1>3, <1>4, <2>1 DEF CallLinks, NewPcs, AddPcs, DataPcs
<1>8. QED
  BY <1>1, <1>2, <1>5, <1>6, <1>7, PutInodeLinks

\* The new directory lists itself and its parent, and nothing else.
LEMMA WriteNewDirLinks ==
    ASSUME Exclusive, CallIsRecord, Control, Linking, WriteNewDir
    PROVE  Linking' /\ \A d \in Inodes : DirKept(d)
<1> PICK k \in Inodes : k = call.ino
  BY ControlSplit DEF WriteNewDir, At, Idle
<1> PICK up \in Inodes : up = call.parent /\ IsDir(up) /\ up # k
  BY ControlSplit DEF WriteNewDir, At, Idle, ParentPcs, NewPcs
<1>1. call # Idle /\ call.pc = "new_dir" /\ AppendExtentThen(k, NewInode("dir", 2), "size_dir")
  BY DEF WriteNewDir, At, Idle
<1>2. CASE Fail
  BY <1>2, FailLinks
<1>3. CASE ~ Fail
  <2> DEFINE inode == [NewInode("dir", 2) EXCEPT !.extents = Append(@, call.block)]
  <2>1. PutInode(k, inode) /\ Goto("size_dir") /\ UNCHANGED content
    BY <1>1, <1>3 DEF AppendExtentThen
  <2>2. inode.type = "dir" /\ inode.extents = <<call.block>>
    BY DEF NewInode, Unwritten
  <2> HIDE DEF inode
  <2>3. \A i \in Inodes : inodes'[i] = IF i = k THEN inode ELSE inodes[i]
    BY <2>1 DEF PutInode, Exclusive
  <2>4. /\ inodes[k].type = "unwritten" /\ call.op = "mkdir"
        /\ call.name \in Names
        /\ content[call.block].entries = Dots(k, up)
    BY <1>1 DEF Linking, CallLinks, NewPcs, ParentPcs
  <2>5. inodes'[k].type # "unwritten" /\ inodes'[up].type # "unwritten"
    BY <2>2, <2>3 DEF IsDir
  <2>6. DirBlocks(k)' = <<Dots(k, up)>>
    <3>1. DirBlocks(k)' = [m \in {1} |-> Dots(k, up)]
      BY <2>1, <2>2, <2>3, <2>4 DEF DirBlocks, BlocksOf
    <3>2. QED
      BY <3>1
  <2>7. ListingOf(k, DirBlocks(k)', inodes')
    BY <2>5, <2>6, DotsList
  <2>8. SoundInode(k)'
    BY <2>2, <2>3, <2>7 DEF SoundInode, IsFile
  <2>9. DirKept(k)
    BY <2>4 DEF DirKept, ParentKept, EntriesKeptIn, IsDir
  <2>10. CallLinks'
    <3>1. call'.pc = "size_dir" /\ call'.op = call.op /\ call'.ino = k /\ call'.name = call.name
      BY <1>1, <2>1, GoesOn
    <3>2. QED
      BY <2>4, <3>1 DEF CallLinks, NewPcs, AddPcs, DataPcs
  <2>11. QED
    BY <2>1, <2>2, <2>8, <2>9, <2>10, PutInodeLinks
<1>4. QED
  BY <1>2, <1>3

LEMMA SizeDirLinks ==
    ASSUME Exclusive, CallIsRecord, Control, Linking, SizeNewDir \/ SizeParent \/ CountLink
    PROVE  Linking' /\ \A d \in Inodes : DirKept(d)
<1>1. call # Idle /\ UNCHANGED content /\ CallLinks
  BY DEF SizeNewDir, SizeParent, CountLink, At, Idle, Linking
<1>2. CASE SizeNewDir
  <2> DEFINE inode == [inodes[call.ino] EXCEPT !.size = 1, !.blocks = 1]
  <2>1. inode.type = inodes[call.ino].type /\ inode.extents = inodes[call.ino].extents
    OBVIOUS
  <2>2. PutInode(call.ino, inode) /\ Goto("add") /\ call.pc = "size_dir"
    BY <1>2 DEF SizeNewDir, At
  <2> HIDE DEF inode
  <2>3. call.ino \in Inodes /\ IsDir(call.ino)
    BY <1>1, <2>2, ControlSplit
  <2>4. \A j \in Inodes : inodes'[j].type = inodes[j].type
    BY <2>1, <2>2, PutSameType
  <2>5. CallLinks'
    <3>1. call'.pc = "add" /\ call'.op = call.op /\ call'.ino = call.ino /\ call'.name = call.name
      BY <1>1, <2>2, GoesOn
    <3>2. QED
      BY <1>1, <2>2, <2>3, <2>4, <3>1 DEF CallLinks, NewPcs, AddPcs, DataPcs, ParentPcs, IsDir
  <2>6. QED
    BY <1>1, <2>1, <2>2, <2>3, <2>5, PutSameLinks DEF IsDir
<1>3. CASE SizeParent
  <2> DEFINE inode == [inodes[call.parent] EXCEPT !.size = @ + 1]
  <2>1. inode.type = inodes[call.parent].type /\ inode.extents = inodes[call.parent].extents
    OBVIOUS
  <2>2. PutInode(call.parent, inode) /\ call.pc = "size_parent"
    BY <1>3 DEF SizeParent, At
  <2>3. PICK pc \in {"links", "data"} : Goto(pc) /\ pc = IF call.op = "mkdir" THEN "links" ELSE "data"
    BY <1>3 DEF SizeParent, AfterAdd
  <2> HIDE DEF inode
  <2>4. call.parent \in Inodes /\ IsDir(call.parent) /\ call.ino \in Inodes
    BY <1>1, <2>2, ControlSplit DEF ParentPcs
  <2>5. \A j \in Inodes : inodes'[j].type = inodes[j].type
    BY <2>1, <2>2, PutSameType
  <2>6. CallLinks'
    <3>1. call'.pc = pc /\ call'.op = call.op /\ call'.ino = call.ino /\ call'.name = call.name
      BY <1>1, <2>3, GoesOn
    <3>2. QED
      BY <1>1, <2>2, <2>3, <2>4, <2>5, <3>1
         DEF CallLinks, NewPcs, AddPcs, DataPcs, ParentPcs, IsFile
  <2>7. QED
    BY <1>1, <2>1, <2>2, <2>4, <2>6, PutSameLinks DEF IsDir
<1>4. CASE CountLink
  <2> DEFINE inode == [inodes[call.parent] EXCEPT !.links = @ + 1]
  <2>1. inode.type = inodes[call.parent].type /\ inode.extents = inodes[call.parent].extents
    OBVIOUS
  <2>2. PutInode(call.parent, inode) /\ Goto("flush") /\ call.pc = "links"
    BY <1>4 DEF CountLink, At
  <2> HIDE DEF inode
  <2>3. call.parent \in Inodes /\ IsDir(call.parent)
    BY <1>1, <2>2, ControlSplit DEF ParentPcs
  <2>4. CallLinks'
    <3>1. call'.pc = "flush"
      BY <1>1, <2>2, GoesOn
    <3>2. QED
      BY <3>1 DEF CallLinks, NewPcs, AddPcs, DataPcs, ParentPcs
  <2>5. QED
    BY <1>1, <2>1, <2>2, <2>3, <2>4, PutSameLinks DEF IsDir
<1>5. QED
  BY <1>2, <1>3, <1>4

\* A sequence with one element more.
OneMore(s, b, t) ==
    /\ t \in Seq(Blocks) /\ Len(t) = Len(s) + 1
    /\ DOMAIN t = DOMAIN s \cup {Len(s) + 1} /\ Len(s) + 1 \notin DOMAIN s
    /\ \A m \in DOMAIN s : t[m] = s[m]
    /\ t[Len(s) + 1] = b
    /\ IsPrefix(s, t)
LEMMA AppendIs ==
    ASSUME NEW s \in Seq(Blocks), NEW b \in Blocks, NEW t, t = Append(s, b)
    PROVE  OneMore(s, b, t)
<1>1. /\ t \in Seq(Blocks) /\ Len(t) = Len(s) + 1
      /\ DOMAIN t = DOMAIN s \cup {Len(s) + 1} /\ Len(s) + 1 \notin DOMAIN s
      /\ \A m \in DOMAIN s : t[m] = s[m]
      /\ t[Len(s) + 1] = b
  OBVIOUS
<1>2. Len(s) <= Len(t) /\ \A k \in 1..Len(s) : s[k] = t[k]
  BY <1>1
<1>3. QED
  BY <1>1, <1>2, PrefixIs DEF OneMore

\* The parent's new block lists what the call has written, and no other name.
LEMMA AppendEntryLinks ==
    ASSUME Exclusive, CallIsRecord, Control, Linking, AppendEntry
    PROVE  Linking' /\ \A d \in Inodes : DirKept(d)
<1> PICK d \in Inodes : d = call.parent /\ IsDir(d)
  BY ControlSplit DEF AppendEntry, At, Idle, ParentPcs
<1>1. /\ call # Idle /\ call.pc = "append_entry"
      /\ AppendExtentThen(d, inodes[d], "size_parent")
  BY DEF AppendEntry, At, Idle
<1>2. CASE Fail
  BY <1>2, FailLinks
<1>3. CASE ~ Fail
  <2> DEFINE inode == [inodes[d] EXCEPT !.extents = Append(@, call.block)]
             s == inodes[d].extents
             new == FreshBlock(call.ino, call.name)
  <2>1. PutInode(d, inode) /\ Goto("size_parent") /\ UNCHANGED content
    BY <1>1, <1>3 DEF AppendExtentThen
  <2>2. inodes[d] \in InodeRecords
    BY DEF Exclusive
  <2>3. inode.type = "dir" /\ inode.extents = Append(s, call.block)
    BY <2>2 DEF InodeRecords, IsDir
  <2> HIDE DEF inode
  <2>4. \A i \in Inodes : inodes'[i] = IF i = d THEN inode ELSE inodes[i]
    BY <2>1 DEF PutInode, Exclusive
  <2>5. /\ s \in Seq(Blocks) /\ call.block \in Blocks /\ DOMAIN s = 1..Len(s)
        /\ Len(s) \in Nat
    BY <1>1, ExtentsAreBlocks DEF Exclusive, HeldIsUnmapped, HeldBlock
  <2> HIDE DEF s
  <2>6. /\ DOMAIN inode.extents = DOMAIN s \cup {Len(s) + 1} /\ Len(s) + 1 \notin DOMAIN s
        /\ \A m \in DOMAIN s : inode.extents[m] = s[m]
        /\ inode.extents[Len(s) + 1] = call.block
        /\ IsPrefix(s, inode.extents)
    <3>1. OneMore(s, call.block, inode.extents)
      BY <2>3, <2>5, AppendIs
    <3>2. QED
      BY <3>1 DEF OneMore
  <2>7. /\ call.ino \in Inodes /\ call.name \in Names
        /\ inodes[call.ino].type # "unwritten"
        /\ content[call.block].entries = new
        /\ inodes[call.ino].type = IF call.op = "mkdir" THEN "dir" ELSE "file"
    BY <1>1, ControlSplit DEF Linking, CallLinks, ParentPcs, AddPcs
  <2>8. \A i \in Inodes : inodes'[i].type = inodes[i].type
    BY <2>3, <2>4 DEF IsDir
  <2>9. ListsWritten(new, inodes)
    BY <2>7, FreshNames
  <2>10. ListsWritten(new, inodes')
    <3>1. \A o \in Live(new) : inodes[new[o].ino].type # "unwritten"
      BY <2>9 DEF ListsWritten
    <3>2. \A o \in Live(new) : new[o].ino \in Inodes
      BY <2>9, EntryNamesInode DEF ListsWritten
    <3>3. QED
      BY <2>8, <2>9, <3>1, <3>2 DEF ListsWritten
  <2> HIDE DEF new
  <2>11. DirBlocks(d) = [m \in DOMAIN s |-> content[s[m]].entries]
    BY DEF DirBlocks, BlocksOf, s
  <2>12. DirBlocks(d)' = [m \in DOMAIN inode.extents |-> content[inode.extents[m]].entries]
    BY <2>1, <2>4 DEF DirBlocks, BlocksOf
  <2>13. ListingOf(d, DirBlocks(d), inodes')
    <3>1. ListingOf(d, DirBlocks(d), inodes)
      BY DEF Linking, SoundInode
    <3>2. \A k \in Inodes : inodes[k].type # "unwritten" => inodes'[k].type # "unwritten"
      BY <2>8
    <3>3. QED
      BY <3>1, <3>2, ListingStays
  <2>14. \A m \in DOMAIN inode.extents :
            DirBlocks(d)'[m] = IF m \in DOMAIN s THEN DirBlocks(d)[m] ELSE new
    BY <2>6, <2>7, <2>11, <2>12
  <2>15. DOMAIN DirBlocks(d) = DOMAIN s /\ DOMAIN DirBlocks(d)' = DOMAIN inode.extents
    BY <2>11, <2>12
  <2>16. /\ ListingOf(d, DirBlocks(d)', inodes')
         /\ LookupInDir(DirBlocks(d)', DotDot) = LookupInDir(DirBlocks(d), DotDot)
    <3>1. DOMAIN DirBlocks(d)' \in SUBSET (Nat \ {0})
      BY <2>5, <2>6, <2>15
    <3>2. \A m \in DOMAIN DirBlocks(d)' : ListsWritten(DirBlocks(d)'[m], inodes')
      BY <2>10, <2>13, <2>14, <2>15 DEF ListingOf
    <3>3. DOMAIN DirBlocks(d) \subseteq DOMAIN DirBlocks(d)'
      BY <2>6, <2>15
    <3>4. \A m \in DOMAIN DirBlocks(d) : DirBlocks(d)'[m] = DirBlocks(d)[m]
      BY <2>14, <2>15, <3>3
    <3>5. \A m \in DOMAIN DirBlocks(d) : \A o \in Live(DirBlocks(d)[m]) :
            o \in Live(DirBlocks(d)'[m]) /\ DirBlocks(d)'[m][o] = DirBlocks(d)[m][o]
      BY <3>4
    <3>6. QED
      BY <2>13, <3>1, <3>2, <3>3, <3>5, ListingKept
  <2>17. SoundInode(d)'
    <3>1. inodes'[d].type = "dir"
      BY <2>3, <2>4
    <3>2. QED
      BY <2>16, <3>1 DEF SoundInode, IsFile
  <2>18. DirKept(d)
    <3>1. ParentKept(d)
      BY <2>8, <2>16 DEF ParentKept, Lookup, IsDir
    <3>2. IsPrefix(inodes[d].extents, inodes'[d].extents)
      BY <2>4, <2>6 DEF s
    <3>3. QED
      BY <2>1, <3>1, <3>2 DEF DirKept, EntriesKeptIn
  <2>19. CallLinks'
    <3>1. /\ call'.pc = "size_parent" /\ call'.op = call.op /\ call'.ino = call.ino
          /\ call'.name = call.name
      BY <1>1, <2>1, GoesOn
    <3>2. QED
      BY <2>7, <2>8, <3>1 DEF CallLinks, NewPcs, AddPcs, DataPcs
  <2>20. QED
    BY <2>1, <2>3, <2>17, <2>18, <2>19, PutInodeLinks
<1>4. QED
  BY <1>2, <1>3

\* The writes of a file's inode.
LEMMA PutFileLinks ==
    ASSUME Exclusive, CallIsRecord, Control, Linking, call # Idle, call.pc \in DataPcs,
           NEW inode, PutInode(call.ino, inode), UNCHANGED content, inode.type = "file",
           \A m \in DOMAIN inode.extents : content[inode.extents[m]].data # {},
           call'.pc \in {"data", "flush"}, call'.ino = call.ino
    PROVE  Linking' /\ \A d \in Inodes : DirKept(d)
<1> PICK k \in Inodes : k = call.ino
  BY ControlSplit DEF DataPcs
<1>1. inodes'[k] = inode
  BY DEF PutInode, Exclusive
<1>2. IsFile(k)
  BY DEF Linking, CallLinks
<1>3. SoundInode(k)'
  BY <1>1 DEF SoundInode, IsDir
<1>4. DirKept(k)
  BY <1>2 DEF IsDir, IsFile, DirKept, ParentKept, EntriesKeptIn
<1>5. CallLinks'
  BY <1>1 DEF CallLinks, NewPcs, AddPcs, DataPcs, ParentPcs, IsFile
<1>6. QED
  BY <1>3, <1>4, <1>5, PutInodeLinks

LEMMA AppendDataLinks ==
    ASSUME Exclusive, CallIsRecord, Control, Reading, Linking, AppendData
    PROVE  Linking' /\ \A d \in Inodes : DirKept(d)
<1> DEFINE old == inodes[call.ino]
           kept == IF call.done = 0 THEN <<>> ELSE old.extents
           inode == IF call.done = 0 THEN [old EXCEPT !.extents = <<>>] ELSE old
           appended == [inode EXCEPT !.extents = Append(@, call.block)]
<1>1. call # Idle /\ call.pc = "append_data"
  BY DEF AppendData, At, Idle
<1> PICK k \in Inodes : k = call.ino /\ IsFile(k)
  BY <1>1, ControlSplit DEF DataPcs, Linking, CallLinks
<1>2. CASE Fail
  BY <1>2, FailLinks
<1>3. CASE ~ Fail
  <2>1. /\ PutInode(call.ino, appended) /\ UNCHANGED content
        /\ call' = [call EXCEPT !.pc = "data", !.done = @ + 1]
    BY <1>3 DEF AppendData
  <2>2. old \in InodeRecords
    BY DEF Exclusive
  <2>3. inode.extents = kept /\ inode.type = "file" /\ inode \in InodeRecords
    <3>1. <<>> \in Seq(Blocks)
      OBVIOUS
    <3>2. QED
      BY <2>2, <3>1 DEF InodeRecords, IsFile
  <2>4. call.block \in Blocks /\ content[call.block].data # {}
    BY <1>1 DEF Exclusive, HeldIsUnmapped, HeldBlock, Reading, Copied
  <2>5. kept \in Seq(Blocks) /\ \A m \in DOMAIN kept : content[kept[m]].data # {}
    <3>1. <<>> \in Seq(Blocks) /\ DOMAIN <<>> = {}
      OBVIOUS
    <3>2. old.extents \in Seq(Blocks) /\ \A m \in DOMAIN old.extents : content[old.extents[m]].data # {}
      BY ExtentsAreBlocks DEF Linking, SoundInode
    <3>3. QED
      BY <3>1, <3>2
  <2> HIDE DEF inode, kept, old
  <2>6. appended.type = "file" /\ appended.extents = Append(kept, call.block)
    BY <2>3 DEF InodeRecords
  <2> HIDE DEF appended
  <2>7. \A m \in DOMAIN appended.extents : content[appended.extents[m]].data # {}
    <3>1. OneMore(kept, call.block, appended.extents)
      BY <2>4, <2>5, <2>6, AppendIs
    <3>2. QED
      BY <2>4, <2>5, <3>1 DEF OneMore
  <2>8. call'.pc = "data" /\ call'.ino = call.ino
    BY <1>1, <2>1, GoesOnPast
  <2>9. QED
    BY <1>1, <2>1, <2>6, <2>7, <2>8, PutFileLinks DEF DataPcs
<1>4. QED
  BY <1>2, <1>3

LEMMA SizeFileLinks ==
    ASSUME Exclusive, CallIsRecord, Control, Linking, SizeFile
    PROVE  Linking' /\ \A d \in Inodes : DirKept(d)
<1> DEFINE old == inodes[call.ino]
           inode == [old EXCEPT !.extents = IF call.done = 0 THEN <<>> ELSE @,
                                !.size = Len(call.data), !.blocks = Len(call.data)]
<1>1. /\ call # Idle /\ call.pc = "data" /\ PutInode(call.ino, inode) /\ UNCHANGED content
      /\ Goto("flush")
  BY DEF SizeFile, At, Idle
<1> PICK k \in Inodes : k = call.ino /\ IsFile(k)
  BY <1>1, ControlSplit DEF DataPcs, Linking, CallLinks
<1>2. old \in InodeRecords
  BY DEF Exclusive
<1>3. inode.type = "file" /\ inode.extents = IF call.done = 0 THEN <<>> ELSE old.extents
  BY <1>2 DEF InodeRecords, IsFile
<1>4. \A m \in DOMAIN old.extents : content[old.extents[m]].data # {}
  BY DEF Linking, SoundInode
<1> HIDE DEF inode, old
<1>5. \A m \in DOMAIN inode.extents : content[inode.extents[m]].data # {}
  <2>1. DOMAIN <<>> = {}
    OBVIOUS
  <2>2. QED
    BY <1>3, <1>4, <2>1
<1>6. call'.pc = "flush" /\ call'.ino = call.ino
  BY <1>1, GoesOn
<1>7. QED
  BY <1>1, <1>3, <1>5, <1>6, PutFileLinks DEF DataPcs

-----------------------------------------------------------------------------
(* The invariant, and the theorems.                                        *)

LEMMA LinkingNext ==
    ASSUME Exclusive, CallIsRecord, Control, Reading, Linking, Next
    PROVE  Linking' /\ \A d \in Inodes : DirKept(d)
<1>1. CASE WriteFile
  BY <1>1, StartLinks DEF WriteFile
<1>2. CASE Mkdir
  BY <1>2, StartLinks DEF Mkdir
<1>3. CASE AllocateInode
  BY <1>3, AllocateInodeLinks
<1>4. CASE AllocateDots \/ Grow \/ AllocateData
  BY <1>4, AllocateBlockLinks
<1>5. CASE WriteNewFile
  BY <1>5, WriteNewFileLinks
<1>6. CASE WriteDots \/ WriteEntry \/ WriteData
  BY <1>6, WriteHeldLinks
<1>7. CASE AddInPlace
  BY <1>7, AddInPlaceLinks
<1>8. CASE WriteNewDir
  BY <1>8, WriteNewDirLinks
<1>9. CASE AppendEntry
  BY <1>9, AppendEntryLinks
<1>10. CASE SizeNewDir \/ SizeParent \/ CountLink
  BY <1>10, SizeDirLinks
<1>11. CASE AppendData
  BY <1>11, AppendDataLinks
<1>12. CASE SizeFile
  BY <1>12, SizeFileLinks
<1>13. CASE Return
  <2>1. call' = Idle /\ UNCHANGED <<inodes, content>>
    BY <1>13 DEF Return, disk
  <2>2. QED
    BY <2>1, LinkingFrame DEF CallLinks
<1>14. CASE Abort
  BY <1>14, FailLinks DEF Abort
<1>15. QED
  BY <1>1, <1>2, <1>3, <1>4, <1>5, <1>6, <1>7, <1>8, <1>9, <1>10, <1>11, <1>12, <1>13, <1>14
     DEF Next, Step

\* The images list what was written.
LEMMA LinkingInit == Init => Linking
<1>1. SUFFICES ASSUME Init PROVE Linking
  OBVIOUS
<1>2. PICK image \in Images : inodes = image.inodes /\ content = image.content
  BY <1>1 DEF Init
<1>3. WrittenFirst(inodes, content) /\ inodes \in [Inodes -> InodeRecords]
  BY <1>2, ImagesAssumption
<1>4. ASSUME NEW i \in Inodes
      PROVE  SoundInode(i)
  <2>1. IsDir(i) => /\ \A j \in DOMAIN DirBlocks(i) : IsDirBlock(DirBlocks(i)[j], Inodes)
                    /\ BeginsWithDots(DirBlocks(i), i)
    <3>1. image.inodes[i].type = "dir" =>
            /\ \A j \in DOMAIN BlocksOf(image.inodes, image.content, i) :
                IsDirBlock(BlocksOf(image.inodes, image.content, i)[j], Inodes)
            /\ BeginsWithDots(BlocksOf(image.inodes, image.content, i), i)
      BY ImagesAssumption
    <3>2. QED
      BY <1>2, <3>1 DEF IsDir, DirBlocks
  <2>2. DirBlocks(i) = [m \in DOMAIN inodes[i].extents |-> content[inodes[i].extents[m]].entries]
    BY DEF DirBlocks, BlocksOf
  <2>3. ASSUME IsDir(i), NEW m \in DOMAIN DirBlocks(i)
        PROVE  ListsWritten(DirBlocks(i)[m], inodes)
    <3> DEFINE entries == content[inodes[i].extents[m]].entries
    <3>1. m \in DOMAIN inodes[i].extents /\ DirBlocks(i)[m] = entries
      BY <2>2, <2>3
    <3>2. /\ WellFormed(entries)
          /\ \A o \in Live(entries) : inodes[entries[o].ino].type # "unwritten"
      BY <1>3, <2>3, <3>1, Zenon DEF WrittenFirst, IsDir
    <3>3. IsDirBlock(entries, Inodes)
      BY <2>1, <2>3, <3>1
    <3>4. QED
      BY <3>1, <3>2, <3>3 DEF ListsWritten
  <2>4. DOMAIN DirBlocks(i) \in SUBSET (Nat \ {0})
    <3>1. inodes[i].extents \in Seq(Blocks)
      BY <1>3 DEF InodeRecords
    <3>2. QED
      BY <2>2, <3>1
  <2>5. IsDir(i) => ListingOf(i, DirBlocks(i), inodes)
    BY <2>1, <2>3, <2>4 DEF ListingOf
  <2>6. IsFile(i) => \A m \in DOMAIN inodes[i].extents : content[inodes[i].extents[m]].data # {}
    BY <1>3 DEF WrittenFirst, IsFile
  <2>7. QED
    BY <2>5, <2>6 DEF SoundInode
<1>5. CallLinks
  BY <1>1 DEF Init, CallLinks
<1>6. QED
  BY <1>4, <1>5 DEF Linking

LEMMA LinkingAlways ==
    Spec => [](Exclusive /\ CallIsRecord /\ Control /\ Reading /\ Linking)
<1>1. Exclusive /\ CallIsRecord /\ Control /\ Reading /\ Linking /\ [Next]_vars => Linking'
  <2> SUFFICES ASSUME Exclusive, CallIsRecord, Control, Reading, Linking, [Next]_vars
               PROVE  Linking'
    OBVIOUS
  <2>1. CASE Next
    BY <2>1, LinkingNext
  <2>2. CASE UNCHANGED vars
    <3>1. UNCHANGED <<inodes, content, call>>
      BY <2>2 DEF vars
    <3>2. CallLinks'
      BY <3>1 DEF Linking, CallLinks, IsFile, Dots
    <3>3. QED
      BY <3>1, <3>2, LinkingFrame
  <2>3. QED
    BY <2>1, <2>2
<1>2. QED
  BY <1>1, LinkingInit, Invariant, PTL DEF Spec

\* At every point where a call can be cut short: what the entries and the
\* extents on disk lead to was written before they were, and marked before
\* that.
THEOREM LinkedIsWrittenAlways == Spec => []LinkedIsWritten
<1>1. ASSUME Exclusive, Linking, NEW i \in Inodes, NEW m \in DOMAIN inodes[i].extents, IsDir(i)
      PROVE  ListsWritten(content[inodes[i].extents[m]].entries, inodes)
  <2>1. ListingOf(i, DirBlocks(i), inodes)
    BY <1>1 DEF Linking, SoundInode
  <2>2. QED
    BY <1>1, <2>1 DEF ListingOf, DirBlocks, BlocksOf
<1>2. ASSUME Exclusive, Linking, NEW i \in Inodes, NEW m \in DOMAIN inodes[i].extents, IsDir(i),
             NEW o \in Live(content[inodes[i].extents[m]].entries)
      PROVE  LET child == content[inodes[i].extents[m]].entries[o].ino
             IN  /\ inodes[child].type # "unwritten"
                 /\ inodes[child].type = "dir" =>
                        LookupInDir(BlocksOf(inodes, content, child), Dot) = child
  <2> DEFINE child == content[inodes[i].extents[m]].entries[o].ino
  <2>1. child \in Inodes /\ inodes[child].type # "unwritten"
    BY <1>1, <1>2, EntryNamesInode DEF ListsWritten
  <2>2. IsDir(child) => LookupInDir(DirBlocks(child), Dot) = child
    <3>1. IsDir(child) => ListingOf(child, DirBlocks(child), inodes)
      BY <1>2, <2>1 DEF Linking, SoundInode
    <3>2. QED
      BY <3>1, DotsListed
  <2>3. QED
    BY <2>1, <2>2 DEF IsDir, DirBlocks
<1>3. ASSUME Exclusive, Linking
      PROVE  WrittenFirst(inodes, content)
  <2>1. SUFFICES ASSUME NEW i \in Inodes, NEW m \in DOMAIN inodes[i].extents
                 PROVE  LET held == content[inodes[i].extents[m]]
                        IN  /\ inodes[i].type = "file" => held.data # {}
                            /\ inodes[i].type = "dir" => WellFormed(held.entries)
                            /\ inodes[i].type = "dir" => \A o \in Live(held.entries) :
                                LET child == held.entries[o].ino
                                IN  /\ inodes[child].type # "unwritten"
                                    /\ inodes[child].type = "dir" =>
                                        LookupInDir(BlocksOf(inodes, content, child), Dot) = child
    BY Zenon DEF WrittenFirst
  <2>2. IsFile(i) => content[inodes[i].extents[m]].data # {}
    BY <1>3 DEF Linking, SoundInode
  <2>3. IsDir(i) => WellFormed(content[inodes[i].extents[m]].entries)
    BY <1>1, <1>3 DEF ListsWritten
  <2>4. QED
    BY <1>2, <1>3, <2>2, <2>3 DEF IsDir, IsFile
<1>4. Exclusive /\ Control /\ Linking => LinkedIsWritten
  BY <1>3 DEF Exclusive, Control, LinkedIsWritten
<1>5. QED
  BY <1>4, LinkingAlways, PTL

\* No write of any call takes away or changes an entry that list_dir shows,
\* though mkdir and write_file rewrite the blocks that hold them.
THEOREM EntriesAreKept == Spec => EntriesKept
<1> DEFINE Kept == \A d \in Inodes : EntriesKeptIn(d)
<1>1. Exclusive /\ CallIsRecord /\ Control /\ Reading /\ Linking /\ [Next]_vars
        => [Kept]_<<inodes, content>>
  <2> SUFFICES ASSUME Exclusive, CallIsRecord, Control, Reading, Linking, [Next]_vars
               PROVE  Kept \/ UNCHANGED <<inodes, content>>
    OBVIOUS
  <2>1. CASE Next
    BY <2>1, LinkingNext DEF DirKept
  <2>2. CASE UNCHANGED vars
    BY <2>2 DEF vars
  <2>3. QED
    BY <2>1, <2>2
<1>2. Spec => [][Kept]_<<inodes, content>>
  BY <1>1, LinkingAlways, PTL DEF Spec
<1>3. QED
  BY <1>2 DEF EntriesKept, EntriesKeptIn

-----------------------------------------------------------------------------
(* Space.                                                                  *)

\* The bits of the bitmaps, exactly: SpaceAccounted, inductive with what
\* Linking says of the inode that a call is about to write.
Space ==
    /\ \A i \in Inodes : inodes[i].type = "unwritten" => inodes[i].extents = <<>>
    /\ SpaceAccounted

\* A step that writes neither inode nor bitmap.
LEMMA SpaceFrame ==
    ASSUME Space, UNCHANGED <<inodes, taken>>, clean' => clean,
           clean' => HeldBlock' = HeldBlock /\ HeldInode' = HeldInode
    PROVE  Space'
BY DEF Space, SpaceAccounted, Mapped, Written

\* The write of an inode: its blocks, and it itself, are held or in use before
\* and after.
LEMMA PutSpace ==
    ASSUME Exclusive, Space, NEW k \in Inodes, NEW inode, PutInode(k, inode),
           inode.type # "unwritten", UNCHANGED taken, clean' => clean,
           clean' => \A b : b \in HeldBlock' \/ b \in ToSet(inode.extents) <=>
                            b \in HeldBlock \/ b \in ToSet(inodes[k].extents),
           clean' => HeldInode' = {} /\
                     (HeldInode = {k} \/ (HeldInode = {} /\ inodes[k].type # "unwritten"))
    PROVE  Space'
<1>1. \A i \in Inodes : inodes'[i] = IF i = k THEN inode ELSE inodes[i]
  BY DEF PutInode, Exclusive
<1>2. \A i \in Inodes : inodes'[i].type = "unwritten" => inodes'[i].extents = <<>>
  BY <1>1 DEF Space
<1>3. ASSUME clean'
      PROVE  /\ taken'.block = Reserved.block \cup HeldBlock' \cup Mapped(inodes')
             /\ taken'.inode = Reserved.inode \cup HeldInode' \cup Written(inodes')
  <2>1. /\ taken.block = Reserved.block \cup HeldBlock \cup Mapped(inodes)
        /\ taken.inode = Reserved.inode \cup HeldInode \cup Written(inodes)
    BY <1>3 DEF Space, SpaceAccounted
  <2>2. ASSUME NEW b
        PROVE  b \in HeldBlock' \cup Mapped(inodes') <=> b \in HeldBlock \cup Mapped(inodes)
    <3>1. b \in Mapped(inodes') <=> \E i \in Inodes : b \in ToSet(inodes'[i].extents)
      BY DEF Mapped
    <3>2. b \in Mapped(inodes) <=> \E i \in Inodes : b \in ToSet(inodes[i].extents)
      BY DEF Mapped
    <3>3. \A i \in Inodes : b \in ToSet(inodes'[i].extents) <=>
            IF i = k THEN b \in ToSet(inode.extents) ELSE b \in ToSet(inodes[i].extents)
      BY <1>1
    <3>4. b \in HeldBlock' \/ b \in ToSet(inode.extents) <=>
            b \in HeldBlock \/ b \in ToSet(inodes[k].extents)
      BY <1>3
    <3>5. QED
      BY <3>1, <3>2, <3>3, <3>4
  <2>3. HeldInode' \cup Written(inodes') = HeldInode \cup Written(inodes)
    <3>1. Written(inodes') = Written(inodes) \cup {k}
      BY <1>1 DEF Written
    <3>2. inodes[k].type # "unwritten" => k \in Written(inodes)
      BY DEF Written
    <3>3. QED
      BY <1>3, <3>1, <3>2
  <2>4. QED
    BY <2>1, <2>2, <2>3
<1>4. QED
  BY <1>2, <1>3 DEF Space, SpaceAccounted

\* A call that ends by an error has leaked what it held.
LEMMA FailSpace == ASSUME Space, Fail PROVE Space'
BY DEF Fail, disk, Space, SpaceAccounted

LEMMA AllocateInodeSpace ==
    ASSUME Exclusive, CallIsRecord, Space, AllocateInode
    PROVE  Space'
<1>1. At("allocate_inode")
  BY Zenon DEF AllocateInode
<1>2. call # Idle /\ call.pc = "allocate_inode"
  BY <1>1 DEF At, Idle
<1>3. CASE Fail
  BY <1>3, FailSpace
<1>4. CASE ~ Fail
  <2>1. PICK i \in Candidates(Inodes \ taken.inode) :
            /\ Take("inode", i)
            /\ call' = [call EXCEPT !.ino = i,
                            !.pc = IF call.op = "mkdir" THEN "allocate_dots" ELSE "new_file"]
            /\ UNCHANGED <<inodes, content, history>>
    BY <1>4 DEF AllocateInode
  <2>2. i \in Inodes
    <3>1. Inodes \ taken.inode \in SUBSET Inodes
      OBVIOUS
    <3>2. QED
      BY <2>1, <3>1, CandidatesAssumption
  <2>3. taken'.block = taken.block /\ taken'.inode = taken.inode \cup {i}
    BY <2>1, <2>2 DEF Take, Exclusive, Bitmaps
  <2>4. call'.pc \in {"allocate_dots", "new_file"} /\ call'.ino = i
    BY <1>2, <2>1, GoesOnFor
  <2>5. HeldBlock' = {} /\ HeldInode' = {i} /\ HeldBlock = {} /\ HeldInode = {}
    BY <1>2, <2>4 DEF HeldBlock, HeldInode
  <2>6. UNCHANGED <<inodes, clean>>
    BY <2>1 DEF history
  <2>7. QED
    BY <2>3, <2>5, <2>6 DEF Space, SpaceAccounted
<1>5. QED
  BY <1>3, <1>4

LEMMA AllocateBlockSpace ==
    ASSUME Exclusive, CallIsRecord, Space, AllocateDots \/ Grow \/ AllocateData
    PROVE  Space'
<1>1. ASSUME NEW from, NEW to, call # Idle, call.pc = from, AllocateBlockThen(to),
             \/ from = "allocate_dots" /\ to = "write_dots"
             \/ from = "add" /\ to = "write_entry"
             \/ from = "data" /\ to = "write_data"
      PROVE  Space'
  <2>1. CASE Fail
    BY <2>1, FailSpace
  <2>2. CASE ~ Fail
    <3>1. PICK b \in Candidates(Blocks \ taken.block) :
            /\ Take("block", b)
            /\ call' = [call EXCEPT !.pc = to, !.block = b]
            /\ UNCHANGED <<inodes, content, history>>
      BY <1>1, <2>2 DEF AllocateBlockThen
    <3>2. call'.pc = to /\ call'.ino = call.ino /\ call'.block = b
      BY <1>1, <3>1, GoesOnWith
    <3>3. taken'.inode = taken.inode /\ taken'.block = taken.block \cup {b}
      BY <3>1 DEF Take, Exclusive, Bitmaps
    <3>4. HeldBlock = {} /\ HeldBlock' = {b} /\ HeldInode' = HeldInode
      BY <1>1, <3>2 DEF HeldBlock, HeldInode
    <3>5. UNCHANGED <<inodes, clean>>
      BY <3>1 DEF history
    <3>6. QED
      BY <3>3, <3>4, <3>5 DEF Space, SpaceAccounted
  <2>3. QED
    BY <2>1, <2>2
<1>2. CASE AllocateDots
  BY <1>1, <1>2 DEF AllocateDots, At, Idle
<1>3. CASE Grow
  BY <1>1, <1>3 DEF Grow, At, Idle
<1>4. CASE AllocateData
  BY <1>1, <1>4 DEF AllocateData, At, Idle
<1>5. QED
  BY <1>2, <1>3, <1>4

\* The writes of blocks and of inodes that keep their blocks.
LEMMA KeepSpace ==
    ASSUME CallIsRecord, Space, call # Idle, UNCHANGED <<inodes, taken, history>>,
           NEW to, Goto(to),
           \/ call.pc = "write_dots" /\ to = "new_dir"
           \/ call.pc = "write_entry" /\ to = "append_entry"
           \/ call.pc = "write_data" /\ to = "append_data"
           \/ call.pc = "add" /\ to \in {"links", "data"}
    PROVE  Space'
<1>1. call'.pc = to /\ call'.ino = call.ino /\ call'.block = call.block
  BY GoesOn
<1>2. HeldBlock' = HeldBlock /\ HeldInode' = HeldInode
  BY <1>1 DEF HeldBlock, HeldInode
<1>3. QED
  BY <1>2, SpaceFrame DEF history

LEMMA WriteBlockSpace ==
    ASSUME CallIsRecord, Space, WriteDots \/ WriteEntry \/ WriteData \/ AddInPlace
    PROVE  Space'
<1>1. CASE WriteDots
  BY <1>1, KeepSpace DEF WriteDots, At, Idle
<1>2. CASE WriteEntry
  BY <1>2, KeepSpace DEF WriteEntry, At, Idle
<1>3. CASE WriteData
  BY <1>3, KeepSpace DEF WriteData, At, Idle
<1>4. CASE AddInPlace
  <2>1. PICK pc \in {"links", "data"} : Goto(pc)
    BY <1>4 DEF AddInPlace, AfterAdd
  <2>2. UNCHANGED <<inodes, taken, history>> /\ call # Idle /\ call.pc = "add"
    BY <1>4 DEF AddInPlace, At, Idle
  <2>3. QED
    BY <2>1, <2>2, KeepSpace
<1>5. QED
  BY <1>1, <1>2, <1>3, <1>4

\* The writes of an inode that keeps its type and its extents.
LEMMA SizeDirSpace ==
    ASSUME Exclusive, CallIsRecord, Control, Space, SizeNewDir \/ SizeParent \/ CountLink
    PROVE  Space'
<1>1. ASSUME NEW k \in Inodes, NEW inode, PutInode(k, inode), IsDir(k),
             inode.type = inodes[k].type, inode.extents = inodes[k].extents,
             UNCHANGED <<taken, clean>>, call # Idle,
             call.pc \in {"size_dir", "size_parent", "links"},
             NEW to \in {"add", "links", "data", "flush"}, Goto(to)
      PROVE  Space'
  <2>1. call'.pc = to
    BY <1>1, GoesOn
  <2>2. HeldBlock' = {} /\ HeldInode' = {} /\ HeldBlock = {} /\ HeldInode = {}
    BY <1>1, <2>1 DEF HeldBlock, HeldInode
  <2>3. inode.type # "unwritten" /\ inodes[k].type # "unwritten"
    BY <1>1 DEF IsDir
  <2>4. QED
    BY <1>1, <2>2, <2>3, PutSpace
<1>2. CASE SizeNewDir
  <2> DEFINE inode == [inodes[call.ino] EXCEPT !.size = 1, !.blocks = 1]
  <2>1. inode.type = inodes[call.ino].type /\ inode.extents = inodes[call.ino].extents
    OBVIOUS
  <2>2. /\ PutInode(call.ino, inode) /\ Goto("add") /\ call.pc = "size_dir" /\ call # Idle
        /\ UNCHANGED <<taken, clean>>
    BY <1>2 DEF SizeNewDir, At, Idle, history
  <2> HIDE DEF inode
  <2>3. call.ino \in Inodes /\ IsDir(call.ino)
    BY <2>2, ControlSplit
  <2>4. QED
    BY <1>1, <2>1, <2>2, <2>3
<1>3. CASE SizeParent
  <2> DEFINE inode == [inodes[call.parent] EXCEPT !.size = @ + 1]
  <2>1. inode.type = inodes[call.parent].type /\ inode.extents = inodes[call.parent].extents
    OBVIOUS
  <2>2. /\ PutInode(call.parent, inode) /\ call.pc = "size_parent" /\ call # Idle
        /\ UNCHANGED <<taken, clean>>
    BY <1>3 DEF SizeParent, At, Idle, history
  <2>3. PICK pc \in {"links", "data"} : Goto(pc)
    BY <1>3 DEF SizeParent, AfterAdd
  <2> HIDE DEF inode
  <2>4. call.parent \in Inodes /\ IsDir(call.parent)
    BY <2>2, ControlSplit DEF ParentPcs
  <2>5. QED
    BY <1>1, <2>1, <2>2, <2>3, <2>4
<1>4. CASE CountLink
  <2> DEFINE inode == [inodes[call.parent] EXCEPT !.links = @ + 1]
  <2>1. inode.type = inodes[call.parent].type /\ inode.extents = inodes[call.parent].extents
    OBVIOUS
  <2>2. /\ PutInode(call.parent, inode) /\ Goto("flush") /\ call.pc = "links" /\ call # Idle
        /\ UNCHANGED <<taken, clean>>
    BY <1>4 DEF CountLink, At, Idle, history
  <2> HIDE DEF inode
  <2>3. call.parent \in Inodes /\ IsDir(call.parent)
    BY <2>2, ControlSplit DEF ParentPcs
  <2>4. QED
    BY <1>1, <2>1, <2>2, <2>3
<1>5. QED
  BY <1>2, <1>3, <1>4

\* The write of an inode that takes in the block which the call holds.
LEMMA AppendSpace ==
    ASSUME Exclusive, CallIsRecord, Space, call # Idle, HeldBlock = {call.block},
           NEW k \in Inodes, NEW inode, PutInode(k, inode), inode.type # "unwritten",
           UNCHANGED taken, clean' => clean,
           NEW kept \in Seq(Blocks), inode.extents = Append(kept, call.block),
           clean' => kept = inodes[k].extents,
           HeldInode = {k} \/ (HeldInode = {} /\ inodes[k].type # "unwritten"),
           call'.pc \in {"size_dir", "size_parent", "data"}
    PROVE  Space'
<1>1. call.block \in Blocks
  BY DEF Exclusive, HeldIsUnmapped
<1>2. HeldBlock' = {} /\ HeldInode' = {}
  BY DEF HeldBlock, HeldInode
<1>3. OneMore(kept, call.block, inode.extents)
  BY <1>1, AppendIs
<1>4. ASSUME NEW b
      PROVE  b \in ToSet(inode.extents) <=> b = call.block \/ b \in ToSet(kept)
  BY <1>3 DEF OneMore, ToSet
<1>5. clean' => \A b : b \in HeldBlock' \/ b \in ToSet(inode.extents) <=>
                       b \in HeldBlock \/ b \in ToSet(inodes[k].extents)
  BY <1>2, <1>4
<1>6. QED
  BY <1>2, <1>5, PutSpace

LEMMA WriteNewFileSpace ==
    ASSUME Exclusive, CallIsRecord, Control, Linking, Space, WriteNewFile
    PROVE  Space'
<1> DEFINE inode == NewInode("file", 1)
<1> PICK k \in Inodes : k = call.ino
  BY ControlSplit DEF WriteNewFile, At, Idle
<1>1. /\ call # Idle /\ call.pc = "new_file" /\ PutInode(k, inode) /\ Goto("add")
      /\ UNCHANGED <<taken, clean>>
  BY DEF WriteNewFile, At, Idle
<1>2. inode.type # "unwritten" /\ inode.extents = <<>>
  BY DEF NewInode, Unwritten
<1> HIDE DEF inode
<1>3. inodes[k].extents = <<>>
  BY <1>1 DEF Linking, CallLinks, NewPcs, Space
<1>4. call'.pc = "add"
  BY <1>1, GoesOn
<1>5. HeldBlock = {} /\ HeldBlock' = {} /\ HeldInode = {k} /\ HeldInode' = {}
  BY <1>1, <1>4 DEF HeldBlock, HeldInode
<1>6. QED
  BY <1>1, <1>2, <1>3, <1>5, PutSpace

LEMMA WriteNewDirSpace ==
    ASSUME Exclusive, CallIsRecord, Control, Linking, Space, WriteNewDir
    PROVE  Space'
<1> PICK k \in Inodes : k = call.ino
  BY ControlSplit DEF WriteNewDir, At, Idle
<1>1. call # Idle /\ call.pc = "new_dir" /\ AppendExtentThen(k, NewInode("dir", 2), "size_dir")
  BY DEF WriteNewDir, At, Idle
<1>2. CASE Fail
  BY <1>2, FailSpace
<1>3. CASE ~ Fail
  <2> DEFINE inode == [NewInode("dir", 2) EXCEPT !.extents = Append(@, call.block)]
  <2>1. PutInode(k, inode) /\ Goto("size_dir") /\ UNCHANGED <<taken, clean>>
    BY <1>1, <1>3 DEF AppendExtentThen, history
  <2>2. inode.type # "unwritten" /\ inode.extents = Append(<<>>, call.block) /\ <<>> \in Seq(Blocks)
    BY DEF NewInode, Unwritten
  <2> HIDE DEF inode
  <2>3. inodes[k].extents = <<>>
    BY <1>1 DEF Linking, CallLinks, NewPcs, Space
  <2>4. HeldBlock = {call.block} /\ HeldInode = {k}
    BY <1>1 DEF HeldBlock, HeldInode
  <2>5. call'.pc = "size_dir"
    BY <1>1, <2>1, GoesOn
  <2>6. QED
    BY <1>1, <2>1, <2>2, <2>3, <2>4, <2>5, AppendSpace
<1>4. QED
  BY <1>2, <1>3

LEMMA AppendEntrySpace ==
    ASSUME Exclusive, CallIsRecord, Control, Space, AppendEntry
    PROVE  Space'
<1> PICK k \in Inodes : k = call.parent /\ IsDir(k)
  BY ControlSplit DEF AppendEntry, At, Idle, ParentPcs
<1>1. /\ call # Idle /\ call.pc = "append_entry"
      /\ AppendExtentThen(k, inodes[k], "size_parent")
  BY DEF AppendEntry, At, Idle
<1>2. CASE Fail
  BY <1>2, FailSpace
<1>3. CASE ~ Fail
  <2> DEFINE inode == [inodes[k] EXCEPT !.extents = Append(@, call.block)]
             kept == inodes[k].extents
  <2>1. PutInode(k, inode) /\ Goto("size_parent") /\ UNCHANGED <<taken, clean>>
    BY <1>1, <1>3 DEF AppendExtentThen, history
  <2>2. inodes[k] \in InodeRecords
    BY DEF Exclusive
  <2>3. inode.type = "dir" /\ inode.extents = Append(kept, call.block) /\ kept \in Seq(Blocks)
    BY <2>2 DEF InodeRecords, IsDir
  <2> HIDE DEF inode, kept
  <2>4. HeldBlock = {call.block} /\ HeldInode = {} /\ inodes[k].type # "unwritten"
    BY <1>1 DEF HeldBlock, HeldInode, IsDir
  <2>5. call'.pc = "size_parent"
    BY <1>1, <2>1, GoesOn
  <2>6. QED
    BY <1>1, <2>1, <2>3, <2>4, <2>5, AppendSpace DEF kept
<1>4. QED
  BY <1>2, <1>3

LEMMA AppendDataSpace ==
    ASSUME Exclusive, CallIsRecord, Control, Reading, Linking, Space, AppendData
    PROVE  Space'
<1> DEFINE old == inodes[call.ino]
           kept == IF call.done = 0 THEN <<>> ELSE old.extents
           inode == IF call.done = 0 THEN [old EXCEPT !.extents = <<>>] ELSE old
           appended == [inode EXCEPT !.extents = Append(@, call.block)]
<1>1. call # Idle /\ call.pc = "append_data"
  BY DEF AppendData, At, Idle
<1> PICK k \in Inodes : k = call.ino /\ IsFile(k)
  BY <1>1, ControlSplit DEF DataPcs, Linking, CallLinks
<1>2. CASE Fail
  BY <1>2, FailSpace
<1>3. CASE ~ Fail
  <2>1. /\ PutInode(call.ino, appended) /\ UNCHANGED taken
        /\ call' = [call EXCEPT !.pc = "data", !.done = @ + 1]
        /\ clean' = (clean /\ (call.done = 0 => old.extents = <<>>))
    BY <1>3 DEF AppendData
  <2>2. old \in InodeRecords
    BY DEF Exclusive
  <2>3. inode.extents = kept /\ inode.type = "file" /\ inode \in InodeRecords
    <3>1. <<>> \in Seq(Blocks)
      OBVIOUS
    <3>2. QED
      BY <2>2, <3>1 DEF InodeRecords, IsFile
  <2>4. kept \in Seq(Blocks) /\ (clean' => clean /\ kept = old.extents)
    BY <2>1, <2>3 DEF InodeRecords, Reading
  <2> HIDE DEF inode, kept
  <2>5. appended.type = "file" /\ appended.extents = Append(kept, call.block)
    BY <2>3 DEF InodeRecords
  <2> HIDE DEF appended
  <2>6. HeldBlock = {call.block} /\ HeldInode = {} /\ inodes[k].type # "unwritten"
    BY <1>1 DEF HeldBlock, HeldInode, IsFile
  <2>7. call'.pc = "data"
    BY <1>1, <2>1, GoesOnPast
  <2>8. QED
    BY <1>1, <2>1, <2>4, <2>5, <2>6, <2>7, AppendSpace
<1>4. QED
  BY <1>2, <1>3

LEMMA SizeFileSpace ==
    ASSUME Exclusive, CallIsRecord, Control, Reading, Linking, Space, SizeFile
    PROVE  Space'
<1> DEFINE old == inodes[call.ino]
           inode == [old EXCEPT !.extents = IF call.done = 0 THEN <<>> ELSE @,
                                !.size = Len(call.data), !.blocks = Len(call.data)]
<1>1. /\ call # Idle /\ call.pc = "data" /\ PutInode(call.ino, inode) /\ UNCHANGED taken
      /\ Goto("flush") /\ clean' = (clean /\ (call.done = 0 => old.extents = <<>>))
  BY DEF SizeFile, At, Idle
<1> PICK k \in Inodes : k = call.ino /\ IsFile(k)
  BY <1>1, ControlSplit DEF DataPcs, Linking, CallLinks
<1>2. old \in InodeRecords
  BY DEF Exclusive
<1>3. inode.type = "file" /\ inode.extents = IF call.done = 0 THEN <<>> ELSE old.extents
  BY <1>2 DEF InodeRecords, IsFile
<1>4. clean' => clean /\ inode.extents = old.extents
  BY <1>1, <1>3 DEF Reading
<1> HIDE DEF inode
<1>5. call'.pc = "flush"
  BY <1>1, GoesOn
<1>6. /\ HeldBlock = {} /\ HeldBlock' = {} /\ HeldInode = {} /\ HeldInode' = {}
      /\ inodes[k].type # "unwritten"
  BY <1>1, <1>5 DEF HeldBlock, HeldInode, IsFile
<1>7. QED
  BY <1>1, <1>3, <1>4, <1>6, PutSpace

LEMMA StartSpace ==
    ASSUME Space, NEW op, NEW path, NEW name, NEW data, Start(op, path, name, data)
    PROVE  Space'
<1> DEFINE new == [pc |-> "allocate_inode", op |-> op, parent |-> Resolve(path), name |-> name,
                   data |-> data, ino |-> Root, block |-> CHOOSE b \in Blocks : TRUE,
                   done |-> 0]
<1>1. /\ call = Idle /\ UNCHANGED <<inodes, taken, clean>>
      /\ call' = new \/ \E f : call' = [new EXCEPT !.pc = "data", !.ino = f]
  BY DEF Start, disk, history
<1>2. call'.pc \in {"allocate_inode", "data"}
  <2>1. CASE call' = new
    BY <2>1
  <2>2. CASE \E f : call' = [new EXCEPT !.pc = "data", !.ino = f]
    BY <2>2
  <2>3. QED
    BY <1>1, <2>1, <2>2
<1>3. HeldBlock = {} /\ HeldBlock' = {} /\ HeldInode = {} /\ HeldInode' = {}
  BY <1>1, <1>2 DEF HeldBlock, HeldInode, Idle
<1>4. QED
  BY <1>1, <1>3, SpaceFrame

LEMMA SpaceNext ==
    ASSUME Exclusive, CallIsRecord, Control, Reading, Linking, Space, Next
    PROVE  Space'
<1>1. CASE WriteFile
  BY <1>1, StartSpace DEF WriteFile
<1>2. CASE Mkdir
  BY <1>2, StartSpace DEF Mkdir
<1>3. CASE AllocateInode
  BY <1>3, AllocateInodeSpace
<1>4. CASE AllocateDots \/ Grow \/ AllocateData
  BY <1>4, AllocateBlockSpace
<1>5. CASE WriteNewFile
  BY <1>5, WriteNewFileSpace
<1>6. CASE WriteDots \/ WriteEntry \/ WriteData \/ AddInPlace
  BY <1>6, WriteBlockSpace
<1>7. CASE WriteNewDir
  BY <1>7, WriteNewDirSpace
<1>8. CASE AppendEntry
  BY <1>8, AppendEntrySpace
<1>9. CASE SizeNewDir \/ SizeParent \/ CountLink
  BY <1>9, SizeDirSpace
<1>10. CASE AppendData
  BY <1>10, AppendDataSpace
<1>11. CASE SizeFile
  BY <1>11, SizeFileSpace
<1>12. CASE Return
  <2>1. UNCHANGED <<inodes, taken, clean>> /\ call.pc = "flush" /\ call' = Idle
    BY <1>12 DEF Return, disk, history, At
  <2>2. HeldBlock' = HeldBlock /\ HeldInode' = HeldInode
    BY <2>1 DEF HeldBlock, HeldInode, Idle
  <2>3. QED
    BY <2>1, <2>2, SpaceFrame
<1>13. CASE Abort
  BY <1>13, FailSpace DEF Abort
<1>14. QED
  BY <1>1, <1>2, <1>3, <1>4, <1>5, <1>6, <1>7, <1>8, <1>9, <1>10, <1>11, <1>12, <1>13
     DEF Next, Step

LEMMA SpaceInit == Init => Space
<1>1. SUFFICES ASSUME Init PROVE Space
  OBVIOUS
<1>2. PICK image \in Images : inodes = image.inodes /\ taken = image.taken
  BY <1>1 DEF Init
<1>3. /\ taken.block = Reserved.block \cup Mapped(inodes)
      /\ taken.inode = Reserved.inode \cup Written(inodes)
      /\ \A i \in Inodes : inodes[i].type = "unwritten" => inodes[i].extents = <<>>
  BY <1>2, ImagesAssumption
<1>4. HeldBlock = {} /\ HeldInode = {}
  BY <1>1 DEF Init, HeldBlock, HeldInode, Idle
<1>5. QED
  BY <1>3, <1>4 DEF Space, SpaceAccounted

\* As long as no call has failed and no file that had blocks was rewritten,
\* every set bit of the bitmaps is that of a block or an inode in use, or of
\* the one that the call in progress is about to use: nothing is leaked, and
\* nothing in use is free, in the middle of a call either.
THEOREM SpaceIsAccounted == Spec => []SpaceAccounted
<1>1. Exclusive /\ CallIsRecord /\ Control /\ Reading /\ Linking /\ Space /\ [Next]_vars => Space'
  <2> SUFFICES ASSUME Exclusive, CallIsRecord, Control, Reading, Linking, Space, [Next]_vars
               PROVE  Space'
    OBVIOUS
  <2>1. CASE Next
    BY <2>1, SpaceNext
  <2>2. CASE UNCHANGED vars
    <3>1. UNCHANGED <<inodes, taken, call, clean>>
      BY <2>2 DEF vars
    <3>2. QED
      BY <3>1, SpaceFrame DEF HeldBlock, HeldInode
  <2>3. QED
    BY <2>1, <2>2
<1>2. Space => SpaceAccounted
  BY DEF Space
<1>3. QED
  BY <1>1, <1>2, SpaceInit, LinkingAlways, PTL DEF Spec

-----------------------------------------------------------------------------
(* Links.                                                                  *)

\* The link that mkdir is about to count, to the parent of the directory that
\* it has written.
MkdirPcs == {"size_dir", "links"} \cup AddPcs
Pending(d) ==
    IF call # Idle /\ call.op = "mkdir" /\ call.pc \in MkdirPcs /\ call.parent = d THEN 1 ELSE 0

\* LinksCounted, inductive: with the link to be counted, and exact in the
\* middle of a call, too.
Counted ==
    /\ IsDir(Root)
    /\ \A d \in Inodes : IsDir(d) =>
        /\ inodes[d].links + Pending(d) <= 2 + Cardinality(Children(d))
        /\ clean => inodes[d].links + Pending(d) = 2 + Cardinality(Children(d))

LEMMA ChildrenFinite ==
    ASSUME NEW d
    PROVE  IsFiniteSet(Children(d)) /\ Cardinality(Children(d)) \in Nat
<1>1. Children(d) \subseteq Inodes
  BY DEF Children, ChildrenOf
<1>2. QED
  BY <1>1, InodesAssumption, FS_Subset, FS_CardinalityType

LEMMA LinksAreNat == ASSUME Exclusive, NEW d \in Inodes PROVE inodes[d].links \in Nat
<1>1. inodes[d] \in InodeRecords
  BY DEF Exclusive
<1>2. QED
  BY <1>1 DEF InodeRecords

LEMMA PendingIs == \A d : Pending(d) \in {0, 1}
BY DEF Pending

LEMMA ChildrenAre ==
    \A d : Children(d) = {i \in Inodes \ {Root} : IsDir(i) /\ Lookup(i, DotDot) = d}
BY DEF Children, ChildrenOf, IsDir, Lookup, DirBlocks

\* A step that makes no directory and counts no link.
SameDirs == \A i \in Inodes : IsDir(i)' => IsDir(i) /\ inodes'[i].links = inodes[i].links

LEMMA ChildrenKept ==
    ASSUME \A i \in Inodes : DirKept(i), \A i \in Inodes : IsDir(i)' => IsDir(i)
    PROVE  \A d : Children(d)' = Children(d)
<1>1. \A i \in Inodes : (IsDir(i)' <=> IsDir(i)) /\ (IsDir(i) => Lookup(i, DotDot)' = Lookup(i, DotDot))
  BY DEF DirKept, ParentKept
<1>2. \A d : Children(d) = {i \in Inodes \ {Root} : IsDir(i) /\ Lookup(i, DotDot) = d}
  BY ChildrenAre
<1>3. \A d : Children(d)' = {i \in Inodes \ {Root} : IsDir(i)' /\ Lookup(i, DotDot)' = d}
  BY DEF Children, ChildrenOf, IsDir, Lookup, DirBlocks
<1>4. QED
  BY <1>1, <1>2, <1>3

LEMMA CountedFrame ==
    ASSUME Exclusive, Counted, \A i \in Inodes : DirKept(i), SameDirs, clean' => clean,
           \A d : Pending(d)' = 0 \/ Pending(d)' = Pending(d),
           clean' => \A d : Pending(d)' = Pending(d)
    PROVE  Counted'
<1>1. \A i \in Inodes : IsDir(i)' <=> IsDir(i)
  BY DEF DirKept, ParentKept, SameDirs
<1>2. \A d : Children(d)' = Children(d)
  BY <1>1, ChildrenKept
<1>3. IsDir(Root)'
  BY <1>1, InodesAssumption DEF Counted
<1>4. ASSUME NEW d \in Inodes, IsDir(d)'
      PROVE  /\ inodes'[d].links + Pending(d)' <= 2 + Cardinality(Children(d)')
             /\ clean' => inodes'[d].links + Pending(d)' = 2 + Cardinality(Children(d)')
  <2>1. IsDir(d) /\ inodes'[d].links = inodes[d].links
    BY <1>4 DEF SameDirs
  <2>2. /\ inodes[d].links + Pending(d) <= 2 + Cardinality(Children(d))
        /\ clean => inodes[d].links + Pending(d) = 2 + Cardinality(Children(d))
    BY <2>1 DEF Counted
  <2>3. inodes[d].links \in Nat /\ Cardinality(Children(d)) \in Nat /\ Pending(d) \in {0, 1}
    BY ChildrenFinite, LinksAreNat, PendingIs
  <2>4. Pending(d)' <= Pending(d) /\ (clean' => clean /\ Pending(d)' = Pending(d))
    BY <2>3
  <2>5. Pending(d)' \in {0, 1}
    BY <2>3
  <2>6. Children(d)' = Children(d)
    BY <1>2
  <2> HIDE DEF Pending
  <2>7. QED
    BY <2>1, <2>2, <2>3, <2>4, <2>5, <2>6
<1>5. QED
  BY <1>3, <1>4 DEF Counted

\* What is pending when a call goes on.
LEMMA PendingKept ==
    ASSUME call # Idle, call' # Idle, call'.op = call.op, call'.parent = call.parent,
           call.op = "mkdir" => (call.pc \in MkdirPcs <=> call'.pc \in MkdirPcs)
    PROVE  \A d : Pending(d)' = Pending(d)
BY DEF Pending

\* The steps that write no directory's links.
LEMMA PutSameDirs ==
    ASSUME Exclusive, NEW k \in Inodes, NEW inode, PutInode(k, inode),
           inode.type = "dir" => inodes[k].type = "dir" /\ inode.links = inodes[k].links
    PROVE  SameDirs
BY DEF SameDirs, PutInode, Exclusive, IsDir

LEMMA FailCounted ==
    ASSUME Exclusive, Counted, \A i \in Inodes : DirKept(i), Fail
    PROVE  Counted'
<1>1. SameDirs /\ ~ clean'
  BY DEF SameDirs, Fail, disk, IsDir
<1>2. \A d : Pending(d)' = 0
  BY DEF Fail, Pending
<1>3. QED
  BY <1>1, <1>2, CountedFrame

\* The steps that write no inode.
LEMMA GoOnCounted ==
    ASSUME Exclusive, CallIsRecord, Linking, Counted, \A i \in Inodes : DirKept(i),
           AllocateInode \/ AllocateDots \/ Grow \/ AllocateData
             \/ WriteDots \/ WriteEntry \/ WriteData \/ AddInPlace
    PROVE  Counted'
<1>1. CASE Fail
  BY <1>1, FailCounted
<1>2. ASSUME UNCHANGED <<inodes, clean>>, call # Idle, call' # Idle,
             call'.op = call.op, call'.parent = call.parent,
             call.op = "mkdir" => (call.pc \in MkdirPcs <=> call'.pc \in MkdirPcs)
      PROVE  Counted'
  <2>1. SameDirs
    BY <1>2 DEF SameDirs, IsDir
  <2>2. QED
    BY <1>2, <2>1, CountedFrame, PendingKept
<1>3. CASE ~ Fail /\ AllocateInode
  <2>1. At("allocate_inode")
    BY <1>3, Zenon DEF AllocateInode
  <2>2. call # Idle /\ call.pc = "allocate_inode"
    BY <2>1 DEF At, Idle
  <2>3. PICK i : /\ call' = [call EXCEPT !.ino = i,
                                !.pc = IF call.op = "mkdir" THEN "allocate_dots" ELSE "new_file"]
                 /\ UNCHANGED <<inodes, content, history>>
    BY <1>3 DEF AllocateInode
  <2>4. /\ call' # Idle /\ call'.pc \in {"allocate_dots", "new_file"}
        /\ call'.op = call.op /\ call'.parent = call.parent
    BY <2>2, <2>3, GoesOnFor
  <2>5. QED
    BY <1>2, <2>2, <2>3, <2>4 DEF MkdirPcs, AddPcs, history
<1>4. ASSUME NEW from, NEW to, call # Idle, call.pc = from, AllocateBlockThen(to), ~ Fail,
             \/ from = "allocate_dots" /\ to = "write_dots"
             \/ from = "add" /\ to = "write_entry"
             \/ from = "data" /\ to = "write_data"
      PROVE  Counted'
  <2>1. PICK b : /\ call' = [call EXCEPT !.pc = to, !.block = b]
                 /\ UNCHANGED <<inodes, content, history>>
    BY <1>4 DEF AllocateBlockThen
  <2>2. call' # Idle /\ call'.pc = to /\ call'.op = call.op /\ call'.parent = call.parent
    BY <1>4, <2>1, GoesOnWith
  <2>3. QED
    BY <1>2, <1>4, <2>1, <2>2 DEF MkdirPcs, AddPcs, history
<1>5. ASSUME NEW to, call # Idle, Goto(to), UNCHANGED <<inodes, clean>>,
             call.op = "mkdir" => (call.pc \in MkdirPcs <=> to \in MkdirPcs)
      PROVE  Counted'
  BY <1>2, <1>5, GoesOn
<1>6. CASE ~ Fail /\ AllocateDots
  BY <1>4, <1>6 DEF AllocateDots, At, Idle
<1>7. CASE ~ Fail /\ Grow
  BY <1>4, <1>7 DEF Grow, At, Idle
<1>8. CASE ~ Fail /\ AllocateData
  BY <1>4, <1>8 DEF AllocateData, At, Idle
<1>9. CASE WriteDots
  BY <1>5, <1>9 DEF WriteDots, At, Idle, MkdirPcs, AddPcs, history
<1>10. CASE WriteEntry
  BY <1>5, <1>10 DEF WriteEntry, At, Idle, MkdirPcs, AddPcs, history
<1>11. CASE WriteData
  BY <1>5, <1>11 DEF WriteData, At, Idle, MkdirPcs, AddPcs, history
<1>12. CASE AddInPlace
  <2>1. /\ call # Idle /\ call.pc = "add" /\ Goto(AfterAdd) /\ UNCHANGED <<inodes, clean>>
    BY <1>12 DEF AddInPlace, At, Idle, history
  <2>2. call.op = "mkdir" => AfterAdd = "links"
    BY DEF AfterAdd
  <2>3. QED
    BY <1>5, <2>1, <2>2 DEF MkdirPcs, AddPcs
<1>13. QED
  BY <1>1, <1>3, <1>6, <1>7, <1>8, <1>9, <1>10, <1>11, <1>12

LEMMA PutDirsCounted ==
    ASSUME Exclusive, CallIsRecord, Counted, \A i \in Inodes : DirKept(i),
           call # Idle, clean' => clean,
           NEW k \in Inodes, NEW inode, PutInode(k, inode),
           inode.type = "dir" => inodes[k].type = "dir" /\ inode.links = inodes[k].links,
           call' # Idle, call'.op = call.op, call'.parent = call.parent,
           call.op = "mkdir" => (call.pc \in MkdirPcs <=> call'.pc \in MkdirPcs)
    PROVE  Counted'
<1>1. SameDirs
  BY PutSameDirs
<1>2. \A d : Pending(d)' = Pending(d)
  BY PendingKept
<1>3. QED
  BY <1>1, <1>2, CountedFrame

LEMMA WriteInodeCounted ==
    ASSUME Exclusive, CallIsRecord, Control, Reading, Linking, Counted,
           \A i \in Inodes : DirKept(i),
           WriteNewFile \/ SizeNewDir \/ SizeParent \/ AppendEntry \/ AppendData \/ SizeFile
    PROVE  Counted'
<1>1. CASE Fail
  BY <1>1, FailCounted
<1>2. CASE WriteNewFile
  <2>1. /\ call # Idle /\ call.pc = "new_file" /\ PutInode(call.ino, NewInode("file", 1))
        /\ Goto("add") /\ UNCHANGED clean
    BY <1>2 DEF WriteNewFile, At, Idle
  <2>2. call.ino \in Inodes /\ call.op # "mkdir"
    BY <2>1, ControlSplit DEF Linking, CallLinks
  <2>3. NewInode("file", 1).type = "file"
    BY DEF NewInode, Unwritten
  <2>4. call' # Idle /\ call'.op = call.op /\ call'.parent = call.parent
    BY <2>1, GoesOn
  <2>5. QED
    BY <2>1, <2>2, <2>3, <2>4, PutDirsCounted
<1>3. CASE SizeNewDir
  <2> DEFINE inode == [inodes[call.ino] EXCEPT !.size = 1, !.blocks = 1]
  <2>1. /\ call # Idle /\ call.pc = "size_dir" /\ PutInode(call.ino, inode)
        /\ Goto("add") /\ UNCHANGED clean
    BY <1>3 DEF SizeNewDir, At, Idle, history
  <2>2. inode.type = inodes[call.ino].type /\ inode.links = inodes[call.ino].links
    OBVIOUS
  <2> HIDE DEF inode
  <2>3. call.ino \in Inodes
    BY <2>1, ControlSplit
  <2>4. call' # Idle /\ call'.op = call.op /\ call'.parent = call.parent /\ call'.pc = "add"
    BY <2>1, GoesOn
  <2>5. QED
    BY <2>1, <2>2, <2>3, <2>4, PutDirsCounted DEF MkdirPcs, AddPcs
<1>4. CASE SizeParent
  <2> DEFINE inode == [inodes[call.parent] EXCEPT !.size = @ + 1]
  <2>1. /\ call # Idle /\ call.pc = "size_parent" /\ PutInode(call.parent, inode)
        /\ Goto(AfterAdd) /\ UNCHANGED clean
    BY <1>4 DEF SizeParent, At, Idle, history
  <2>2. inode.type = inodes[call.parent].type /\ inode.links = inodes[call.parent].links
    OBVIOUS
  <2> HIDE DEF inode
  <2>3. call.parent \in Inodes
    BY <2>1, ControlSplit DEF ParentPcs
  <2>4. call' # Idle /\ call'.op = call.op /\ call'.parent = call.parent /\ call'.pc = AfterAdd
    BY <2>1, GoesOn
  <2>5. call.op = "mkdir" => AfterAdd = "links"
    BY DEF AfterAdd
  <2>6. QED
    BY <2>1, <2>2, <2>3, <2>4, <2>5, PutDirsCounted DEF MkdirPcs, AddPcs
<1>5. CASE ~ Fail /\ AppendEntry
  <2> DEFINE inode == [inodes[call.parent] EXCEPT !.extents = Append(@, call.block)]
  <2>1. /\ call # Idle /\ call.pc = "append_entry" /\ PutInode(call.parent, inode)
        /\ Goto("size_parent") /\ UNCHANGED clean
    BY <1>5 DEF AppendEntry, AppendExtentThen, At, Idle, history
  <2>2. inode.type = inodes[call.parent].type /\ inode.links = inodes[call.parent].links
    OBVIOUS
  <2> HIDE DEF inode
  <2>3. call.parent \in Inodes
    BY <2>1, ControlSplit DEF ParentPcs
  <2>4. call' # Idle /\ call'.op = call.op /\ call'.parent = call.parent /\ call'.pc = "size_parent"
    BY <2>1, GoesOn
  <2>5. QED
    BY <2>1, <2>2, <2>3, <2>4, PutDirsCounted DEF MkdirPcs, AddPcs
<1>6. CASE ~ Fail /\ AppendData
  <2> DEFINE old == inodes[call.ino]
             inode == IF call.done = 0 THEN [old EXCEPT !.extents = <<>>] ELSE old
             appended == [inode EXCEPT !.extents = Append(@, call.block)]
  <2>1. /\ call # Idle /\ call.pc = "append_data" /\ PutInode(call.ino, appended)
        /\ call' = [call EXCEPT !.pc = "data", !.done = @ + 1]
        /\ clean' = (clean /\ (call.done = 0 => old.extents = <<>>))
    BY <1>6 DEF AppendData, At, Idle
  <2>2. appended.type = old.type /\ appended.links = old.links
    OBVIOUS
  <2> HIDE DEF appended
  <2>3. call.ino \in Inodes /\ (clean' => clean)
    BY <2>1, ControlSplit DEF Reading
  <2>4. call' # Idle /\ call'.op = call.op /\ call'.parent = call.parent /\ call'.pc = "data"
    BY <2>1, GoesOnPast
  <2>5. QED
    BY <2>1, <2>2, <2>3, <2>4, PutDirsCounted DEF MkdirPcs, AddPcs
<1>7. CASE SizeFile
  <2> DEFINE old == inodes[call.ino]
             inode == [old EXCEPT !.extents = IF call.done = 0 THEN <<>> ELSE @,
                                  !.size = Len(call.data), !.blocks = Len(call.data)]
  <2>1. /\ call # Idle /\ call.pc = "data" /\ PutInode(call.ino, inode) /\ Goto("flush")
        /\ clean' = (clean /\ (call.done = 0 => old.extents = <<>>))
    BY <1>7 DEF SizeFile, At, Idle
  <2>2. inode.type = old.type /\ inode.links = old.links
    OBVIOUS
  <2> HIDE DEF inode
  <2>3. call.ino \in Inodes /\ (clean' => clean)
    BY <2>1, ControlSplit DEF Reading
  <2>4. call' # Idle /\ call'.op = call.op /\ call'.parent = call.parent /\ call'.pc = "flush"
    BY <2>1, GoesOn
  <2>5. QED
    BY <2>1, <2>2, <2>3, <2>4, PutDirsCounted DEF MkdirPcs, AddPcs
<1>8. QED
  BY <1>1, <1>2, <1>3, <1>4, <1>5, <1>6, <1>7

\* The count catches up with the directory that mkdir has made.
LEMMA CountLinkCounted ==
    ASSUME Exclusive, CallIsRecord, Control, Linking, Counted,
           \A i \in Inodes : DirKept(i), CountLink
    PROVE  Counted'
<1> DEFINE inode == [inodes[call.parent] EXCEPT !.links = @ + 1]
<1> PICK k \in Inodes : k = call.parent /\ IsDir(k)
  BY ControlSplit DEF CountLink, At, Idle, ParentPcs
<1>1. /\ call # Idle /\ call.pc = "links" /\ PutInode(k, inode) /\ Goto("flush")
      /\ UNCHANGED clean
  BY DEF CountLink, At, Idle, history
<1>2. inodes[k] \in InodeRecords
  BY DEF Exclusive
<1>3. inode.type = "dir" /\ inode.links = inodes[k].links + 1
  BY <1>2 DEF InodeRecords, IsDir
<1> HIDE DEF inode
<1>4. \A i \in Inodes : inodes'[i] = IF i = k THEN inode ELSE inodes[i]
  BY <1>1 DEF PutInode, Exclusive
<1>5. \A i \in Inodes : IsDir(i)' <=> IsDir(i)
  BY <1>3, <1>4 DEF IsDir
<1>6. \A d : Children(d)' = Children(d)
  BY <1>5, ChildrenKept
<1>7. call.op = "mkdir"
  BY <1>1 DEF Linking, CallLinks
<1>8. \A d : Pending(d)' = 0 /\ Pending(d) = IF d = k THEN 1 ELSE 0
  BY <1>1, <1>7, GoesOn DEF Pending, MkdirPcs, AddPcs
<1>9. ASSUME NEW d \in Inodes, IsDir(d)'
      PROVE  /\ inodes'[d].links + Pending(d)' <= 2 + Cardinality(Children(d)')
             /\ clean' => inodes'[d].links + Pending(d)' = 2 + Cardinality(Children(d)')
  <2>1. /\ inodes[d].links + Pending(d) <= 2 + Cardinality(Children(d))
        /\ clean => inodes[d].links + Pending(d) = 2 + Cardinality(Children(d))
    BY <1>5, <1>9 DEF Counted
  <2>2. inodes'[d].links + Pending(d)' = inodes[d].links + Pending(d)
    BY <1>3, <1>4, <1>8, LinksAreNat
  <2>3. QED
    BY <1>1, <1>6, <2>1, <2>2
<1>10. IsDir(Root)'
  BY <1>5, InodesAssumption DEF Counted
<1>11. QED
  BY <1>9, <1>10 DEF Counted

\* Names lead to inodes that were written.
LEMMA LookupWritten ==
    ASSUME Linking, NEW i \in Inodes, IsDir(i), NEW name, Lookup(i, name) \in Inodes
    PROVE  inodes[Lookup(i, name)].type # "unwritten"
<1> DEFINE blocks == DirBlocks(i)
<1>1. ListingOf(i, blocks, inodes)
  BY DEF Linking, SoundInode
<1>2. Lookup(i, name) # Deleted /\ Lookup(i, name) = LookupInDir(blocks, name)
  BY DotsAssumption DEF Lookup
<1> HIDE DEF blocks
<1>3. PICK m \in DOMAIN blocks : Lookup(i, name) = LookupInBlock(blocks[m], name)
  BY <1>1, <1>2, LookupInDirFinds DEF ListingOf
<1>4. ListsWritten(blocks[m], inodes) /\ IsBlock(blocks[m])
  BY <1>1, DirBlockIsBlock DEF ListingOf, ListsWritten
<1>5. PICK o \in Matches(blocks[m], name) : LookupInBlock(blocks[m], name) = blocks[m][o].ino
  BY <1>2, <1>3, <1>4, LookupInBlockFinds
<1>6. QED
  BY <1>3, <1>4, <1>5 DEF ListsWritten, Matches

\* mkdir's directory is a child of its parent, and has none.
LEMMA WriteNewDirCounted ==
    ASSUME Exclusive, CallIsRecord, Control, Linking, Counted,
           \A i \in Inodes : DirKept(i), WriteNewDir
    PROVE  Counted'
<1> PICK k \in Inodes : k = call.ino
  BY ControlSplit DEF WriteNewDir, At, Idle
<1> PICK up \in Inodes : up = call.parent /\ IsDir(up) /\ up # k
  BY ControlSplit DEF WriteNewDir, At, Idle, ParentPcs, NewPcs
<1>1. call # Idle /\ call.pc = "new_dir" /\ AppendExtentThen(k, NewInode("dir", 2), "size_dir")
  BY DEF WriteNewDir, At, Idle
<1>2. CASE Fail
  BY <1>2, FailCounted
<1>3. CASE ~ Fail
  <2> DEFINE inode == [NewInode("dir", 2) EXCEPT !.extents = Append(@, call.block)]
  <2>1. PutInode(k, inode) /\ Goto("size_dir") /\ UNCHANGED <<content, clean>>
    BY <1>1, <1>3 DEF AppendExtentThen, history
  <2>2. inode.type = "dir" /\ inode.extents = <<call.block>> /\ inode.links = 2
    BY DEF NewInode, Unwritten
  <2> HIDE DEF inode
  <2>3. \A i \in Inodes : inodes'[i] = IF i = k THEN inode ELSE inodes[i]
    BY <2>1 DEF PutInode, Exclusive
  <2>4. /\ inodes[k].type = "unwritten" /\ call.op = "mkdir"
        /\ content[call.block].entries = Dots(k, up)
    BY <1>1 DEF Linking, CallLinks, NewPcs
  <2>5. inodes'[k].type # "unwritten" /\ inodes'[up].type # "unwritten"
    BY <2>2, <2>3 DEF IsDir
  <2>6. DirBlocks(k)' = <<Dots(k, up)>>
    <3>1. DirBlocks(k)' = [m \in {1} |-> Dots(k, up)]
      BY <2>1, <2>2, <2>3, <2>4 DEF DirBlocks, BlocksOf
    <3>2. QED
      BY <3>1
  <2>7. Lookup(k, DotDot)' = up
    <3>1. LookupInDir(DirBlocks(k)', DotDot) = up
      BY <2>5, <2>6, DotsList
    <3>2. QED
      BY <3>1 DEF Lookup
  <2>8. ~ IsDir(k) /\ k # Root
    BY <2>4 DEF IsDir, Counted
  <2>9. \A i \in Inodes : i # k =>
            (IsDir(i)' <=> IsDir(i)) /\ (IsDir(i) => Lookup(i, DotDot)' = Lookup(i, DotDot))
    BY <2>3 DEF DirKept, ParentKept, IsDir
  <2>10. \A d : Children(d) = {i \in Inodes \ {Root} : IsDir(i) /\ Lookup(i, DotDot) = d}
    BY ChildrenAre
  <2>11. \A d : Children(d)' = {i \in Inodes \ {Root} : IsDir(i)' /\ Lookup(i, DotDot)' = d}
    BY DEF Children, ChildrenOf, IsDir, Lookup, DirBlocks
  <2>12. IsDir(k)'
    BY <2>2, <2>3 DEF IsDir
  <2>13. Children(k) = {}
    BY <2>4, <2>10, LookupWritten
  <2>14. \A d : Children(d)' = IF d = up THEN Children(up) \cup {k} ELSE Children(d)
    BY <2>7, <2>8, <2>9, <2>10, <2>11, <2>12
  <2>15. k \notin Children(up)
    BY <2>8, <2>10
  <2>16. Cardinality(Children(up) \cup {k}) = Cardinality(Children(up)) + 1
    BY <2>15, ChildrenFinite, FS_AddElement
  <2>17. \A d : Pending(d) = 0 /\ Pending(d)' = IF d = up THEN 1 ELSE 0
    BY <1>1, <2>1, <2>4, GoesOn DEF Pending, MkdirPcs, AddPcs
  <2>18. ASSUME NEW d \in Inodes, IsDir(d)'
         PROVE  /\ inodes'[d].links + Pending(d)' <= 2 + Cardinality(Children(d)')
                /\ clean' => inodes'[d].links + Pending(d)' = 2 + Cardinality(Children(d)')
    <3>1. CASE d = k
      <4>1. Children(d)' = {} /\ Pending(d)' = 0 /\ inodes'[d].links = 2
        BY <2>2, <2>3, <2>13, <2>14, <2>17, <3>1
      <4>2. Cardinality(Children(d)') = 0
        BY <4>1, FS_EmptySet
      <4>3. QED
        BY <4>1, <4>2
    <3>2. CASE d # k
      <4>1. IsDir(d) /\ inodes'[d] = inodes[d]
        BY <1>3, <2>3, <2>9, <2>18, <3>2
      <4>2. /\ inodes[d].links + Pending(d) <= 2 + Cardinality(Children(d))
            /\ clean => inodes[d].links + Pending(d) = 2 + Cardinality(Children(d))
        BY <4>1 DEF Counted
      <4>3. inodes[d].links \in Nat /\ Cardinality(Children(d)) \in Nat
        BY LinksAreNat, ChildrenFinite
      <4>4. Cardinality(Children(d)') = Cardinality(Children(d)) + Pending(d)'
        <5>1. CASE d = up
          <6>1. Pending(d)' = 1 /\ Children(d)' = Children(up) \cup {k}
            BY <2>14, <2>17, <5>1
          <6>2. QED
            BY <2>16, <5>1, <6>1
        <5>2. CASE d # up
          <6>1. Pending(d)' = 0 /\ Children(d)' = Children(d)
            BY <2>14, <2>17, <5>2
          <6>2. QED
            BY <4>3, <6>1
        <5>3. QED
          BY <5>1, <5>2
      <4>5. QED
        BY <2>1, <2>17, <4>1, <4>2, <4>3, <4>4
    <3>3. QED
      BY <3>1, <3>2
  <2>19. IsDir(Root)'
    BY <2>8, <2>9, InodesAssumption DEF Counted
  <2>20. QED
    BY <2>18, <2>19 DEF Counted
<1>4. QED
  BY <1>2, <1>3

LEMMA StartCounted ==
    ASSUME Exclusive, Counted, \A i \in Inodes : DirKept(i),
           NEW op, NEW path, NEW name, NEW data, Start(op, path, name, data)
    PROVE  Counted'
<1> DEFINE new == [pc |-> "allocate_inode", op |-> op, parent |-> Resolve(path), name |-> name,
                   data |-> data, ino |-> Root, block |-> CHOOSE b \in Blocks : TRUE,
                   done |-> 0]
<1>1. /\ call = Idle /\ UNCHANGED <<inodes, clean>>
      /\ call' = new \/ \E f : call' = [new EXCEPT !.pc = "data", !.ino = f]
  BY DEF Start, disk, history
<1>2. call'.pc \in {"allocate_inode", "data"}
  <2>1. CASE call' = new
    BY <2>1
  <2>2. CASE \E f : call' = [new EXCEPT !.pc = "data", !.ino = f]
    BY <2>2
  <2>3. QED
    BY <1>1, <2>1, <2>2
<1>3. \A d : Pending(d) = 0 /\ Pending(d)' = 0
  BY <1>1, <1>2 DEF Pending, MkdirPcs, AddPcs
<1>4. SameDirs
  BY <1>1 DEF SameDirs, IsDir
<1>5. QED
  BY <1>1, <1>3, <1>4, CountedFrame

LEMMA CountedNext ==
    ASSUME Exclusive, CallIsRecord, Control, Reading, Linking, Counted, Next
    PROVE  Counted'
<1>1. \A i \in Inodes : DirKept(i)
  BY LinkingNext
<1>2. CASE WriteFile
  BY <1>1, <1>2, StartCounted DEF WriteFile
<1>3. CASE Mkdir
  BY <1>1, <1>3, StartCounted DEF Mkdir
<1>4. CASE AllocateInode \/ AllocateDots \/ Grow \/ AllocateData
            \/ WriteDots \/ WriteEntry \/ WriteData \/ AddInPlace
  BY <1>1, <1>4, GoOnCounted
<1>5. CASE WriteNewFile \/ SizeNewDir \/ SizeParent \/ AppendEntry \/ AppendData \/ SizeFile
  BY <1>1, <1>5, WriteInodeCounted
<1>6. CASE WriteNewDir
  BY <1>1, <1>6, WriteNewDirCounted
<1>7. CASE CountLink
  BY <1>1, <1>7, CountLinkCounted
<1>8. CASE Return
  <2>1. UNCHANGED <<inodes, clean>> /\ call.pc = "flush" /\ call' = Idle
    BY <1>8 DEF Return, disk, history, At
  <2>2. \A d : Pending(d) = 0 /\ Pending(d)' = 0
    BY <2>1 DEF Pending, MkdirPcs, AddPcs
  <2>3. SameDirs
    BY <2>1 DEF SameDirs, IsDir
  <2>4. QED
    BY <1>1, <2>1, <2>2, <2>3, CountedFrame
<1>9. CASE Abort
  BY <1>1, <1>9, FailCounted DEF Abort
<1>10. QED
  BY <1>2, <1>3, <1>4, <1>5, <1>6, <1>7, <1>8, <1>9 DEF Next, Step

LEMMA CountedInit == Init => Counted
<1>1. SUFFICES ASSUME Init PROVE Counted
  OBVIOUS
<1>2. PICK image \in Images : inodes = image.inodes /\ content = image.content
  BY <1>1 DEF Init
<1>3. /\ inodes[Root].type = "dir" /\ inodes \in [Inodes -> InodeRecords]
      /\ \A i \in Inodes : inodes[i].type = "dir" =>
            inodes[i].links = 2 + Cardinality(ChildrenOf(inodes, content, i))
  BY <1>2, ImagesAssumption, Zenon
<1>4. \A d : Pending(d) = 0
  BY <1>1 DEF Init, Pending
<1>5. ASSUME NEW d \in Inodes, IsDir(d)
      PROVE  inodes[d].links + Pending(d) = 2 + Cardinality(Children(d))
  <2>1. inodes[d].links = 2 + Cardinality(Children(d))
    BY <1>3, <1>5 DEF IsDir, Children
  <2>2. Cardinality(Children(d)) \in Nat
    BY ChildrenFinite
  <2>3. QED
    BY <1>4, <2>1, <2>2
<1>6. \A d : Cardinality(Children(d)) \in Nat
  BY ChildrenFinite
<1>7. QED
  BY <1>3, <1>5, <1>6 DEF Counted, IsDir

LEMMA CountedAlways ==
    Spec => [](Exclusive /\ CallIsRecord /\ Control /\ Reading /\ Linking /\ Counted)
<1>1. Exclusive /\ CallIsRecord /\ Control /\ Reading /\ Linking /\ Counted /\ [Next]_vars
        => Counted'
  <2> SUFFICES ASSUME Exclusive, CallIsRecord, Control, Reading, Linking, Counted, [Next]_vars
               PROVE  Counted'
    OBVIOUS
  <2>1. CASE Next
    BY <2>1, CountedNext
  <2>2. CASE UNCHANGED vars
    <3>1. UNCHANGED <<inodes, content, call, clean>>
      BY <2>2 DEF vars
    <3>2. \A d : Pending(d)' = Pending(d) /\ Children(d)' = Children(d)
      BY <3>1 DEF Pending, Children
    <3>3. QED
      BY <3>1, <3>2 DEF Counted, IsDir
  <2>3. QED
    BY <2>1, <2>2
<1>2. QED
  BY <1>1, CountedInit, LinkingAlways, PTL DEF Spec

\* The links_count of a directory never exceeds what its subdirectories demand,
\* and lags behind by the one that a mkdir has written and not counted yet:
\* between calls none of which has failed it is exact.
THEOREM LinksAreCounted == Spec => []LinksCounted
<1>1. Exclusive /\ Counted => LinksCounted
  <2>1. SUFFICES ASSUME Exclusive, Counted, NEW d \in Inodes, IsDir(d)
                 PROVE  /\ inodes[d].links <= 2 + Cardinality(Children(d))
                        /\ clean /\ call = Idle => inodes[d].links = 2 + Cardinality(Children(d))
    BY DEF LinksCounted
  <2>2. /\ inodes[d].links + Pending(d) <= 2 + Cardinality(Children(d))
        /\ clean => inodes[d].links + Pending(d) = 2 + Cardinality(Children(d))
    BY <2>1 DEF Counted
  <2>3. inodes[d].links \in Nat /\ Cardinality(Children(d)) \in Nat /\ Pending(d) \in {0, 1}
    BY <2>1, ChildrenFinite, LinksAreNat, PendingIs
  <2>4. call = Idle => Pending(d) = 0
    BY DEF Pending
  <2>5. QED
    BY <2>2, <2>3, <2>4
<1>2. QED
  BY <1>1, CountedAlways, PTL

-----------------------------------------------------------------------------
(* Paths.                                                                  *)

\* The inodes met on a path, as far as its m-th name.
Walks(f, path, m) ==
    f = [k \in 0..m |->
            IF k = 0 THEN Root
            ELSE IF f[k - 1] = Deleted \/ ~IsDir(f[k - 1]) THEN Deleted
            ELSE Lookup(f[k - 1], path[k])]

LEMMA WalkExists ==
    ASSUME NEW path, NEW n \in Nat
    PROVE  \E f : Walks(f, path, n)
<1> DEFINE Bad == {m \in Nat : ~ \E f : Walks(f, path, m)}
<1>1. SUFFICES ASSUME Bad # {} PROVE FALSE
  OBVIOUS
<1>2. PICK m \in Bad : \A k \in Bad : m <= k
  <2>1. Bad \in SUBSET Nat
    OBVIOUS
  <2> HIDE DEF Bad
  <2>2. Min(Bad) \in Bad /\ \A k \in Bad : Min(Bad) <= k
    BY <1>1, <2>1, MinExists
  <2>3. QED
    BY <2>2
<1>3. CASE m = 0
  <2>1. Walks([k \in 0..0 |-> Root], path, 0)
    BY DEF Walks
  <2>2. QED
    BY <1>2, <1>3, <2>1
<1>4. CASE m # 0
  <2>1. m \in Nat /\ m - 1 \in Nat /\ m - 1 < m
    BY <1>4
  <2>2. m - 1 \notin Bad
    BY <1>2, <2>1
  <2>3. PICK g : Walks(g, path, m - 1)
    BY <2>1, <2>2
  <2> DEFINE step(i, k) == IF k = 0 THEN Root ELSE IF i = Deleted \/ ~IsDir(i) THEN Deleted
                           ELSE Lookup(i, path[k])
             f == [k \in 0..m |-> IF k < m THEN g[k] ELSE step(g[m - 1], m)]
  <2>4. g = [k \in 0..(m - 1) |-> step(g[k - 1], k)]
    BY <2>3, Zenon DEF Walks
  <2> HIDE DEF step
  <2>5. \A k \in 0..m : f[k] = step(f[k - 1], k)
    <3>1. \A k \in 0..(m - 1) : g[k] = step(g[k - 1], k)
      BY <2>4
    <3>2. \A i, j : step(i, 0) = step(j, 0)
      BY DEF step
    <3>3. ASSUME NEW k \in 0..m, k # 0
          PROVE  f[k] = step(f[k - 1], k)
      <4>1. k - 1 \in 0..m /\ k - 1 < m
        BY <2>1, <3>3
      <4>2. f[k - 1] = g[k - 1]
        BY <4>1
      <4>3. CASE k = m
        BY <4>2, <4>3
      <4>4. CASE k # m
        <5>1. k \in 0..(m - 1) /\ k < m
          BY <2>1, <3>3, <4>4
        <5>2. QED
          BY <3>1, <4>2, <5>1
      <4>5. QED
        BY <4>3, <4>4
    <3>4. 0 \in 0..(m - 1) /\ 0 \in 0..m /\ 0 < m
      BY <2>1
    <3>5. f[0] = step(f[0 - 1], 0)
      <4>1. f[0] = g[0]
        BY <3>4
      <4>2. g[0] = step(g[0 - 1], 0)
        BY <3>1, <3>4
      <4> HIDE DEF f
      <4>3. QED
        BY <3>2, <4>1, <4>2
    <3>6. QED
      BY <3>3, <3>5
  <2>6. f = [k \in 0..m |-> step(f[k - 1], k)]
    <3>1. f = [k \in 0..m |-> f[k]]
      OBVIOUS
    <3> HIDE DEF f
    <3>2. QED
      BY <2>5, <3>1
  <2> HIDE DEF f
  <2>7. Walks(f, path, m)
    BY <2>6, Zenon DEF Walks, step
  <2>8. QED
    BY <1>2, <2>7
<1>5. QED
  BY <1>3, <1>4

\* What lookups lead to from the root, if they lead anywhere.
LEMMA PathLeads ==
    ASSUME NEW S, Root \in S, NEW path \in Seq(Names),
           \A d \in S : d # Deleted /\ IsDir(d) =>
                \A name \in Names : Lookup(d, name) \in S \cup {Deleted}
    PROVE  Resolve(path) \in S \cup {Deleted}
<1> DEFINE n == Len(path)
           at == CHOOSE f : Walks(f, path, n)
<1>1. n \in Nat /\ \A k \in 1..n : path[k] \in Names
  OBVIOUS
<1>2. Resolve(path) = at[n]
  BY Zenon DEF Resolve, Walks
<1> HIDE DEF n
<1>3. Walks(at, path, n)
  BY <1>1, WalkExists
<1> HIDE DEF at
<1> DEFINE Bad == {m \in 0..n : at[m] \notin S \cup {Deleted}}
<1>4. SUFFICES ASSUME Bad # {} PROVE FALSE
  BY <1>1, <1>2
<1>5. PICK m \in Bad : \A k \in Bad : m <= k
  <2>1. Bad \in SUBSET Nat
    BY <1>1
  <2> HIDE DEF Bad
  <2>2. Min(Bad) \in Bad /\ \A k \in Bad : Min(Bad) <= k
    BY <1>4, <2>1, MinExists
  <2>3. QED
    BY <2>2
<1>6. m \in 0..n
  BY <1>5
<1>7. at[m] = IF m = 0 THEN Root
              ELSE IF at[m - 1] = Deleted \/ ~IsDir(at[m - 1]) THEN Deleted
              ELSE Lookup(at[m - 1], path[m])
  BY <1>3, <1>6 DEF Walks
<1>8. m # 0
  BY <1>5, <1>7
<1>9. m - 1 \in 0..n /\ m - 1 < m /\ m \in 1..n
  BY <1>1, <1>6, <1>8
<1>10. at[m - 1] \in S \cup {Deleted}
  BY <1>5, <1>9
<1>11. QED
  BY <1>1, <1>5, <1>7, <1>8, <1>9, <1>10

-----------------------------------------------------------------------------
(* Entries and contents.                                                   *)

LEMMA EntriesOfAre ==
    ASSUME NEW table, NEW store, NEW e
    PROVE  e \in EntriesOf(table, store) <=>
                \E d \in Inodes : /\ table[d].type = "dir"
                                  /\ \E m \in DOMAIN table[d].extents :
                                        e \in Listed(d, store[table[d].extents[m]].entries)
BY DEF EntriesOf, ToSet

LEMMA ListedIs ==
    ASSUME NEW d, NEW block, NEW e
    PROVE  e \in Listed(d, block) <=>
                \E o \in Live(block) : /\ block[o].name \notin {Dot, DotDot}
                                       /\ e = [dir |-> d, name |-> block[o].name,
                                               node |-> block[o].ino]
BY DEF Listed

\* An entry is of a directory, and names an inode that was written.
LEMMA EntryIs ==
    ASSUME Exclusive, Linking, NEW e \in Entries
    PROVE  /\ e.dir \in Inodes /\ IsDir(e.dir) /\ e.name \in Names /\ e.node \in Inodes
           /\ inodes[e.node].type # "unwritten"
<1>1. PICK d \in Inodes : /\ inodes[d].type = "dir"
                          /\ \E m \in DOMAIN inodes[d].extents :
                                e \in Listed(d, content[inodes[d].extents[m]].entries)
  BY EntriesOfAre DEF Entries
<1>2. PICK m \in DOMAIN inodes[d].extents : e \in Listed(d, content[inodes[d].extents[m]].entries)
  BY <1>1
<1> DEFINE block == content[inodes[d].extents[m]].entries
<1>3. ListsWritten(block, inodes)
  <2>1. ListingOf(d, DirBlocks(d), inodes)
    BY <1>1 DEF Linking, SoundInode, IsDir
  <2>2. QED
    BY <2>1 DEF ListingOf, DirBlocks, BlocksOf
<1> HIDE DEF block
<1>4. PICK o \in Live(block) : e = [dir |-> d, name |-> block[o].name, node |-> block[o].ino]
  BY <1>2, ListedIs DEF block
<1>5. /\ block[o].ino \in Inodes /\ block[o].name \in Names
      /\ inodes[block[o].ino].type # "unwritten"
  BY <1>3, EntryNamesInode DEF ListsWritten
<1>6. QED
  BY <1>1, <1>4, <1>5 DEF IsDir

LEMMA LinkedIs ==
    ASSUME Exclusive, Linking, Counted, NEW i \in Linked
    PROVE  i \in Inodes /\ inodes[i].type \in {"file", "dir"}
<1>1. i \in Inodes /\ inodes[i].type # "unwritten"
  <2>1. CASE i = Root
    BY <2>1, InodesAssumption DEF Counted, IsDir
  <2>2. CASE \E e \in Entries : i = e.node
    BY <2>2, EntryIs
  <2>3. QED
    BY <2>1, <2>2 DEF Linked, LinkedIn
<1>2. inodes[i].type \in InodeTypes
  BY <1>1 DEF Exclusive, InodeRecords
<1>3. QED
  BY <1>1, <1>2 DEF InodeTypes

\* lookup_in_dir finds a name, "." and ".." aside, exactly when it is listed.
LEMMA LookupListed ==
    ASSUME Exclusive, Linking, NEW d \in Inodes, IsDir(d), NEW name \in Names
    PROVE  /\ name \notin {Dot, DotDot} /\ Lookup(d, name) # Deleted =>
                \E e \in Entries : e.node = Lookup(d, name)
           /\ Lookup(d, name) = Deleted => \A e \in Entries : e.dir = d => e.name # name
<1> DEFINE blocks == DirBlocks(d)
<1>1. ListingOf(d, blocks, inodes)
  BY DEF Linking, SoundInode
<1>2. Lookup(d, name) = LookupInDir(blocks, name)
  BY DEF Lookup
<1>3. \A m : m \in DOMAIN blocks <=> m \in DOMAIN inodes[d].extents
  BY DEF DirBlocks, BlocksOf
<1>4. \A m \in DOMAIN blocks : blocks[m] = content[inodes[d].extents[m]].entries
  BY DEF DirBlocks, BlocksOf
<1> HIDE DEF blocks
<1>5. \A m \in DOMAIN blocks : IsBlock(blocks[m])
  BY <1>1, DirBlockIsBlock DEF ListingOf, ListsWritten
<1>6. ASSUME name \notin {Dot, DotDot}, Lookup(d, name) # Deleted
      PROVE  \E e \in Entries : e.node = Lookup(d, name)
  <2>1. PICK m \in DOMAIN blocks : Lookup(d, name) = LookupInBlock(blocks[m], name)
    BY <1>1, <1>2, <1>6, LookupInDirFinds DEF ListingOf
  <2>2. PICK o \in Matches(blocks[m], name) : LookupInBlock(blocks[m], name) = blocks[m][o].ino
    BY <1>5, <1>6, <2>1, LookupInBlockFinds
  <2> DEFINE e == [dir |-> d, name |-> name, node |-> blocks[m][o].ino]
  <2>3. e \in Listed(d, blocks[m])
    BY <1>6, <2>2, ListedIs DEF Matches
  <2>4. e \in Entries
    BY <1>3, <1>4, <2>3, EntriesOfAre DEF Entries, IsDir
  <2>5. e.node = Lookup(d, name)
    BY <2>1, <2>2
  <2>6. QED
    BY <2>4, <2>5
<1>7. ASSUME Lookup(d, name) = Deleted, NEW e \in Entries, e.dir = d, e.name = name
      PROVE  FALSE
  <2>1. PICK k \in Inodes : /\ inodes[k].type = "dir"
                            /\ \E m \in DOMAIN inodes[k].extents :
                                e \in Listed(k, content[inodes[k].extents[m]].entries)
    BY EntriesOfAre DEF Entries
  <2>2. PICK m \in DOMAIN inodes[k].extents :
            e \in Listed(k, content[inodes[k].extents[m]].entries)
    BY <2>1
  <2> DEFINE block == content[inodes[k].extents[m]].entries
  <2>3. PICK o \in Live(block) : e = [dir |-> k, name |-> block[o].name, node |-> block[o].ino]
    BY <2>2, ListedIs
  <2>4. k = d /\ block[o].name = name
    BY <1>7, <2>3
  <2>5. m \in DOMAIN blocks /\ blocks[m] = block
    BY <1>3, <1>4, <2>4
  <2>6. Matches(blocks[m], name) # {}
    BY <2>3, <2>4, <2>5 DEF Matches
  <2>7. LookupInBlock(blocks[m], name) = Deleted
    BY <1>1, <1>2, <1>7, <2>5, LookupInDirFinds DEF ListingOf
  <2>8. QED
    BY <1>5, <2>5, <2>6, <2>7, LookupInBlockFinds
<1>8. QED
  BY <1>6, <1>7

\* The entries stay when the directories and their blocks do.
LEMMA EntriesFrame ==
    ASSUME \A d \in Inodes :
                /\ inodes'[d].type = "dir" <=> inodes[d].type = "dir"
                /\ inodes[d].type = "dir" =>
                        /\ inodes'[d].extents = inodes[d].extents
                        /\ \A m \in DOMAIN inodes[d].extents :
                            content'[inodes[d].extents[m]] = content[inodes[d].extents[m]]
    PROVE  Entries' = Entries /\ Linked' = Linked
<1>1. \A e : e \in EntriesOf(inodes', content') <=> e \in EntriesOf(inodes, content)
  <2> TAKE e
  <2>1. e \in EntriesOf(inodes', content') <=>
                \E d \in Inodes : /\ inodes'[d].type = "dir"
                                  /\ \E m \in DOMAIN inodes'[d].extents :
                                        e \in Listed(d, content'[inodes'[d].extents[m]].entries)
    BY EntriesOfAre
  <2>2. e \in EntriesOf(inodes, content) <=>
                \E d \in Inodes : /\ inodes[d].type = "dir"
                                  /\ \E m \in DOMAIN inodes[d].extents :
                                        e \in Listed(d, content[inodes[d].extents[m]].entries)
    BY EntriesOfAre
  <2>3. QED
    BY <2>1, <2>2
<1>2. Entries' = Entries
  BY <1>1 DEF Entries
<1>3. QED
  BY <1>2 DEF Linked

\* A file whose inode and blocks are left alone holds what it held.
LEMMA ContentsFrame ==
    ASSUME Exclusive, NEW i \in Inodes,
           inodes'[i].size = inodes[i].size, inodes'[i].extents = inodes[i].extents,
           \A m \in DOMAIN inodes[i].extents :
                content'[inodes[i].extents[m]] = content[inodes[i].extents[m]],
           i \in torn' <=> i \in torn
    PROVE  Contents(i)' = Contents(i)
<1>1. inodes[i].size \in Nat /\ Len(inodes[i].extents) \in Nat
      /\ DOMAIN inodes[i].extents = 1..Len(inodes[i].extents)
  BY ExtentsAreBlocks
<1>2. ReadFile(i)' = ReadFile(i)
  <2>1. CASE inodes[i].size > Len(inodes[i].extents)
    BY <2>1 DEF ReadFile
  <2>2. CASE ~ (inodes[i].size > Len(inodes[i].extents))
    <3>1. \A j \in 1..inodes[i].size : j \in DOMAIN inodes[i].extents
      BY <1>1, <2>2
    <3>2. [j \in 1..inodes[i].size |-> content'[inodes[i].extents[j]].data] =
          [j \in 1..inodes[i].size |-> content[inodes[i].extents[j]].data]
      BY <3>1
    <3>3. QED
      BY <2>2, <3>2 DEF ReadFile
  <2>3. QED
    BY <2>1, <2>2
<1>3. QED
  BY <1>2 DEF Contents

-----------------------------------------------------------------------------
(* The refinement.                                                         *)

\* The tree: what has entries is linked, and a directory's parent is.
Tree ==
    /\ \A e \in Entries : e.dir \in Linked
    /\ \A d \in Linked : IsDir(d) => Lookup(d, DotDot) \in Linked

\* What a call in progress will list: under a name of which there is no other,
\* if it is a file, an inode that is not linked yet, and is empty or has a
\* parent that is.
AddingPcs == {"size_dir", "add", "write_entry", "append_entry"}
ClearPcs == {"allocate_inode", "new_file"} \cup AddingPcs
CallNames ==
    call # Idle =>
        /\ call.pc \in ParentPcs => call.parent \in Linked
        /\ call.op # "mkdir" => call.data \in Writes
        /\ call.pc \in DataPcs => call.op # "mkdir"
        /\ call.pc \in ClearPcs /\ call.op # "mkdir" =>
                \A e \in Entries : e.dir = call.parent => e.name # call.name
        /\ call.pc \in AddingPcs =>
                /\ call.ino \notin Linked
                /\ call.op = "mkdir" => Lookup(call.ino, DotDot) = call.parent
                /\ call.op # "mkdir" => inodes[call.ino].size = 0 /\ call.ino \notin torn

Named == Tree /\ (\A i \in torn : i \in Inodes /\ IsFile(i)) /\ CallNames

Sound == Exclusive /\ CallIsRecord /\ Control /\ Reading /\ Linking /\ Counted

\* The variables of Store.
StoreDirs == {i \in Linked : IsDir(i)}
StoreFiles == [i \in {j \in Linked : IsFile(j)} |-> Contents(i)]
StoreStep == UNCHANGED <<Entries, StoreDirs, StoreFiles>> \/ Store!Next

\* What links nothing and changes no file's contents.
LEMMA Quiet ==
    ASSUME Sound, Named, \A i \in Inodes : DirKept(i),
           Entries' = Entries, Linked' = Linked,
           \A i \in Linked : inodes'[i].type = inodes[i].type,
           \A i \in Linked : IsFile(i) => Contents(i)' = Contents(i),
           \A i \in torn' : i \in Inodes /\ IsFile(i)', CallNames'
    PROVE  Named' /\ StoreStep
<1>1. \A i \in Linked : i \in Inodes
  BY LinkedIs DEF Sound
<1>2. \A i \in Linked : (IsDir(i)' <=> IsDir(i)) /\ (IsFile(i)' <=> IsFile(i))
  BY DEF IsDir, IsFile
<1>3. Tree'
  BY <1>1, <1>2 DEF Named, Tree, DirKept, ParentKept
<1>4. StoreDirs' = StoreDirs
  BY <1>2 DEF StoreDirs
<1>5. StoreFiles' = StoreFiles
  <2>1. {j \in Linked' : IsFile(j)'} = {j \in Linked : IsFile(j)}
    BY <1>2
  <2>2. QED
    BY <2>1 DEF StoreFiles
<1>6. QED
  BY <1>3, <1>4, <1>5 DEF Named, StoreStep

\* A new entry for what a call has made.
LEMMA Gaining ==
    ASSUME Sound, Named, \A i \in Inodes : DirKept(i), call # Idle, call.pc \in AddPcs,
           call.pc \in AddingPcs,
           NEW e, e = [dir |-> call.parent, name |-> call.name, node |-> call.ino],
           Entries' = Entries \cup {e},
           \A i \in Inodes : inodes'[i].type = inodes[i].type,
           \A i \in Inodes : IsFile(i) => Contents(i)' = Contents(i),
           torn' = torn, CallNames'
    PROVE  Named' /\ StoreStep
<1> PICK k \in Inodes : k = call.ino
  BY ControlSplit DEF Sound, AddPcs
<1> PICK up \in Inodes : up = call.parent
  BY ControlSplit DEF Sound, AddPcs, ParentPcs
<1>1. /\ k \in Inodes /\ up \in Inodes /\ IsDir(up)
      /\ inodes[k].type = IF call.op = "mkdir" THEN "dir" ELSE "file"
      /\ up \in Linked /\ k \notin Linked
      /\ call.op = "mkdir" => Lookup(k, DotDot) = up
      /\ call.op # "mkdir" => inodes[k].size = 0 /\ k \notin torn
  BY ControlSplit DEF Sound, Linking, CallLinks, ParentPcs, AddPcs, Named, CallNames
<1>2. e.node = k /\ e.dir = up /\ e.name = call.name
  OBVIOUS
<1>3. call.op # "mkdir" => \A f \in Entries : f.dir = e.dir => f.name # e.name
  BY <1>2 DEF Named, CallNames, ClearPcs
<1>4. Linked' = Linked \cup {k}
  BY <1>2 DEF Linked, LinkedIn
<1>5. \A i \in Linked : i \in Inodes /\ (IsDir(i) \/ IsFile(i))
  BY LinkedIs DEF Sound, IsDir, IsFile
<1>6. \A i \in Inodes : (IsDir(i)' <=> IsDir(i)) /\ (IsFile(i)' <=> IsFile(i))
  BY DEF IsDir, IsFile
<1>7. Tree'
  <2>1. \A f \in Entries' : f.dir \in Linked'
    BY <1>1, <1>2, <1>4 DEF Named, Tree
  <2>2. ASSUME NEW d \in Linked', IsDir(d)'
        PROVE  Lookup(d, DotDot)' \in Linked'
    <3>1. d \in Inodes /\ IsDir(d) /\ Lookup(d, DotDot)' = Lookup(d, DotDot)
      BY <1>1, <1>4, <1>5, <1>6, <2>2 DEF DirKept, ParentKept
    <3>2. CASE d \in Linked
      BY <1>4, <3>1, <3>2 DEF Named, Tree
    <3>3. CASE d = k
      BY <1>1, <1>4, <3>1, <3>3 DEF IsDir
    <3>4. QED
      BY <1>4, <3>2, <3>3
  <2>3. QED
    BY <2>1, <2>2 DEF Tree
<1>8. Named'
  BY <1>6, <1>7 DEF Named
<1>9. e \notin Entries
  BY <1>1, <1>2 DEF Linked, LinkedIn
<1>10. StoreDirs \cup DOMAIN StoreFiles = Linked
  BY <1>5 DEF StoreDirs, StoreFiles
<1>11. CASE call.op = "mkdir"
  <2>1. IsDir(k) /\ ~ IsFile(k)
    BY <1>1, <1>11 DEF IsDir, IsFile
  <2>2. StoreDirs' = StoreDirs \cup {k}
    BY <1>1, <1>4, <1>5, <1>6, <2>1 DEF StoreDirs
  <2>3. StoreFiles' = StoreFiles
    <3>1. {j \in Linked' : IsFile(j)'} = {j \in Linked : IsFile(j)}
      BY <1>1, <1>4, <1>5, <1>6, <2>1
    <3>2. \A i \in {j \in Linked : IsFile(j)} : Contents(i)' = Contents(i)
      BY <1>5
    <3>3. QED
      BY <3>1, <3>2 DEF StoreFiles
  <2>4. Store!AddDirectory(k)
    BY <2>2, <2>3 DEF Store!AddDirectory, StoreDirs, StoreFiles
  <2>5. Store!Add
    <3>1. e \in Entries' \ Entries /\ Entries' = Entries \cup {e}
      BY <1>9
    <3>2. e.dir \in StoreDirs /\ e.node \in Inodes \ (StoreDirs \cup DOMAIN StoreFiles)
      BY <1>1, <1>2, <1>10 DEF StoreDirs
    <3>3. Store!AddDirectory(e.node)
      BY <1>2, <2>4
    <3>4. QED
      BY <3>1, <3>2, <3>3 DEF Store!Add, StoreDirs, StoreFiles
  <2>6. QED
    BY <1>8, <2>5 DEF StoreStep, Store!Next
<1>12. CASE call.op # "mkdir"
  <2>1. IsFile(k) /\ ~ IsDir(k)
    BY <1>1, <1>12 DEF IsDir, IsFile
  <2>2. StoreDirs' = StoreDirs
    BY <1>1, <1>4, <1>5, <1>6, <2>1 DEF StoreDirs
  <2>3. Contents(k)' = Store!Whole(<<>>)
    <3>1. Contents(k)' = Contents(k)
      BY <1>1, <2>1
    <3>2. k \notin torn /\ inodes[k].size = 0 /\ Len(inodes[k].extents) \in Nat
      BY <1>1, <1>12, ExtentsAreBlocks DEF Sound
    <3>3. ReadFile(k) = [j \in 1..0 |-> content[inodes[k].extents[j]].data]
      BY <3>2 DEF ReadFile
    <3>4. ReadFile(k) = <<>>
      BY <3>3
    <3>5. QED
      BY <3>1, <3>2, <3>4 DEF Contents, Store!Whole
  <2>4. DOMAIN StoreFiles' = DOMAIN StoreFiles \cup {k}
    BY <1>1, <1>4, <1>5, <1>6, <2>1 DEF StoreFiles
  <2>5. \A j \in DOMAIN StoreFiles : StoreFiles'[j] = StoreFiles[j]
    <3>1. \A j \in DOMAIN StoreFiles : j \in Linked /\ IsFile(j) /\ StoreFiles[j] = Contents(j)
      BY DEF StoreFiles
    <3>2. \A j \in DOMAIN StoreFiles' : StoreFiles'[j] = Contents(j)'
      BY DEF StoreFiles
    <3>3. QED
      BY <1>5, <2>4, <3>1, <3>2
  <2>6. StoreFiles'[k] = Store!Whole(<<>>)
    <3>1. \A j \in DOMAIN StoreFiles' : StoreFiles'[j] = Contents(j)'
      BY DEF StoreFiles
    <3>2. QED
      BY <2>3, <2>4, <3>1
  <2>7. k \notin DOMAIN StoreFiles
    BY <1>1 DEF StoreFiles
  <2>8. StoreFiles' = [j \in DOMAIN StoreFiles \cup {k} |->
                        IF j = k THEN Store!Whole(<<>>) ELSE StoreFiles[j]]
    <3>1. StoreFiles' = [j \in DOMAIN StoreFiles' |-> StoreFiles'[j]]
      BY DEF StoreFiles
    <3> HIDE DEF StoreFiles
    <3>2. QED
      BY <2>4, <2>5, <2>6, <2>7, <3>1
  <2>9. Store!AddFile(k)
    BY <2>2, <2>8 DEF Store!AddFile, StoreDirs, StoreFiles
  <2>10. Store!Add
    <3>1. e \in Entries' \ Entries /\ Entries' = Entries \cup {e}
      BY <1>9
    <3>2. e.dir \in StoreDirs /\ e.node \in Inodes \ (StoreDirs \cup DOMAIN StoreFiles)
      BY <1>1, <1>2, <1>10 DEF StoreDirs
    <3>3. Store!AddFile(e.node) /\ \A f \in Entries : f.dir = e.dir => f.name # e.name
      BY <1>2, <1>3, <1>12, <2>9
    <3>4. QED
      BY <3>1, <3>2, <3>3 DEF Store!Add, StoreDirs, StoreFiles
  <2>11. QED
    BY <1>8, <2>10 DEF StoreStep, Store!Next
<1>13. QED
  BY <1>11, <1>12

-----------------------------------------------------------------------------
(* Steps that link nothing.                                                *)

LEMMA SoundSplit ==
    ASSUME Sound
    PROVE  Exclusive /\ CallIsRecord /\ Control /\ Reading /\ Linking /\ Counted
BY DEF Sound

LEMMA StoppedNames == call = Idle => CallNames
BY DEF CallNames

\* A call that goes on, with nothing linked meanwhile.
LEMMA GoOnNames ==
    ASSUME CallNames, call # Idle, Entries' = Entries, Linked' = Linked,
           call'.op = call.op, call'.parent = call.parent, call'.data = call.data,
           call'.name = call.name,
           call'.pc \in ParentPcs => call.pc \in ParentPcs,
           call'.pc \in DataPcs => call.op # "mkdir",
           call'.pc \in ClearPcs /\ call.op # "mkdir" => call.pc \in ClearPcs,
           NEW k, k = call.ino,
           call'.pc \in AddingPcs =>
                /\ call.pc \in AddingPcs /\ call'.ino = k
                /\ call.op = "mkdir" => Lookup(k, DotDot)' = Lookup(k, DotDot)
                /\ call.op # "mkdir" => inodes'[k].size = inodes[k].size /\ (k \in torn' => k \in torn)
    PROVE  CallNames'
<1>1. call' # Idle /\ call'.pc \in AddingPcs /\ call'.op = "mkdir" =>
            Lookup(call.ino, DotDot)' = call'.parent
  BY DEF CallNames
<1>2. QED
  BY <1>1 DEF CallNames

LEMMA StillQuiet ==
    ASSUME Sound, Named, \A i \in Inodes : DirKept(i),
           UNCHANGED <<inodes, content, torn>>, CallNames'
    PROVE  Named' /\ StoreStep
<1>1. Entries' = Entries /\ Linked' = Linked
  BY EntriesFrame
<1>2. \A i \in Inodes : Contents(i)' = Contents(i)
  BY SoundSplit, ContentsFrame
<1>3. \A i \in Linked : i \in Inodes
  BY SoundSplit, LinkedIs
<1>4. \A i \in torn' : i \in Inodes /\ IsFile(i)'
  BY DEF Named, IsFile
<1>5. QED
  BY <1>1, <1>2, <1>3, <1>4, Quiet

LEMMA FailStores ==
    ASSUME Sound, Named, \A i \in Inodes : DirKept(i), Fail \/ Return
    PROVE  Named' /\ StoreStep
<1>1. UNCHANGED <<inodes, content, torn>> /\ call' = Idle
  BY DEF Fail, Return, disk, history
<1>2. CallNames'
  BY <1>1 DEF CallNames
<1>3. QED
  BY <1>1, <1>2, StillQuiet

\* What a call begins with: a linked directory, and a name it does not have.
LEMMA StartStores ==
    ASSUME Sound, Named, \A i \in Inodes : DirKept(i),
           NEW op, NEW path \in ParentPaths, NEW name \in Names, NEW data,
           Start(op, path, name, data), op # "mkdir" => data \in Writes
    PROVE  Named' /\ StoreStep
<1> DEFINE parent == Resolve(path)
           new == [pc |-> "allocate_inode", op |-> op, parent |-> parent, name |-> name,
                   data |-> data, ino |-> Root, block |-> CHOOSE b \in Blocks : TRUE,
                   done |-> 0]
<1>1. /\ UNCHANGED <<inodes, content, torn>>
      /\ parent \in Inodes /\ IsDir(parent)
      /\ \/ (Lookup(parent, name) = Deleted \/ op = "mkdir") /\ call' = new
         \/ op = "write_file" /\ \E f : call' = [new EXCEPT !.pc = "data", !.ino = f]
  BY DEF Start, disk, history
<1>2. \A d \in Linked : d \in Inodes
  BY SoundSplit, LinkedIs
<1>3. ASSUME NEW d \in Linked, IsDir(d), NEW n \in Names
      PROVE  Lookup(d, n) \in Linked \cup {Deleted}
  <2>1. CASE n = Dot
    <3>1. Lookup(d, Dot) = d
      BY <1>2, <1>3, SoundSplit, DotsListed DEF Linking, SoundInode, Lookup
    <3>2. QED
      BY <1>3, <2>1, <3>1
  <2>2. CASE n = DotDot
    BY <1>3, <2>2 DEF Named, Tree
  <2>3. CASE n \notin {Dot, DotDot}
    <3>1. Lookup(d, n) # Deleted => \E e \in Entries : e.node = Lookup(d, n)
      BY <1>2, <1>3, <2>3, SoundSplit, LookupListed
    <3>2. QED
      BY <3>1 DEF Linked, LinkedIn
  <2>4. QED
    BY <2>1, <2>2, <2>3
<1>4. path \in Seq(Names)
  BY PathsAssumption
<1>5. parent \in Linked \cup {Deleted}
  <2> DEFINE S == Linked
  <2>1. Root \in S /\ \A d \in S : d # Deleted /\ IsDir(d) =>
                \A n \in Names : Lookup(d, n) \in S \cup {Deleted}
    BY <1>3 DEF Linked, LinkedIn
  <2> HIDE DEF S
  <2>2. Resolve(path) \in S \cup {Deleted}
    BY <1>4, <2>1, PathLeads
  <2>3. QED
    BY <2>2 DEF S
<1> HIDE DEF parent
<1>6. parent \in Linked
  BY <1>1, <1>5, DotsAssumption
<1>7. Entries' = Entries /\ Linked' = Linked
  BY <1>1, EntriesFrame
<1>8. CASE (Lookup(parent, name) = Deleted \/ op = "mkdir") /\ call' = new
  <2>1. /\ call'.pc = "allocate_inode" /\ call'.op = op /\ call'.parent = parent
        /\ call'.name = name /\ call'.data = data
    BY <1>8
  <2>2. op # "mkdir" => \A e \in Entries : e.dir = parent => e.name # name
    BY <1>1, <1>8, SoundSplit, LookupListed
  <2>3. CallNames'
    BY <1>6, <1>7, <2>1, <2>2 DEF CallNames, ParentPcs, DataPcs, ClearPcs, AddingPcs
  <2>4. QED
    BY <1>1, <2>3, StillQuiet
<1>9. CASE op = "write_file" /\ \E f : call' = [new EXCEPT !.pc = "data", !.ino = f]
  <2>1. call'.pc = "data" /\ call'.op = op /\ call'.data = data
    BY <1>9
  <2>2. CallNames'
    BY <1>9, <2>1 DEF CallNames, ParentPcs, DataPcs, ClearPcs, AddingPcs
  <2>3. QED
    BY <1>1, <2>2, StillQuiet
<1>10. QED
  BY <1>1, <1>8, <1>9

LEMMA AllocateInodeStores ==
    ASSUME Sound, Named, \A i \in Inodes : DirKept(i), AllocateInode
    PROVE  Named' /\ StoreStep
<1>1. At("allocate_inode")
  BY Zenon DEF AllocateInode
<1>2. call # Idle /\ call.pc = "allocate_inode" /\ CallIsRecord /\ CallNames
  BY <1>1, SoundSplit DEF At, Idle, Named
<1>3. CASE Fail
  BY <1>3, FailStores
<1>4. CASE ~ Fail
  <2>1. PICK i : /\ call' = [call EXCEPT !.ino = i,
                            !.pc = IF call.op = "mkdir" THEN "allocate_dots" ELSE "new_file"]
                 /\ UNCHANGED <<inodes, content, history>>
    BY <1>4 DEF AllocateInode
  <2>2. /\ call'.pc = IF call.op = "mkdir" THEN "allocate_dots" ELSE "new_file"
        /\ call'.op = call.op /\ call'.parent = call.parent /\ call'.data = call.data
        /\ call'.name = call.name
    BY <1>2, <2>1, GoesOnFor
  <2>3. UNCHANGED <<inodes, content, torn>>
    BY <2>1 DEF history
  <2>4. Entries' = Entries /\ Linked' = Linked
    BY <2>3, EntriesFrame
  <2>5. CallNames'
    BY <1>2, <2>2, <2>4, GoOnNames DEF ParentPcs, DataPcs, ClearPcs, AddingPcs
  <2>6. QED
    BY <2>3, <2>5, StillQuiet
<1>5. QED
  BY <1>3, <1>4

LEMMA AllocateBlockStores ==
    ASSUME Sound, Named, \A i \in Inodes : DirKept(i), AllocateDots \/ Grow \/ AllocateData
    PROVE  Named' /\ StoreStep
<1>1. ASSUME NEW from, NEW to, call # Idle, call.pc = from, AllocateBlockThen(to),
             \/ from = "allocate_dots" /\ to = "write_dots"
             \/ from = "add" /\ to = "write_entry"
             \/ from = "data" /\ to = "write_data"
      PROVE  Named' /\ StoreStep
  <2>1. CASE Fail
    BY <2>1, FailStores
  <2>2. CASE ~ Fail
    <3>1. PICK b : /\ call' = [call EXCEPT !.pc = to, !.block = b]
                   /\ UNCHANGED <<inodes, content, history>>
      BY <1>1, <2>2 DEF AllocateBlockThen
    <3>2. /\ call'.pc = to /\ call'.ino = call.ino /\ call'.name = call.name
          /\ call'.op = call.op /\ call'.parent = call.parent /\ call'.data = call.data
      BY <1>1, <3>1, GoesOnWith, SoundSplit
    <3>3. UNCHANGED <<inodes, content, torn>>
      BY <3>1 DEF history
    <3>4. Entries' = Entries /\ Linked' = Linked
      BY <3>3, EntriesFrame
    <3>5. CallNames
      BY DEF Named
    <3>6. to = "write_data" => call.op # "mkdir"
      BY <1>1, <3>5 DEF CallNames, DataPcs
    <3>7. \A k : Lookup(k, DotDot)' = Lookup(k, DotDot)
      BY <3>3 DEF Lookup, DirBlocks, BlocksOf
    <3>8. CallNames'
      BY <1>1, <3>2, <3>3, <3>4, <3>5, <3>6, <3>7, GoOnNames
         DEF ParentPcs, DataPcs, ClearPcs, AddingPcs
    <3>9. QED
      BY <3>3, <3>8, StillQuiet
  <2>3. QED
    BY <2>1, <2>2
<1>2. CASE AllocateDots
  BY <1>1, <1>2 DEF AllocateDots, At, Idle
<1>3. CASE Grow
  BY <1>1, <1>3 DEF Grow, At, Idle
<1>4. CASE AllocateData
  BY <1>1, <1>4 DEF AllocateData, At, Idle
<1>5. QED
  BY <1>2, <1>3, <1>4

\* The block that the call has allocated is no directory's and no file's.
LEMMA WriteHeldStores ==
    ASSUME Sound, Named, \A i \in Inodes : DirKept(i), WriteDots \/ WriteEntry \/ WriteData
    PROVE  Named' /\ StoreStep
<1>1. call # Idle /\ HeldBlock # {} /\ UNCHANGED <<inodes, torn>>
  BY DEF WriteDots, WriteEntry, WriteData, HeldBlock, At, Idle, history
<1>2. /\ call.block \in Blocks
      /\ \A i \in Inodes : \A m \in DOMAIN inodes[i].extents : inodes[i].extents[m] # call.block
  BY <1>1, SoundSplit DEF Exclusive, HeldIsUnmapped
<1>3. PICK what, from, to :
        /\ PutBlock(call.block, what) /\ Goto(to) /\ call.pc = from
        /\ \/ from = "write_dots" /\ to = "new_dir"
           \/ from = "write_entry" /\ to = "append_entry"
           \/ from = "write_data" /\ to = "append_data"
  <2>1. CASE WriteDots
    BY <2>1 DEF WriteDots, At
  <2>2. CASE WriteEntry
    BY <2>2 DEF WriteEntry, At
  <2>3. CASE WriteData
    BY <2>3 DEF WriteData, At
  <2>4. QED
    BY <2>1, <2>2, <2>3
<1>4. \A c : c # call.block => content'[c] = content[c]
  BY <1>3 DEF PutBlock
<1>5. Entries' = Entries /\ Linked' = Linked
  BY <1>1, <1>2, <1>4, EntriesFrame
<1>6. \A i \in Inodes : Contents(i)' = Contents(i)
  BY <1>1, <1>2, <1>4, SoundSplit, ContentsFrame
<1>7. \A i \in Linked : i \in Inodes
  BY SoundSplit, LinkedIs
<1>8. /\ call'.pc = to /\ call'.op = call.op /\ call'.parent = call.parent
      /\ call'.ino = call.ino /\ call'.data = call.data /\ call'.name = call.name
  BY <1>1, <1>3, GoesOn, SoundSplit
<1>9. CallNames'
  <2>1. CallNames
    BY DEF Named
  <2>2. PICK k : k = call.ino
    OBVIOUS
  <2>3. to = "append_data" => call.op # "mkdir"
    BY <1>1, <1>3, <2>1 DEF CallNames, DataPcs
  <2>4. to = "append_entry" /\ call.op = "mkdir" => Lookup(k, DotDot)' = Lookup(k, DotDot)
    BY <1>1, <1>3, <2>2, SoundSplit, ControlSplit
       DEF Linking, CallLinks, AddPcs, DirKept, ParentKept, IsDir
  <2>5. QED
    BY <1>1, <1>3, <1>5, <1>8, <2>1, <2>2, <2>3, <2>4, GoOnNames
       DEF ParentPcs, DataPcs, ClearPcs, AddingPcs
<1>10. \A i \in torn' : i \in Inodes /\ IsFile(i)'
  BY <1>1 DEF Named, IsFile
<1>11. QED
  BY <1>1, <1>5, <1>6, <1>7, <1>9, <1>10, Quiet

\* The write of an inode that is not linked, or that keeps its extents.
LEMMA PutInodeQuiet ==
    ASSUME Sound, Named, \A i \in Inodes : DirKept(i),
           NEW k \in Inodes, NEW inode, PutInode(k, inode), UNCHANGED <<content, torn>>,
           Entries' = Entries, Linked' = Linked, CallNames',
           \/ k \notin Linked /\ k \notin torn
           \/ IsDir(k) /\ inode.type = "dir" /\ inode.extents = inodes[k].extents
    PROVE  Named' /\ StoreStep
<1>1. \A i \in Inodes : i # k => inodes'[i] = inodes[i]
  BY SoundSplit DEF PutInode, Exclusive
<1>2. inodes'[k] = inode
  BY SoundSplit DEF PutInode, Exclusive
<1>3. \A i \in Linked : i \in Inodes
  BY SoundSplit, LinkedIs
<1>4. \A i \in Linked : inodes'[i].type = inodes[i].type
  BY <1>1, <1>2, <1>3 DEF IsDir
<1>5. \A i \in Linked : IsFile(i) => Contents(i)' = Contents(i)
  <2>1. SUFFICES ASSUME NEW i \in Linked, IsFile(i) PROVE Contents(i)' = Contents(i)
    OBVIOUS
  <2>2. i \in Inodes /\ i # k
    BY <1>3, <2>1 DEF IsDir, IsFile
  <2>3. inodes'[i] = inodes[i]
    BY <1>1, <2>2
  <2>4. QED
    BY <2>2, <2>3, SoundSplit, ContentsFrame
<1>6. \A i \in torn' : i \in Inodes /\ IsFile(i)'
  BY <1>1 DEF Named, IsFile, IsDir
<1>7. QED
  BY <1>4, <1>5, <1>6, Quiet

LEMMA WriteNewFileStores ==
    ASSUME Sound, Named, \A i \in Inodes : DirKept(i), WriteNewFile
    PROVE  Named' /\ StoreStep
<1> DEFINE inode == NewInode("file", 1)
<1> PICK k \in Inodes : k = call.ino
  BY SoundSplit, ControlSplit DEF WriteNewFile, At, Idle
<1>1. /\ call # Idle /\ call.pc = "new_file" /\ PutInode(k, inode) /\ Goto("add")
      /\ UNCHANGED <<content, torn>>
  BY DEF WriteNewFile, At, Idle
<1>2. inode.type = "file" /\ inode.size = 0
  BY DEF NewInode, Unwritten
<1> HIDE DEF inode
<1>3. \A i \in Inodes : inodes'[i] = IF i = k THEN inode ELSE inodes[i]
  BY <1>1, SoundSplit DEF PutInode, Exclusive
<1>4. inodes[k].type = "unwritten" /\ call.op # "mkdir"
  BY <1>1, SoundSplit DEF Linking, CallLinks, NewPcs
<1>5. k \notin Linked /\ k \notin torn
  BY <1>4, SoundSplit, LinkedIs DEF Named, IsFile
<1>6. Entries' = Entries /\ Linked' = Linked
  BY <1>1, <1>2, <1>3, <1>4, EntriesFrame
<1>7. CallNames'
  <2>1. /\ call'.pc = "add" /\ call'.op = call.op /\ call'.parent = call.parent
        /\ call'.ino = k /\ call'.data = call.data /\ call'.name = call.name
    BY <1>1, GoesOn, SoundSplit
  <2>2. CallNames
    BY DEF Named
  <2>3. inodes'[k].size = 0
    BY <1>2, <1>3
  <2>4. QED
    BY <1>1, <1>4, <1>5, <1>6, <2>1, <2>2, <2>3
       DEF CallNames, ParentPcs, DataPcs, ClearPcs, AddingPcs
<1>8. QED
  BY <1>1, <1>5, <1>6, <1>7, PutInodeQuiet

\* A new directory has "." and ".." alone.
LEMMA WriteNewDirStores ==
    ASSUME Sound, Named, \A i \in Inodes : DirKept(i), WriteNewDir
    PROVE  Named' /\ StoreStep
<1> PICK k \in Inodes : k = call.ino
  BY SoundSplit, ControlSplit DEF WriteNewDir, At, Idle
<1> PICK up \in Inodes : up = call.parent /\ IsDir(up) /\ up # k
  BY SoundSplit, ControlSplit DEF WriteNewDir, At, Idle, ParentPcs, NewPcs
<1>1. call # Idle /\ call.pc = "new_dir" /\ AppendExtentThen(k, NewInode("dir", 2), "size_dir")
  BY DEF WriteNewDir, At, Idle
<1>2. CASE Fail
  BY <1>2, FailStores
<1>3. CASE ~ Fail
  <2> DEFINE inode == [NewInode("dir", 2) EXCEPT !.extents = Append(@, call.block)]
  <2>1. PutInode(k, inode) /\ Goto("size_dir") /\ UNCHANGED <<content, torn>>
    BY <1>1, <1>3 DEF AppendExtentThen, history
  <2>2. inode.type = "dir" /\ inode.extents = <<call.block>>
    BY DEF NewInode, Unwritten
  <2> HIDE DEF inode
  <2>3. \A i \in Inodes : inodes'[i] = IF i = k THEN inode ELSE inodes[i]
    BY <2>1, SoundSplit DEF PutInode, Exclusive
  <2>4. /\ inodes[k].type = "unwritten" /\ call.op = "mkdir"
        /\ content[call.block].entries = Dots(k, up)
    BY <1>1, SoundSplit DEF Linking, CallLinks, NewPcs
  <2>5. k \notin Linked /\ k \notin torn
    BY <2>4, SoundSplit, LinkedIs DEF Named, IsFile
  <2>6. inodes'[k].type # "unwritten" /\ inodes'[up].type # "unwritten"
    BY <2>2, <2>3 DEF IsDir
  <2>7. DirBlocks(k)' = <<Dots(k, up)>>
    <3>1. DirBlocks(k)' = [m \in {1} |-> Dots(k, up)]
      BY <2>1, <2>2, <2>3, <2>4 DEF DirBlocks, BlocksOf
    <3>2. QED
      BY <3>1
  <2>8. Lookup(k, DotDot)' = up
    <3>1. LookupInDir(DirBlocks(k)', DotDot) = up
      BY <2>6, <2>7, DotsList
    <3>2. QED
      BY <3>1 DEF Lookup
  <2>9. \A e : ~ \E m \in DOMAIN inodes'[k].extents :
                    e \in Listed(k, content'[inodes'[k].extents[m]].entries)
    <3>1. \A m \in DOMAIN inodes'[k].extents :
                content'[inodes'[k].extents[m]].entries = Dots(k, up)
      BY <2>1, <2>2, <2>3, <2>4
    <3>2. \A o \in Live(Dots(k, up)) : Dots(k, up)[o].name \in {Dot, DotDot}
      BY DotsAre
    <3>3. \A e : e \notin Listed(k, Dots(k, up))
      BY <3>2, ListedIs
    <3>4. QED
      BY <3>1, <3>3
  <2>10. Entries' = Entries
    <3>1. \A e : e \in EntriesOf(inodes', content') <=> e \in EntriesOf(inodes, content)
      <4> TAKE e
      <4>1. e \in EntriesOf(inodes', content') <=>
                \E d \in Inodes : /\ inodes'[d].type = "dir"
                                  /\ \E m \in DOMAIN inodes'[d].extents :
                                        e \in Listed(d, content'[inodes'[d].extents[m]].entries)
        BY EntriesOfAre
      <4>2. e \in EntriesOf(inodes, content) <=>
                \E d \in Inodes : /\ inodes[d].type = "dir"
                                  /\ \E m \in DOMAIN inodes[d].extents :
                                        e \in Listed(d, content[inodes[d].extents[m]].entries)
        BY EntriesOfAre
      <4>3. QED
        BY <2>1, <2>3, <2>4, <2>9, <4>1, <4>2
    <3>2. QED
      BY <3>1 DEF Entries
  <2>11. Linked' = Linked
    BY <2>10 DEF Linked
  <2>12. CallNames'
    <3>1. /\ call'.pc = "size_dir" /\ call'.op = call.op /\ call'.parent = up
          /\ call'.ino = k /\ call'.data = call.data /\ call'.name = call.name
      BY <1>1, <2>1, GoesOn, SoundSplit
    <3>2. Lookup(call.ino, DotDot)' = up
      BY <2>8, <3>1
    <3>3. CallNames
      BY DEF Named
    <3>4. QED
      BY <1>1, <2>4, <2>5, <2>11, <3>1, <3>2, <3>3
         DEF CallNames, ParentPcs, DataPcs, ClearPcs, AddingPcs
  <2>13. QED
    BY <2>1, <2>5, <2>10, <2>11, <2>12, PutInodeQuiet
<1>4. QED
  BY <1>2, <1>3

\* Sizes and counts of directories.
LEMMA SizeDirStores ==
    ASSUME Sound, Named, \A i \in Inodes : DirKept(i), SizeNewDir \/ SizeParent \/ CountLink
    PROVE  Named' /\ StoreStep
<1> PICK k : k = call.ino
  OBVIOUS
<1>1. ASSUME NEW i \in Inodes, IsDir(i), NEW inode, PutInode(i, inode),
             inode.type = inodes[i].type, inode.extents = inodes[i].extents,
             UNCHANGED <<content, torn>>, call # Idle, NEW from, call.pc = from,
             NEW to, Goto(to),
             \/ from = "size_dir" /\ to = "add" /\ call.op = "mkdir"
                /\ Lookup(k, DotDot)' = Lookup(k, DotDot)
             \/ from = "size_parent" /\ to = "links"
             \/ from = "size_parent" /\ to = "data" /\ call.op # "mkdir"
             \/ from = "links" /\ to = "flush"
      PROVE  Named' /\ StoreStep
  <2>1. \A d \in Inodes : inodes'[d].type = inodes[d].type /\ inodes'[d].extents = inodes[d].extents
    BY <1>1, SoundSplit DEF PutInode, Exclusive
  <2>2. Entries' = Entries /\ Linked' = Linked
    BY <1>1, <2>1, EntriesFrame
  <2>3. /\ call'.pc = to /\ call'.op = call.op /\ call'.parent = call.parent
        /\ call'.ino = k /\ call'.data = call.data /\ call'.name = call.name
    BY <1>1, GoesOn, SoundSplit
  <2>4. CallNames
    BY DEF Named
  <2>5. CallNames'
    BY <1>1, <2>2, <2>3, <2>4, GoOnNames DEF ParentPcs, DataPcs, ClearPcs, AddingPcs
  <2>6. QED
    BY <1>1, <2>2, <2>5, PutInodeQuiet DEF IsDir
<1>2. CASE SizeNewDir
  <2> DEFINE inode == [inodes[k] EXCEPT !.size = 1, !.blocks = 1]
  <2>1. inode.type = inodes[k].type /\ inode.extents = inodes[k].extents
    OBVIOUS
  <2>2. /\ PutInode(k, inode) /\ Goto("add") /\ call # Idle /\ call.pc = "size_dir"
        /\ UNCHANGED <<content, torn>>
    BY <1>2 DEF SizeNewDir, At, Idle, history
  <2> HIDE DEF inode
  <2>3. k \in Inodes /\ IsDir(k) /\ call.op = "mkdir"
    BY <2>2, SoundSplit, ControlSplit DEF Linking, CallLinks
  <2>4. Lookup(k, DotDot)' = Lookup(k, DotDot)
    BY <2>3 DEF DirKept, ParentKept
  <2>5. QED
    BY <1>1, <2>1, <2>2, <2>3, <2>4
<1>3. CASE SizeParent
  <2> DEFINE inode == [inodes[call.parent] EXCEPT !.size = @ + 1]
  <2>1. inode.type = inodes[call.parent].type /\ inode.extents = inodes[call.parent].extents
    OBVIOUS
  <2>2. /\ PutInode(call.parent, inode) /\ Goto(AfterAdd) /\ call # Idle /\ call.pc = "size_parent"
        /\ UNCHANGED <<content, torn>>
    BY <1>3 DEF SizeParent, At, Idle, history
  <2> HIDE DEF inode
  <2>3. call.parent \in Inodes /\ IsDir(call.parent)
    BY <2>2, SoundSplit, ControlSplit DEF ParentPcs
  <2>4. PICK to : Goto(to) /\ (to = "links" \/ (to = "data" /\ call.op # "mkdir"))
    BY <2>2 DEF AfterAdd
  <2>5. PICK i \in Inodes : i = call.parent
    BY <2>3
  <2>6. QED
    BY <1>1, <2>1, <2>2, <2>3, <2>4, <2>5
<1>4. CASE CountLink
  <2> DEFINE inode == [inodes[call.parent] EXCEPT !.links = @ + 1]
  <2>1. inode.type = inodes[call.parent].type /\ inode.extents = inodes[call.parent].extents
    OBVIOUS
  <2>2. /\ PutInode(call.parent, inode) /\ Goto("flush") /\ call # Idle /\ call.pc = "links"
        /\ UNCHANGED <<content, torn>>
    BY <1>4 DEF CountLink, At, Idle, history
  <2> HIDE DEF inode
  <2>3. call.parent \in Inodes /\ IsDir(call.parent)
    BY <2>2, SoundSplit, ControlSplit DEF ParentPcs
  <2>4. QED
    BY <1>1, <2>1, <2>2, <2>3
<1>5. QED
  BY <1>2, <1>3, <1>4

-----------------------------------------------------------------------------
(* Steps that link.                                                        *)

\* The names of what a call in progress links are its entry's.
LEMMA AddedNames ==
    ASSUME Named, call # Idle, call.pc \in AddingPcs, Linked \subseteq Linked',
           call'.op = call.op, call'.parent = call.parent, call'.data = call.data,
           call'.pc \in {"size_parent", "links", "data"},
           call'.pc = "data" => call.op # "mkdir"
    PROVE  CallNames'
<1>1. call.parent \in Linked
  BY DEF Named, CallNames, AddingPcs, ParentPcs
<1>2. call.op # "mkdir" => call.data \in Writes
  BY DEF Named, CallNames
<1>3. QED
  BY <1>1, <1>2 DEF CallNames, AddingPcs, ParentPcs, DataPcs, ClearPcs

\* The entries of one directory's blocks.
LEMMA EntriesGain ==
    ASSUME NEW up \in Inodes, IsDir(up), NEW new,
           \A d \in Inodes : inodes'[d].type = inodes[d].type,
           \A d \in Inodes : IsDir(d) /\ d # up =>
                /\ inodes'[d].extents = inodes[d].extents
                /\ \A m \in DOMAIN inodes[d].extents :
                    content'[inodes[d].extents[m]] = content[inodes[d].extents[m]],
           \A f : (\E m \in DOMAIN inodes'[up].extents :
                        f \in Listed(up, content'[inodes'[up].extents[m]].entries)) <=>
                  (f \in new \/ \E m \in DOMAIN inodes[up].extents :
                                f \in Listed(up, content[inodes[up].extents[m]].entries))
    PROVE  Entries' = Entries \cup new
<1>1. \A f : f \in EntriesOf(inodes', content') <=> (f \in EntriesOf(inodes, content) \/ f \in new)
  <2> TAKE f
  <2>1. f \in EntriesOf(inodes', content') <=>
                \E d \in Inodes : /\ inodes'[d].type = "dir"
                                  /\ \E m \in DOMAIN inodes'[d].extents :
                                        f \in Listed(d, content'[inodes'[d].extents[m]].entries)
    BY EntriesOfAre
  <2>2. f \in EntriesOf(inodes, content) <=>
                \E d \in Inodes : /\ inodes[d].type = "dir"
                                  /\ \E m \in DOMAIN inodes[d].extents :
                                        f \in Listed(d, content[inodes[d].extents[m]].entries)
    BY EntriesOfAre
  <2>3. \A d \in Inodes : d # up /\ inodes[d].type = "dir" =>
            ((\E m \in DOMAIN inodes'[d].extents :
                    f \in Listed(d, content'[inodes'[d].extents[m]].entries)) <=>
             (\E m \in DOMAIN inodes[d].extents :
                    f \in Listed(d, content[inodes[d].extents[m]].entries)))
    BY DEF IsDir
  <2>4. QED
    BY <2>1, <2>2, <2>3 DEF IsDir
<1>2. QED
  BY <1>1 DEF Entries

\* What an insertion adds to what a block lists, and where; nothing if the name
\* is "." or "..".
AlsoLists(d, before, e, after) == \A f : f \in Listed(d, after) <=> (f \in Listed(d, before) \/ f = e)

LEMMA InsertShown ==
    ASSUME NEW d, NEW before, NEW table, ListsWritten(before, table),
           NEW name \in Names, NEW ino \in Inodes,
           NEW p \in FindSpace(before, NameWords[name]),
           NEW after, after = InsertEntry(before, p.at, Entry(ino, p.rec, name)),
           NEW e, e = [dir |-> d, name |-> name, node |-> ino]
    PROVE  Listed(d, after) = Listed(d, before) \/ AlsoLists(d, before, e, after)
<1>1. IsBlock(before) /\ WellFormed(before) /\ ino # Deleted
  BY DirBlockIsBlock, DotsAssumption DEF ListsWritten
<1>2. Inserts(before, p, ino, name, after)
  BY <1>1, InsertKeepsChain
<1>3. Shows(before, p, ino, name, after)
  BY <1>1, InsertLookup
<1>4. /\ Live(after) = IF p.at \in Chain(before) THEN Live(before) \cup {p.at} ELSE Live(before)
      /\ \A o \in Live(before) : after[o] = before[o]
  BY <1>3 DEF Shows
<1>5. after[p.at].name = name /\ after[p.at].ino = ino
  BY <1>2 DEF Inserts, Entry
<1>6. CASE p.at \notin Chain(before)
  <2>1. \A f : f \in Listed(d, after) <=> f \in Listed(d, before)
    BY <1>4, <1>6, ListedIs
  <2>2. QED
    BY <2>1 DEF Listed
<1>7. CASE p.at \in Chain(before)
  <2>1. \A o : o \in Live(after) <=> (o \in Live(before) \/ o = p.at)
    BY <1>4, <1>7
  <2> HIDE DEF Live
  <2>2. \A f : f \in Listed(d, after) <=>
            \E o \in Live(after) : /\ after[o].name \notin {Dot, DotDot}
                                   /\ f = [dir |-> d, name |-> after[o].name, node |-> after[o].ino]
    BY ListedIs
  <2>3. \A f : f \in Listed(d, before) <=>
            \E o \in Live(before) : /\ before[o].name \notin {Dot, DotDot}
                                    /\ f = [dir |-> d, name |-> before[o].name, node |-> before[o].ino]
    BY ListedIs
  <2>4. CASE name \notin {Dot, DotDot}
    <3>1. AlsoLists(d, before, e, after)
      BY <1>4, <1>5, <2>1, <2>2, <2>3, <2>4 DEF AlsoLists
    <3>2. QED
      BY <3>1
  <2>5. CASE name \in {Dot, DotDot}
    <3>1. \A f : f \in Listed(d, after) <=> f \in Listed(d, before)
      BY <1>4, <1>5, <2>1, <2>2, <2>3, <2>5
    <3>2. QED
      BY <3>1 DEF Listed
  <2>6. QED
    BY <2>4, <2>5
<1>8. QED
  BY <1>6, <1>7

\* A block with one name lists it, unless that is "." or "..".
LEMMA FreshShown ==
    ASSUME NEW d, NEW name \in Names, NEW ino \in Inodes, NEW f
    PROVE  f \in Listed(d, FreshBlock(ino, name)) <=>
                name \notin {Dot, DotDot} /\ f = [dir |-> d, name |-> name, node |-> ino]
<1> DEFINE new == FreshBlock(ino, name)
<1>1. Chain(new) = {0} /\ new[0] = Entry(ino, BlockWords, name)
  BY FreshBlockChain
<1>2. new[0].ino = ino /\ new[0].name = name /\ ino # Deleted
  BY <1>1, DotsAssumption DEF Entry
<1>3. \A o : o \in Live(new) <=> o = 0
  BY <1>1, <1>2 DEF Live
<1> HIDE DEF new
<1>4. f \in Listed(d, new) <=>
        \E o \in Live(new) : /\ new[o].name \notin {Dot, DotDot}
                             /\ f = [dir |-> d, name |-> new[o].name, node |-> new[o].ino]
  BY ListedIs
<1>5. QED
  BY <1>2, <1>3, <1>4 DEF new

\* The parent's new block lists the entry alone.
LEMMA AppendEntryStores ==
    ASSUME Sound, Named, \A i \in Inodes : DirKept(i), AppendEntry
    PROVE  Named' /\ StoreStep
<1> PICK up \in Inodes : up = call.parent /\ IsDir(up)
  BY SoundSplit, ControlSplit DEF AppendEntry, At, Idle, ParentPcs
<1>1. /\ call # Idle /\ call.pc = "append_entry"
      /\ AppendExtentThen(up, inodes[up], "size_parent")
  BY DEF AppendEntry, At, Idle
<1>2. CASE Fail
  BY <1>2, FailStores
<1>3. CASE ~ Fail
  <2> DEFINE inode == [inodes[up] EXCEPT !.extents = Append(@, call.block)]
  <2>1. PutInode(up, inode) /\ Goto("size_parent") /\ UNCHANGED <<content, torn>>
    BY <1>1, <1>3 DEF AppendExtentThen, history
  <2>2. inodes[up] \in InodeRecords
    BY SoundSplit DEF Exclusive
  <2>3. inode.type = inodes[up].type /\ inode.extents = Append(inodes[up].extents, call.block)
    BY <2>2 DEF InodeRecords
  <2> HIDE DEF inode
  <2>4. \A i \in Inodes : inodes'[i] = IF i = up THEN inode ELSE inodes[i]
    BY <2>1, SoundSplit DEF PutInode, Exclusive
  <2>5. inodes[up].extents \in Seq(Blocks) /\ call.block \in Blocks
    BY <1>1, SoundSplit, ExtentsAreBlocks DEF Exclusive, HeldIsUnmapped, HeldBlock
  <2>6. OneMore(inodes[up].extents, call.block, inode.extents)
    BY <2>3, <2>5, AppendIs
  <2> PICK k \in Inodes : k = call.ino
    BY <1>1, SoundSplit, ControlSplit
  <2> PICK name \in Names : name = call.name
    BY <1>1, SoundSplit DEF Linking, CallLinks, ParentPcs
  <2> PICK e : e = [dir |-> up, name |-> name, node |-> k]
    OBVIOUS
  <2>7. content[call.block].entries = FreshBlock(k, name)
    BY <1>1, SoundSplit DEF Linking, CallLinks
  <2>8. \A f : (\E m \in DOMAIN inodes'[up].extents :
                    f \in Listed(up, content'[inodes'[up].extents[m]].entries)) <=>
               ((name \notin {Dot, DotDot} /\ f = e)
                \/ \E m \in DOMAIN inodes[up].extents :
                            f \in Listed(up, content[inodes[up].extents[m]].entries))
    <3> TAKE f
    <3>1. f \in Listed(up, content[call.block].entries) <=> name \notin {Dot, DotDot} /\ f = e
      BY <2>7, FreshShown
    <3>2. inodes'[up].extents = inode.extents /\ content' = content
      BY <2>1, <2>4
    <3>3. /\ DOMAIN inode.extents = DOMAIN inodes[up].extents \cup {Len(inodes[up].extents) + 1}
          /\ Len(inodes[up].extents) + 1 \notin DOMAIN inodes[up].extents
          /\ \A m \in DOMAIN inodes[up].extents : inode.extents[m] = inodes[up].extents[m]
          /\ inode.extents[Len(inodes[up].extents) + 1] = call.block
      BY <2>6 DEF OneMore
    <3> HIDE DEF Listed
    <3>4. QED
      BY <3>1, <3>2, <3>3
  <2>9. \A i \in Inodes : inodes'[i].type = inodes[i].type
    BY <2>3, <2>4
  <2>10. \A d \in Inodes : IsDir(d) /\ d # up =>
                /\ inodes'[d].extents = inodes[d].extents
                /\ \A m \in DOMAIN inodes[d].extents :
                    content'[inodes[d].extents[m]] = content[inodes[d].extents[m]]
    BY <2>1, <2>4
  <2>11. \A i \in Inodes : IsFile(i) => Contents(i)' = Contents(i)
    <3>1. SUFFICES ASSUME NEW i \in Inodes, IsFile(i) PROVE Contents(i)' = Contents(i)
      OBVIOUS
    <3>2. inodes'[i] = inodes[i]
      BY <2>4, <3>1 DEF IsDir, IsFile
    <3>3. QED
      BY <2>1, <3>2, SoundSplit, ContentsFrame
  <2>12. /\ call'.pc = "size_parent" /\ call'.op = call.op /\ call'.parent = call.parent
         /\ call'.data = call.data
    BY <1>1, <2>1, GoesOn, SoundSplit
  <2>13. Linked \subseteq Linked' => CallNames'
    BY <1>1, <2>12, AddedNames DEF AddingPcs
  <2>14. CASE name \notin {Dot, DotDot}
    <3>1. \A f : (\E m \in DOMAIN inodes'[up].extents :
                        f \in Listed(up, content'[inodes'[up].extents[m]].entries)) <=>
                   (f \in {e} \/ \E m \in DOMAIN inodes[up].extents :
                                f \in Listed(up, content[inodes[up].extents[m]].entries))
      BY <2>8, <2>14
    <3>2. Entries' = Entries \cup {e}
      BY <2>9, <2>10, <3>1, EntriesGain
    <3>3. CallNames'
      BY <2>13, <3>2 DEF Linked, LinkedIn
    <3>4. QED
      BY <1>1, <2>1, <2>9, <2>11, <3>2, <3>3, Gaining DEF AddPcs, AddingPcs
  <2>15. CASE name \in {Dot, DotDot}
    <3>1. \A f : (\E m \in DOMAIN inodes'[up].extents :
                        f \in Listed(up, content'[inodes'[up].extents[m]].entries)) <=>
                   (f \in {} \/ \E m \in DOMAIN inodes[up].extents :
                                f \in Listed(up, content[inodes[up].extents[m]].entries))
      BY <2>8, <2>15
    <3>2. Entries' = Entries \cup {}
      BY <2>9, <2>10, <3>1, EntriesGain
    <3>3. Linked' = Linked
      BY <3>2 DEF Linked
    <3>4. \A i \in Linked : i \in Inodes
      BY SoundSplit, LinkedIs
    <3>5. \A i \in torn' : i \in Inodes /\ IsFile(i)'
      BY <2>1, <2>9 DEF Named, IsFile
    <3>6. QED
      BY <2>9, <2>11, <2>13, <3>2, <3>3, <3>4, <3>5, Quiet
  <2>16. QED
    BY <2>14, <2>15
<1>4. QED
  BY <1>2, <1>3

\* The entry goes into a block of the parent, or is lost in its slack space.
LEMMA AddInPlaceStores ==
    ASSUME Sound, Named, \A i \in Inodes : DirKept(i), AddInPlace
    PROVE  Named' /\ StoreStep
<1>1. call # Idle /\ call.pc = "add" /\ UNCHANGED <<inodes, torn>>
  BY DEF AddInPlace, At, Idle, history
<1> PICK up \in Inodes : up = call.parent /\ IsDir(up)
  BY <1>1, SoundSplit, ControlSplit DEF ParentPcs
<1> PICK k \in Inodes : k = call.ino
  BY <1>1, SoundSplit, ControlSplit
<1> PICK name \in Names : name = call.name
  BY <1>1, SoundSplit DEF Linking, CallLinks, ParentPcs
<1> PICK e : e = [dir |-> up, name |-> name, node |-> k]
  OBVIOUS
<1>2. DOMAIN inodes[up].extents \subseteq Nat /\ \A m \in DOMAIN inodes[up].extents :
            inodes[up].extents[m] \in Blocks
  BY SoundSplit, ExtentsAreBlocks
<1>3. PICK j \in DOMAIN inodes[up].extents : j = Min(Roomy)
  <2>1. Roomy \subseteq DOMAIN inodes[up].extents
    BY DEF Roomy, DirBlocks, BlocksOf
  <2>2. Roomy \subseteq Nat /\ Roomy # {}
    BY <1>2, <2>1 DEF AddInPlace
  <2>3. Min(Roomy) \in Roomy
    BY <2>2, MinExists
  <2>4. QED
    BY <2>1, <2>3
<1>4. PICK b \in Blocks : b = inodes[up].extents[j]
  BY <1>2
<1>5. PICK before : before = content[b].entries
  OBVIOUS
<1>6. PICK p \in FindSpace(before, NameWords[name]) :
        PutBlock(b, Lists(InsertEntry(before, p.at, Entry(k, p.rec, name))))
  BY <1>3, <1>4, <1>5 DEF AddInPlace
<1>7. PICK after : after = InsertEntry(before, p.at, Entry(k, p.rec, name))
  OBVIOUS
<1>8. content'[b].entries = after /\ \A c : c # b => content'[c] = content[c]
  BY <1>4, <1>6, <1>7, SoundSplit DEF PutBlock, Lists, Reading
<1>9. \A i \in Inodes : \A m \in DOMAIN inodes[i].extents :
        inodes[i].extents[m] = b => i = up /\ m = j
  BY <1>3, <1>4, SoundSplit DEF Exclusive, NoSharedBlock, Unshared
<1>10. ListsWritten(before, inodes)
  <2>1. ListingOf(up, DirBlocks(up), inodes)
    BY SoundSplit DEF Linking, SoundInode
  <2>2. QED
    BY <1>4, <1>5, <2>1 DEF ListingOf, DirBlocks, BlocksOf
<1>11. Listed(up, after) = Listed(up, before) \/ AlsoLists(up, before, e, after)
  BY <1>7, <1>10, InsertShown
<1>12. /\ \A i \in Inodes : i # up => \A m \in DOMAIN inodes[i].extents :
                content'[inodes[i].extents[m]] = content[inodes[i].extents[m]]
       /\ \A m \in DOMAIN inodes[up].extents : m # j =>
                content'[inodes[up].extents[m]] = content[inodes[up].extents[m]]
  BY <1>8, <1>9
<1>13. \A i \in Inodes : IsFile(i) => Contents(i)' = Contents(i)
  BY <1>1, <1>12, SoundSplit, ContentsFrame DEF IsFile, IsDir
<1>14. PICK to : Goto(to) /\ (to = "links" \/ (to = "data" /\ call.op # "mkdir"))
  BY DEF AddInPlace, AfterAdd
<1>15. /\ call'.pc = to /\ call'.op = call.op /\ call'.parent = call.parent
       /\ call'.data = call.data
  BY <1>1, <1>14, GoesOn, SoundSplit
<1>16. Linked \subseteq Linked' => CallNames'
  BY <1>1, <1>14, <1>15, AddedNames DEF AddingPcs
<1>17. \A i \in Linked : i \in Inodes
  BY SoundSplit, LinkedIs
<1>18. CASE Listed(up, after) = Listed(up, before)
  <2>1. \A d \in Inodes : \A m \in DOMAIN inodes[d].extents :
            Listed(d, content'[inodes[d].extents[m]].entries) =
            Listed(d, content[inodes[d].extents[m]].entries)
    BY <1>3, <1>4, <1>5, <1>8, <1>12, <1>18
  <2>2. \A f : f \in EntriesOf(inodes', content') <=> f \in EntriesOf(inodes, content)
    <3> TAKE f
    <3>1. f \in EntriesOf(inodes', content') <=>
                \E d \in Inodes : /\ inodes[d].type = "dir"
                                  /\ \E m \in DOMAIN inodes[d].extents :
                                        f \in Listed(d, content'[inodes[d].extents[m]].entries)
      BY <1>1, EntriesOfAre
    <3>2. f \in EntriesOf(inodes, content) <=>
                \E d \in Inodes : /\ inodes[d].type = "dir"
                                  /\ \E m \in DOMAIN inodes[d].extents :
                                        f \in Listed(d, content[inodes[d].extents[m]].entries)
      BY EntriesOfAre
    <3>3. QED
      BY <2>1, <3>1, <3>2
  <2>3. Entries' = Entries
    BY <2>2 DEF Entries
  <2>4. Linked' = Linked
    BY <2>3 DEF Linked
  <2>5. \A i \in torn' : i \in Inodes /\ IsFile(i)'
    BY <1>1 DEF Named, IsFile
  <2>6. QED
    BY <1>1, <1>13, <1>16, <1>17, <2>3, <2>4, <2>5, Quiet
<1>19. CASE AlsoLists(up, before, e, after)
  <2>1. \A f : (\E m \in DOMAIN inodes'[up].extents :
                    f \in Listed(up, content'[inodes'[up].extents[m]].entries)) <=>
               (f \in {e} \/ \E m \in DOMAIN inodes[up].extents :
                            f \in Listed(up, content[inodes[up].extents[m]].entries))
    <3> TAKE f
    <3>1. f \in Listed(up, content'[inodes[up].extents[j]].entries) <=>
            (f = e \/ f \in Listed(up, content[inodes[up].extents[j]].entries))
      BY <1>4, <1>5, <1>8, <1>19 DEF AlsoLists
    <3>2. QED
      BY <1>1, <1>3, <1>12, <3>1
  <2>2. Entries' = Entries \cup {e}
    <3>1. /\ \A d \in Inodes : inodes'[d].type = inodes[d].type
          /\ \A d \in Inodes : IsDir(d) /\ d # up =>
                /\ inodes'[d].extents = inodes[d].extents
                /\ \A m \in DOMAIN inodes[d].extents :
                    content'[inodes[d].extents[m]] = content[inodes[d].extents[m]]
      BY <1>1, <1>12
    <3>2. QED
      BY <2>1, <3>1, EntriesGain
  <2>3. CallNames'
    BY <1>16, <2>2 DEF Linked, LinkedIn
  <2>4. QED
    BY <1>1, <1>13, <2>2, <2>3, Gaining DEF AddPcs, AddingPcs
<1>20. QED
  BY <1>11, <1>18, <1>19

-----------------------------------------------------------------------------
(* Steps that replace or tear a file.                                      *)

LEMMA Rewriting ==
    ASSUME Sound, Named, \A i \in Inodes : DirKept(i), call # Idle, call.pc \in DataPcs,
           NEW k \in Inodes, k = call.ino, NEW inode, PutInode(k, inode), inode.type = "file",
           UNCHANGED content, \A i \in torn' : i \in torn \/ i = k,
           \A i \in torn : i \in torn' \/ i = k,
           call'.op = call.op, call'.data = call.data, call'.pc \in {"data", "flush"},
           \/ Contents(k)' = Contents(k)
           \/ Contents(k)' = Store!Torn
           \/ \E data \in Writes : Contents(k)' = Store!Whole(Reads(data))
    PROVE  Named' /\ StoreStep
<1>1. IsFile(k)
  BY SoundSplit DEF Linking, CallLinks
<1>2. \A i \in Inodes : inodes'[i] = IF i = k THEN inode ELSE inodes[i]
  BY SoundSplit DEF PutInode, Exclusive
<1>3. \A i \in Inodes : inodes'[i].type = inodes[i].type
  BY <1>1, <1>2 DEF IsFile
<1>4. Entries' = Entries /\ Linked' = Linked
  BY <1>1, <1>2, EntriesFrame DEF IsFile
<1>5. \A i \in Linked : i \in Inodes
  BY SoundSplit, LinkedIs
<1>6. \A i \in Inodes : i # k => Contents(i)' = Contents(i)
  BY <1>2, SoundSplit, ContentsFrame
<1>7. CallNames'
  <2>1. call.op # "mkdir" /\ call.data \in Writes
    BY DEF Named, CallNames
  <2>2. QED
    BY <2>1 DEF CallNames, ParentPcs, DataPcs, ClearPcs, AddingPcs
<1>8. \A i \in torn' : i \in Inodes /\ IsFile(i)'
  BY <1>1, <1>3 DEF Named, IsFile
<1>9. CASE Contents(k)' = Contents(k) \/ k \notin Linked
  BY <1>3, <1>4, <1>5, <1>6, <1>7, <1>8, <1>9, Quiet
<1>10. CASE Contents(k)' # Contents(k) /\ k \in Linked
  <2>1. \A i \in Linked : (IsDir(i)' <=> IsDir(i)) /\ (IsFile(i)' <=> IsFile(i))
    BY <1>3, <1>5 DEF IsDir, IsFile
  <2>2. Tree'
    BY <1>4, <1>5, <2>1 DEF Named, Tree, DirKept, ParentKept
  <2>3. StoreDirs' = StoreDirs
    BY <1>4, <2>1 DEF StoreDirs
  <2>4. DOMAIN StoreFiles' = DOMAIN StoreFiles
    BY <1>4, <2>1 DEF StoreFiles
  <2>5. \A i \in DOMAIN StoreFiles :
            StoreFiles[i] = Contents(i) /\ i \in Linked
    BY DEF StoreFiles
  <2>6. \A i \in DOMAIN StoreFiles' : StoreFiles'[i] = Contents(i)'
    BY DEF StoreFiles
  <2>7. k \in DOMAIN StoreFiles
    BY <1>1, <1>10 DEF StoreFiles
  <2>8. \A i \in DOMAIN StoreFiles' :
            StoreFiles'[i] = IF i = k THEN Contents(k)' ELSE StoreFiles[i]
    BY <1>5, <1>6, <2>4, <2>5, <2>6
  <2>9. StoreFiles' = [i \in DOMAIN StoreFiles' |-> StoreFiles'[i]]
    BY DEF StoreFiles
  <2> HIDE DEF StoreFiles
  <2>10. PICK c : c = Contents(k)'
    OBVIOUS
  <2>11. StoreFiles' = [StoreFiles EXCEPT ![k] = c]
    BY <2>4, <2>8, <2>9, <2>10
  <2>12. c \in {Store!Whole(data) : data \in {Reads(w) : w \in Writes}} \cup {Store!Torn}
    BY <1>10, <2>10
  <2>13. Store!Replace
    <3>1. \E i \in DOMAIN StoreFiles,
             contents \in {Store!Whole(data) : data \in {Reads(w) : w \in Writes}} \cup {Store!Torn} :
                StoreFiles' = [StoreFiles EXCEPT ![i] = contents]
      BY <2>7, <2>11, <2>12
    <3>2. QED
      BY <1>4, <2>3, <3>1 DEF Store!Replace, StoreDirs, StoreFiles
  <2>14. QED
    BY <1>7, <1>8, <2>2, <2>13 DEF Named, StoreStep, Store!Next
<1>11. QED
  BY <1>9, <1>10

\* An extent more tears the file, unless there was nothing in it.
LEMMA AppendDataStores ==
    ASSUME Sound, Named, \A i \in Inodes : DirKept(i), AppendData
    PROVE  Named' /\ StoreStep
<1>1. call # Idle /\ call.pc = "append_data"
  BY DEF AppendData, At, Idle
<1> PICK k \in Inodes : k = call.ino
  BY <1>1, SoundSplit, ControlSplit
<1>2. IsFile(k)
  BY <1>1, SoundSplit DEF Linking, CallLinks, DataPcs
<1>3. CASE Fail
  BY <1>3, FailStores
<1>4. CASE ~ Fail
  <2> DEFINE old == inodes[k]
             start == IF call.done = 0 THEN [old EXCEPT !.extents = <<>>] ELSE old
             inode == [start EXCEPT !.extents = Append(@, call.block)]
  <2>1. /\ PutInode(k, inode) /\ UNCHANGED content
        /\ call' = [call EXCEPT !.pc = "data", !.done = @ + 1]
        /\ torn' = IF old.size > 0 THEN torn \cup {k} ELSE torn
    BY <1>4 DEF AppendData
  <2>2. old \in InodeRecords /\ old.size \in Nat
    BY SoundSplit, ExtentsAreBlocks DEF Exclusive
  <2>3. inode.type = old.type /\ inode.size = old.size
    BY <2>2 DEF InodeRecords
  <2>4. old.type = "file"
    BY <1>2 DEF IsFile
  <2> HIDE DEF inode
  <2>5. inodes'[k] = inode
    BY <2>1, SoundSplit DEF PutInode, Exclusive
  <2>6. call'.pc = "data" /\ call'.op = call.op /\ call'.data = call.data
    BY <1>1, <2>1, GoesOnPast, SoundSplit
  <2>7. Contents(k)' = Contents(k) \/ Contents(k)' = Store!Torn
    <3>1. CASE k \in torn'
      BY <3>1 DEF Contents, Store!Torn
    <3>2. CASE k \notin torn'
      <4>1. k \notin torn /\ old.size = 0 /\ inodes'[k].size = 0
        BY <2>1, <2>2, <2>3, <2>5, <3>2
      <4>2. ReadFile(k) = <<>>
        <5>1. Len(old.extents) \in Nat
          BY SoundSplit, ExtentsAreBlocks
        <5>2. ReadFile(k) = [j \in 1..0 |-> content[inodes[k].extents[j]].data]
          BY <4>1, <5>1 DEF ReadFile
        <5>3. QED
          BY <5>2
      <4>3. ReadFile(k)' = <<>>
        <5>1. Exclusive'
          BY SoundSplit, ExclusiveNext DEF Next, Step
        <5>2. Len(inodes'[k].extents) \in Nat
          BY <5>1 DEF Exclusive, InodeRecords
        <5>3. ReadFile(k)' = [j \in 1..0 |-> content'[inodes'[k].extents[j]].data]
          BY <4>1, <5>2 DEF ReadFile
        <5>4. QED
          BY <5>3
      <4>4. QED
        BY <3>2, <4>1, <4>2, <4>3 DEF Contents
    <3>3. QED
      BY <3>1, <3>2
  <2>8. /\ \A i \in torn' : i \in torn \/ i = k
        /\ \A i \in torn : i \in torn' \/ i = k
    BY <2>1
  <2>9. QED
    BY <1>1, <2>1, <2>3, <2>4, <2>6, <2>7, <2>8, Rewriting DEF DataPcs
<1>5. QED
  BY <1>3, <1>4

\* What write_file has written replaces what was there.
LEMMA SizeFileStores ==
    ASSUME Sound, Named, \A i \in Inodes : DirKept(i), SizeFile
    PROVE  Named' /\ StoreStep
<1>1. call # Idle /\ call.pc = "data"
  BY DEF SizeFile, At, Idle
<1> PICK k \in Inodes : k = call.ino
  BY <1>1, SoundSplit, ControlSplit
<1>2. IsFile(k)
  BY <1>1, SoundSplit DEF Linking, CallLinks, DataPcs
<1> DEFINE old == inodes[k]
           inode == [old EXCEPT !.extents = IF call.done = 0 THEN <<>> ELSE @,
                                !.size = Len(call.data), !.blocks = Len(call.data)]
<1>3. /\ PutInode(k, inode) /\ UNCHANGED content /\ Goto("flush")
      /\ acked' = [acked EXCEPT ![k] = call.data] /\ torn' = torn \ {k}
  BY DEF SizeFile
<1>4. old \in InodeRecords
  BY SoundSplit DEF Exclusive
<1>5. inode.type = "file"
  BY <1>2, <1>4 DEF InodeRecords, IsFile
<1> HIDE DEF inode
<1>6. inodes'[k] = inode /\ acked'[k] = call.data
  BY <1>3, SoundSplit DEF PutInode, Exclusive, Reading
<1>7. call'.pc = "flush" /\ call'.op = call.op /\ call'.data = call.data
  BY <1>1, <1>3, GoesOn, SoundSplit
<1>8. ReadFile(k)' = Reads(call.data)
  <2>1. Exclusive' /\ Reading'
    BY SoundSplit, ExclusiveNext, ReadingNext DEF Next, Step
  <2>2. IsFile(k)' /\ k \notin torn'
    BY <1>3, <1>5, <1>6 DEF IsFile
  <2>3. /\ inodes'[k].size <= Len(inodes'[k].extents)
        /\ DOMAIN acked'[k] = 1..inodes'[k].size
        /\ \A j \in 1..inodes'[k].size : content'[inodes'[k].extents[j]].data = {acked'[k][j]}
    BY <2>1, <2>2 DEF Reading, Intact
  <2>4. inodes'[k].size \in Nat /\ Len(inodes'[k].extents) \in Nat
    BY <2>1 DEF Exclusive, InodeRecords
  <2>5. ReadFile(k)' = [j \in 1..inodes'[k].size |-> content'[inodes'[k].extents[j]].data]
    BY <2>3, <2>4 DEF ReadFile
  <2>6. Reads(call.data) = [j \in 1..inodes'[k].size |-> {call.data[j]}]
    BY <1>6, <2>3 DEF Reads
  <2>7. QED
    BY <1>6, <2>3, <2>5, <2>6
<1>9. call.data \in Writes
  BY <1>1 DEF Named, CallNames, DataPcs
<1>10. \E data \in Writes : Contents(k)' = Store!Whole(Reads(data))
  BY <1>3, <1>8, <1>9 DEF Contents, Store!Whole
<1>11. /\ \A i \in torn' : i \in torn \/ i = k
       /\ \A i \in torn : i \in torn' \/ i = k
  BY <1>3
<1>12. QED
  BY <1>1, <1>3, <1>5, <1>7, <1>10, <1>11, Rewriting DEF DataPcs

-----------------------------------------------------------------------------
(* The theorem.                                                            *)

LEMMA NamedNext ==
    ASSUME Sound, Named, Next
    PROVE  Named' /\ StoreStep
<1>1. \A i \in Inodes : DirKept(i)
  BY SoundSplit, LinkingNext
<1>2. CASE WriteFile
  BY <1>1, <1>2, StartStores DEF WriteFile
<1>3. CASE Mkdir
  BY <1>1, <1>3, StartStores DEF Mkdir
<1>4. CASE AllocateInode
  BY <1>1, <1>4, AllocateInodeStores
<1>5. CASE AllocateDots \/ Grow \/ AllocateData
  BY <1>1, <1>5, AllocateBlockStores
<1>6. CASE WriteDots \/ WriteEntry \/ WriteData
  BY <1>1, <1>6, WriteHeldStores
<1>7. CASE WriteNewFile
  BY <1>1, <1>7, WriteNewFileStores
<1>8. CASE WriteNewDir
  BY <1>1, <1>8, WriteNewDirStores
<1>9. CASE SizeNewDir \/ SizeParent \/ CountLink
  BY <1>1, <1>9, SizeDirStores
<1>10. CASE AddInPlace
  BY <1>1, <1>10, AddInPlaceStores
<1>11. CASE AppendEntry
  BY <1>1, <1>11, AppendEntryStores
<1>12. CASE AppendData
  BY <1>1, <1>12, AppendDataStores
<1>13. CASE SizeFile
  BY <1>1, <1>13, SizeFileStores
<1>14. CASE Return \/ Abort
  BY <1>1, <1>14, FailStores DEF Abort
<1>15. QED
  BY <1>2, <1>3, <1>4, <1>5, <1>6, <1>7, <1>8, <1>9, <1>10, <1>11, <1>12, <1>13, <1>14
     DEF Next, Step

LEMMA NamedInit == Init => Named
<1>1. SUFFICES ASSUME Init PROVE Named
  OBVIOUS
<1>2. PICK image \in Images : inodes = image.inodes /\ content = image.content
  BY <1>1 DEF Init
<1>3. \A d \in Inodes : inodes[d].type = "dir" =>
            /\ d \in LinkedIn(EntriesOf(inodes, content))
            /\ LookupInDir(BlocksOf(inodes, content, d), DotDot) \in LinkedIn(EntriesOf(inodes, content))
  BY <1>2, TreesAssumption, Zenon
<1>4. \A d \in Inodes : IsDir(d) => d \in Linked /\ Lookup(d, DotDot) \in Linked
  BY <1>3 DEF IsDir, Linked, Entries, Lookup, DirBlocks
<1>5. \A e \in Entries : e.dir \in Inodes /\ IsDir(e.dir)
  <2>1. SUFFICES ASSUME NEW e \in Entries PROVE e.dir \in Inodes /\ IsDir(e.dir)
    OBVIOUS
  <2>2. PICK d \in Inodes : /\ inodes[d].type = "dir"
                            /\ \E m \in DOMAIN inodes[d].extents :
                                  e \in Listed(d, content[inodes[d].extents[m]].entries)
    BY EntriesOfAre DEF Entries
  <2>3. e.dir = d
    BY <2>2, ListedIs
  <2>4. QED
    BY <2>2, <2>3 DEF IsDir
<1>6. \A d \in Linked : IsDir(d) => d \in Inodes
  <2>1. \A d \in Linked : d = Root \/ \E e \in Entries : d = e.node
    BY DEF Linked, LinkedIn
  <2>2. Exclusive /\ Linking
    BY <1>1, ExclusiveInit, LinkingInit
  <2>3. QED
    BY <2>1, <2>2, EntryIs, InodesAssumption
<1>7. Tree
  BY <1>4, <1>5, <1>6 DEF Tree
<1>8. torn = {} /\ CallNames
  BY <1>1, StoppedNames DEF Init
<1>9. QED
  BY <1>7, <1>8 DEF Named

\* To those who look up names and read files, write_file and mkdir are steps of
\* FileStore, or none: at every point of every call, and after any failure, the
\* tree has gained one name of a complete node, or one file was replaced or torn.
THEOREM StoreRefined == Spec => StoreSpec
<1>1. Sound /\ Named /\ [Next]_vars => Named' /\ StoreStep
  <2> SUFFICES ASSUME Sound, Named, [Next]_vars
               PROVE  Named' /\ StoreStep
    OBVIOUS
  <2>1. CASE Next
    BY <2>1, NamedNext
  <2>2. CASE UNCHANGED vars
    <3>1. UNCHANGED <<inodes, content, call, torn>>
      BY <2>2 DEF vars
    <3>2. Entries' = Entries /\ Linked' = Linked
      BY <3>1, EntriesFrame
    <3>3. \A i : Contents(i)' = Contents(i) /\ IsFile(i)' = IsFile(i) /\ IsDir(i)' = IsDir(i)
                 /\ Lookup(i, DotDot)' = Lookup(i, DotDot)
      BY <3>1 DEF Contents, ReadFile, IsFile, IsDir, Lookup, DirBlocks, BlocksOf
    <3>4. Tree' /\ \A i \in torn' : i \in Inodes /\ IsFile(i)'
      BY <3>1, <3>2, <3>3 DEF Named, Tree
    <3>5. CallNames'
      BY <3>1, <3>2 DEF Named, CallNames, Lookup, DirBlocks, BlocksOf
    <3>6. StoreDirs' = StoreDirs /\ StoreFiles' = StoreFiles
      BY <3>2, <3>3 DEF StoreDirs, StoreFiles
    <3>7. QED
      BY <3>2, <3>4, <3>5, <3>6 DEF Named, StoreStep
  <2>3. QED
    BY <2>1, <2>2
<1>2. StoreStep => [Store!Next]_(Store!vars)
  BY DEF StoreStep, Store!vars, StoreDirs, StoreFiles
<1>3. Init => Store!Init
  <2>1. SUFFICES ASSUME Init PROVE Store!Init
    OBVIOUS
  <2>2. Exclusive /\ Linking /\ Counted /\ Tree
    BY <2>1, ExclusiveInit, LinkingInit, CountedInit, NamedInit DEF Named
  <2>3. \A i \in Linked : i \in Inodes /\ (IsDir(i) \/ IsFile(i))
    BY <2>2, LinkedIs DEF IsDir, IsFile
  <2>4. StoreDirs \cup DOMAIN StoreFiles = Linked
    BY <2>3 DEF StoreDirs, StoreFiles
  <2>5. StoreDirs \cap DOMAIN StoreFiles = {}
    BY DEF StoreDirs, StoreFiles, IsDir, IsFile
  <2>6. ASSUME NEW e \in Entries
        PROVE  e \in [dir : StoreDirs, name : Names, node : StoreDirs \cup DOMAIN StoreFiles]
    <3>1. /\ e.dir \in StoreDirs /\ e.name \in Names /\ e.node \in Linked
      BY <2>2, EntryIs DEF Tree, StoreDirs, Linked, LinkedIn
    <3>2. PICK d, m : e \in Listed(d, content[inodes[d].extents[m]].entries)
      BY EntriesOfAre DEF Entries
    <3>3. e = [dir |-> e.dir, name |-> e.name, node |-> e.node]
      BY <3>2, ListedIs
    <3>4. QED
      BY <2>4, <3>1, <3>3
  <2>7. QED
    BY <2>3, <2>4, <2>5, <2>6 DEF Store!Init, StoreDirs, StoreFiles
<1>4. Init => Named
  BY NamedInit
<1>5. Spec => []Sound
  <2>1. Sound <=> Exclusive /\ CallIsRecord /\ Control /\ Reading /\ Linking /\ Counted
    BY DEF Sound
  <2>2. QED
    BY <2>1, CountedAlways, PTL
<1>6. QED
  BY <1>1, <1>2, <1>3, <1>4, <1>5, PTL DEF Spec, StoreSpec, Store!Spec

-----------------------------------------------------------------------------
(* CachedDevice: the cache.                                                *)

\* A write_file that is done has its file, whole.
CallDone ==
    call # Idle /\ call.pc = "flush" /\ call.op # "mkdir" =>
        call.ino \in Inodes /\ IsFile(call.ino) /\ call.ino \notin torn

\* A call that fails is done with nothing, and one that goes on is not done.
LEMMA AllocateBlockDone ==
    ASSUME CallIsRecord, call # Idle, NEW pc, pc # "flush", AllocateBlockThen(pc)
    PROVE  CallDone'
<1>1. CASE Fail
  BY <1>1 DEF Fail, CallDone
<1>2. CASE \E b \in Candidates(Blocks \ taken.block) : call' = [call EXCEPT !.pc = pc, !.block = b]
  BY <1>2, GoesOnWith DEF CallDone
<1>3. QED
  BY <1>1, <1>2 DEF AllocateBlockThen

LEMMA AppendExtentDone ==
    ASSUME CallIsRecord, call # Idle, NEW i, NEW inode, NEW pc, pc # "flush",
           AppendExtentThen(i, inode, pc)
    PROVE  CallDone'
<1>1. CASE Fail
  BY <1>1 DEF Fail, CallDone
<1>2. CASE Goto(pc)
  BY <1>2, GoesOn DEF CallDone
<1>3. QED
  BY <1>1, <1>2 DEF AppendExtentThen

\* write_file comes to its flush by SizeFile only, after which the file is whole.
LEMMA CallDoneNext ==
    ASSUME Exclusive, CallIsRecord, Control, Linking, Next
    PROVE  CallDone'
<1>1. ASSUME NEW op, NEW path, NEW name, NEW data, Start(op, path, name, data)
      PROVE  CallDone'
  <2> DEFINE new == [pc |-> "allocate_inode", op |-> op, parent |-> Resolve(path), name |-> name,
                     data |-> data, ino |-> Root, block |-> CHOOSE b \in Blocks : TRUE,
                     done |-> 0]
  <2>1. call' = new \/ \E f : call' = [new EXCEPT !.pc = "data", !.ino = f]
    BY <1>1 DEF Start
  <2>2. /\ new.pc = "allocate_inode"
        /\ \A f : [new EXCEPT !.pc = "data", !.ino = f].pc = "data"
    OBVIOUS
  <2> HIDE DEF new
  <2>3. call'.pc # "flush"
    BY <2>1, <2>2
  <2>4. QED
    BY <2>3 DEF CallDone
<1>2. CASE WriteFile
  BY <1>1, <1>2 DEF WriteFile
<1>3. CASE Mkdir
  BY <1>1, <1>3 DEF Mkdir
<1>4. CASE AllocateInode
  <2>1. CASE Fail
    BY <2>1 DEF Fail, CallDone
  <2>2. ASSUME NEW i, call' = [call EXCEPT !.ino = i, !.pc = IF call.op = "mkdir" THEN "allocate_dots" ELSE "new_file"]
        PROVE  CallDone'
    BY <1>4, <2>2, GoesOnFor DEF CallDone, AllocateInode, At, Idle
  <2>3. QED
    BY <1>4, <2>1, <2>2 DEF AllocateInode
<1>5. CASE AllocateDots \/ Grow \/ AllocateData
  BY <1>5, AllocateBlockDone DEF AllocateDots, Grow, AllocateData, At, Idle
<1>6. CASE WriteNewFile \/ WriteDots \/ SizeNewDir \/ AddInPlace \/ WriteEntry \/ SizeParent \/ WriteData
  <2>1. call # Idle
    BY <1>6 DEF WriteNewFile, WriteDots, SizeNewDir, AddInPlace, WriteEntry, SizeParent, WriteData, At, Idle
  <2>2. PICK pc : Goto(pc) /\ pc # "flush"
    BY <1>6 DEF WriteNewFile, WriteDots, SizeNewDir, AddInPlace, WriteEntry, SizeParent, WriteData, AfterAdd
  <2>3. QED
    BY <2>1, <2>2, GoesOn DEF CallDone
<1>7. CASE WriteNewDir \/ AppendEntry
  BY <1>7, AppendExtentDone DEF WriteNewDir, AppendEntry, At, Idle
<1>8. CASE CountLink
  <2>1. call # Idle /\ call.op = "mkdir"
    BY <1>8 DEF CountLink, At, Idle, Linking, CallLinks
  <2>2. QED
    BY <1>8, <2>1, GoesOn DEF CountLink, CallDone
<1>9. CASE AppendData
  <2>1. CASE Fail
    BY <2>1 DEF Fail, CallDone
  <2>2. CASE call' = [call EXCEPT !.pc = "data", !.done = @ + 1]
    BY <1>9, <2>2, GoesOnPast DEF AppendData, At, Idle, CallDone
  <2>3. QED
    BY <1>9, <2>1, <2>2 DEF AppendData
<1>10. CASE SizeFile
  <2>1. call # Idle /\ IsFile(call.ino) /\ call.ino \in Inodes
    BY <1>10 DEF SizeFile, At, Idle, Linking, CallLinks, DataPcs, Control
  <2>2. call'.ino = call.ino
    BY <1>10, <2>1, GoesOn DEF SizeFile
  <2>3. torn' = torn \ {call.ino}
    BY <1>10 DEF SizeFile
  <2>4. inodes'[call.ino].type = inodes[call.ino].type
    <3>1. inodes[call.ino] \in InodeRecords /\ inodes \in [Inodes -> InodeRecords]
      BY <2>1 DEF Exclusive
    <3>2. QED
      BY <1>10, <2>1, <3>1 DEF SizeFile, PutInode, InodeRecords
  <2>5. QED
    BY <2>1, <2>2, <2>3, <2>4 DEF CallDone, IsFile
<1>11. CASE Return \/ Abort
  BY <1>11 DEF Return, Abort, Fail, CallDone
<1>12. QED
  BY <1>2, <1>3, <1>4, <1>5, <1>6, <1>7, <1>8, <1>9, <1>10, <1>11 DEF Next, Step

\* A survivor has, of each place, one of the values held.
LEMMA SurvivingIs ==
    ASSUME NEW held, NEW picked \in Surviving(held), \A p \in DOMAIN held : held[p] # {}
    PROVE  DOMAIN picked = DOMAIN held /\ \A p \in DOMAIN held : picked[p] \in held[p]
<1> DEFINE unsure == {p \in DOMAIN held : \E v, w \in held[p] : v # w}
<1>1. PICK pick : /\ \A p \in unsure : pick[p] \in held[p]
                  /\ picked = [p \in DOMAIN held |->
                        IF p \in unsure THEN pick[p] ELSE CHOOSE v \in held[p] : TRUE]
  BY DEF Surviving
<1>2. \A p \in DOMAIN held : (CHOOSE v \in held[p] : TRUE) \in held[p]
  OBVIOUS
<1> HIDE DEF unsure
<1>3. QED
  BY <1>1, <1>2

-----------------------------------------------------------------------------
(* What a step leaves of the disk.                                         *)

\* Inodes keep their types, bitmaps their set bits, and blocks of files what
\* they hold.
TypesKept == \A i \in Inodes : inodes[i].type # "unwritten" => inodes'[i].type = inodes[i].type
MarksKept == taken.block \subseteq taken'.block /\ taken.inode \subseteq taken'.inode
ContentKept(i) ==
    IsFile(i) => \A b \in ToSet(inodes[i].extents) : content'[b] = content[b]

\* The write of an inode that was written changes fields, not the type.
LEMMA PutTypes ==
    ASSUME Exclusive, NEW k \in Inodes, NEW inode, PutInode(k, inode),
           inodes[k].type # "unwritten" => inode.type = inodes[k].type
    PROVE  TypesKept
BY DEF Exclusive, PutInode, TypesKept

LEMMA ChangedTypes ==
    ASSUME NEW inode \in InodeRecords, NEW x, NEW n, NEW m
    PROVE  /\ [inode EXCEPT !.extents = x].type = inode.type
           /\ [[inode EXCEPT !.extents = <<>>] EXCEPT !.extents = x].type = inode.type
           /\ [inode EXCEPT !.size = n].type = inode.type
           /\ [inode EXCEPT !.links = n].type = inode.type
           /\ [inode EXCEPT !.size = n, !.blocks = m].type = inode.type
           /\ [inode EXCEPT !.extents = x, !.size = n, !.blocks = m].type = inode.type
BY DEF InodeRecords

\* No step of a call changes the type of an inode that was written.
LEMMA TypesNext ==
    ASSUME Exclusive, Control, Linking, Next
    PROVE  TypesKept
<1>1. inodes \in [Inodes -> InodeRecords]
  BY DEF Exclusive
<1>2. CASE UNCHANGED inodes
  BY <1>2 DEF TypesKept
<1>3. CASE WriteNewFile
  <2>1. call # Idle /\ call.pc = "new_file"
    BY <1>3 DEF WriteNewFile, At, Idle
  <2>2. call.ino \in Inodes /\ inodes[call.ino].type = "unwritten"
    BY <2>1 DEF Control, Linking, CallLinks, NewPcs
  <2>3. QED
    BY <1>3, <2>2, PutTypes DEF WriteNewFile
<1>4. CASE WriteNewDir
  <2>1. call # Idle /\ call.pc = "new_dir"
    BY <1>4 DEF WriteNewDir, At, Idle
  <2>2. call.ino \in Inodes /\ inodes[call.ino].type = "unwritten"
    BY <2>1 DEF Control, Linking, CallLinks, NewPcs
  <2>3. \/ UNCHANGED inodes
        \/ \E inode : PutInode(call.ino, inode)
    BY <1>4 DEF WriteNewDir, AppendExtentThen, Fail, disk
  <2>4. QED
    BY <1>2, <2>2, <2>3, PutTypes
<1>5. CASE SizeNewDir \/ SizeFile \/ AppendData
  <2>1. call # Idle /\ call.ino \in Inodes
    BY <1>5 DEF SizeNewDir, SizeFile, AppendData, At, Idle, Control
  <2>2. CASE SizeNewDir
    <3>1. PutInode(call.ino, [inodes[call.ino] EXCEPT !.size = 1, !.blocks = 1])
      BY <2>2 DEF SizeNewDir
    <3>2. [inodes[call.ino] EXCEPT !.size = 1, !.blocks = 1].type = inodes[call.ino].type
      BY <1>1, <2>1, ChangedTypes
    <3>3. QED
      BY <2>1, <3>1, <3>2, PutTypes
  <2>3. CASE SizeFile
    <3>1. inodes'[call.ino].type = inodes[call.ino].type
      BY <1>1, <2>1, <2>3 DEF SizeFile, PutInode, InodeRecords
    <3>2. \A i \in Inodes : i # call.ino => inodes'[i] = inodes[i]
      BY <1>1, <2>3 DEF SizeFile, PutInode
    <3>3. QED
      BY <3>1, <3>2 DEF TypesKept
  <2>4. CASE AppendData
    <3>1. CASE Fail
      BY <1>2, <3>1 DEF Fail, disk
    <3>2. CASE ~ Fail
      <4> DEFINE inode == IF call.done = 0 THEN [inodes[call.ino] EXCEPT !.extents = <<>>]
                          ELSE inodes[call.ino]
                 new == [inode EXCEPT !.extents = Append(@, call.block)]
      <4>1. PutInode(call.ino, new)
        BY <2>4, <3>2 DEF AppendData
      <4>2. inode \in InodeRecords /\ inode.type = inodes[call.ino].type
        <5>1. inodes[call.ino] \in InodeRecords /\ <<>> \in Seq(Blocks)
          BY <1>1, <2>1
        <5>2. QED
          BY <5>1 DEF InodeRecords
      <4>3. new.type = inodes[call.ino].type
        <5> HIDE DEF inode
        <5>1. QED
          BY <4>2 DEF InodeRecords
      <4> HIDE DEF new
      <4>4. QED
        BY <2>1, <4>1, <4>3, PutTypes
    <3>3. QED
      BY <3>1, <3>2
  <2>5. QED
    BY <1>5, <2>2, <2>3, <2>4
<1>6. CASE SizeParent \/ CountLink \/ AppendEntry
  <2>1. call # Idle /\ call.parent \in Inodes
    BY <1>6 DEF SizeParent, CountLink, AppendEntry, At, Idle, Control, ParentPcs
  <2>2. \/ UNCHANGED inodes
        \/ \E n : PutInode(call.parent, [inodes[call.parent] EXCEPT !.size = n])
        \/ \E n : PutInode(call.parent, [inodes[call.parent] EXCEPT !.links = n])
        \/ \E x : PutInode(call.parent, [inodes[call.parent] EXCEPT !.extents = x])
    BY <1>6 DEF SizeParent, CountLink, AppendEntry, AppendExtentThen, Fail, disk
  <2>3. QED
    BY <1>1, <1>2, <2>1, <2>2, ChangedTypes, PutTypes
<1>7. QED
  BY <1>2, <1>3, <1>4, <1>5, <1>6
  DEF Next, Step, WriteFile, Mkdir, Start, AllocateInode, AllocateDots, Grow, AllocateData,
      AllocateBlockThen, WriteDots, WriteEntry, WriteData, AddInPlace, Return, Abort, Fail, disk

\* No step of a call clears a bit.
LEMMA MarksNext ==
    ASSUME Exclusive, Next
    PROVE  MarksKept
<1>1. CASE UNCHANGED taken
  BY <1>1 DEF MarksKept
<1>2. ASSUME NEW n, Take("block", n) \/ Take("inode", n)
      PROVE  MarksKept
  BY <1>2 DEF Exclusive, Bitmaps, Take, MarksKept
<1>3. QED
  BY <1>1, <1>2
  DEF Next, Step, WriteFile, Mkdir, Start, AllocateInode, AllocateDots, Grow, AllocateData,
      AllocateBlockThen, WriteDots, WriteEntry, WriteData, AddInPlace, Return, Abort, Fail, disk,
      WriteNewFile, WriteNewDir, SizeNewDir, SizeParent, CountLink, AppendEntry, AppendExtentThen,
      AppendData, SizeFile

\* An insertion writes a block of a directory.
LEMMA AddInPlaceKeeps ==
    ASSUME Exclusive, CallIsRecord, Control, Reading, Linking, AddInPlace, NEW i \in Inodes
    PROVE  ContentKept(i)
<1> DEFINE dir == inodes[call.parent]
           j == Min(Roomy)
           b == dir.extents[j]
<1>1. call # Idle /\ call.pc = "add"
  BY DEF AddInPlace, At, Idle
<1> PICK d \in Inodes : d = call.parent /\ IsDir(d)
  BY <1>1, ControlSplit DEF ParentPcs
<1>2. DOMAIN dir.extents = 1..Len(dir.extents) /\ Len(dir.extents) \in Nat
      /\ dir.extents \in Seq(Blocks)
  BY ExtentsAreBlocks
<1>3. j \in DOMAIN dir.extents
  <2>1. Roomy \subseteq DOMAIN dir.extents
    BY DEF Roomy, DirBlocks, BlocksOf
  <2>2. Roomy \subseteq Nat /\ Roomy # {}
    BY <1>2, <2>1 DEF AddInPlace
  <2>3. Min(Roomy) \in Roomy
    BY <2>2, MinExists
  <2>4. QED
    BY <2>1, <2>3
<1>4. b \in Blocks
  BY <1>2, <1>3
<1>5. b \in ToSet(inodes[i].extents) => IsDir(i)
  <2>1. \A m \in DOMAIN inodes[i].extents : inodes[i].extents[m] = b => i = d
    BY <1>3 DEF Exclusive, NoSharedBlock, Unshared
  <2>2. QED
    BY <2>1 DEF ToSet
<1>6. \E what : PutBlock(b, what)
  BY DEF AddInPlace
<1> HIDE DEF b, j
<1>7. \A c \in Blocks : c # b => content'[c] = content[c]
  BY <1>4, <1>6 DEF PutBlock, Reading
<1>8. ToSet(inodes[i].extents) \subseteq Blocks
  BY ExtentsAreBlocks DEF ToSet
<1>9. QED
  BY <1>5, <1>7, <1>8 DEF ContentKept, IsDir, IsFile

\* A step writes a block that nobody maps, or one of a directory.
LEMMA ContentNext ==
    ASSUME Exclusive, CallIsRecord, Control, Reading, Linking, Next, NEW i \in Inodes
    PROVE  ContentKept(i)
<1>1. CASE UNCHANGED content
  BY <1>1 DEF ContentKept
<1>2. CASE AddInPlace
  BY <1>2, AddInPlaceKeeps
<1>3. CASE WriteDots \/ WriteEntry \/ WriteData
  <2>1. HeldBlock # {} /\ \E what : PutBlock(call.block, what)
    BY <1>3 DEF WriteDots, WriteEntry, WriteData, HeldBlock, At
  <2>2. /\ call.block \in Blocks
        /\ \A m \in DOMAIN inodes[i].extents : inodes[i].extents[m] # call.block
    BY <2>1 DEF Exclusive, HeldIsUnmapped
  <2>3. \A c \in Blocks : c # call.block => content'[c] = content[c]
    BY <2>1 DEF PutBlock, Reading
  <2>4. ToSet(inodes[i].extents) \subseteq Blocks \ {call.block}
    BY <2>2, ExtentsAreBlocks DEF ToSet
  <2>5. QED
    BY <2>3, <2>4 DEF ContentKept
<1>4. QED
  BY <1>1, <1>2, <1>3
  DEF Next, Step, WriteFile, Mkdir, Start, AllocateInode, AllocateDots, Grow, AllocateData,
      AllocateBlockThen, Return, Abort, Fail, disk, WriteNewFile, WriteNewDir, SizeNewDir,
      SizeParent, CountLink, AppendEntry, AppendExtentThen, AppendData, SizeFile

-----------------------------------------------------------------------------
(* What the medium may hold of what was promised.                          *)

MediumHolds ==
    /\ DOMAIN medium.inodes = Inodes
    /\ DOMAIN medium.content = Blocks
    /\ DOMAIN medium.taken = {"block", "inode"}
    /\ \A i \in Inodes : inodes[i] \in medium.inodes[i]
    /\ \A b \in Blocks : content[b] \in medium.content[b]
    /\ \A k \in {"block", "inode"} : taken[k] \in medium.taken[k]
    /\ \A i \in Inodes : medium.inodes[i] \subseteq InodeRecords

\* Whatever the medium has of an inode, it is of the same type and begins with
\* the same n extents.
Agree(med, i, n) ==
    \A v \in med.inodes[i] :
        /\ v.type = inodes[i].type
        /\ \A k \in 1..n : k \in DOMAIN v.extents /\ v.extents[k] = inodes[i].extents[k]

\* An entry that is listed, and a directory whose first block lists itself, in a
\* block that every inode maps that the medium may hold.
EntryKept(med, e) ==
    \E m \in DOMAIN inodes[e.dir].extents :
        /\ Agree(med, e.dir, m)
        /\ \A c \in med.content[inodes[e.dir].extents[m]] : e \in Listed(e.dir, c.entries)
SelfKept(med, i) ==
    /\ Agree(med, i, 1)
    /\ \A c \in med.content[inodes[i].extents[1]] : LookupInBlock(c.entries, Dot) = i

PromiseKept(med, e) ==
    /\ e.dir \in Inodes /\ IsDir(e.dir)
    /\ e.node \in Inodes /\ inodes[e.node].type # "unwritten"
    /\ \A t \in med.taken.inode : e.node \in t
    /\ EntryKept(med, e)
    /\ Agree(med, e.node, 0)
    /\ IsDir(e.node) => SelfKept(med, e.node)

\* A file, of which the medium holds all there is to read, in blocks that are
\* marked and nobody else's.
BlockKept(med, b) ==
    /\ \A c \in med.content[b] : c = content[b]
    /\ \A t \in med.taken.block : b \in t
FileKept(med, i) ==
    /\ i \in Inodes /\ IsFile(i) /\ i \notin torn
    /\ \A v \in med.inodes[i] : v = inodes[i]
    /\ \A b \in ToSet(inodes[i].extents) : BlockKept(med, b)
    /\ \A j \in Inodes \ {i} : \A v \in med.inodes[j] :
            ToSet(inodes[i].extents) \cap ToSet(v.extents) = {}

\* The medium may hold what the step has written, too.
MediumGains ==
    /\ \A i \in Inodes : medium'.inodes[i] \subseteq medium.inodes[i] \cup {inodes'[i]}
    /\ \A b \in Blocks : medium'.content[b] \subseteq medium.content[b] \cup {content'[b]}
    /\ \A k \in {"block", "inode"} : medium'.taken[k] \subseteq medium.taken[k] \cup {taken'[k]}

\* Steps of calls keep the disk sound.
LEMMA SoundNext == ASSUME Sound, Next PROVE Sound'
BY ExclusiveNext, CallNext, ControlNext, ReadingNext, LinkingNext, CountedNext DEF Sound

\* A rewrite tears a file only as it changes its extents.
LEMMA TornStays ==
    ASSUME Sound, Next, NEW i \in Inodes, i \notin torn, inodes'[i] = inodes[i]
    PROVE  i \notin torn'
<1>1. CASE AppendData
  <2>1. call # Idle /\ HeldBlock = {call.block} /\ call.ino \in Inodes
    BY <1>1 DEF AppendData, HeldBlock, At, Idle, Sound, Control
  <2>2. \A m \in DOMAIN inodes[call.ino].extents : inodes[call.ino].extents[m] # call.block
    BY <2>1 DEF Sound, Exclusive, HeldIsUnmapped
  <2>3. CASE Fail
    BY <2>3 DEF Fail
  <2>4. CASE ~ Fail
    <3> DEFINE old == inodes[call.ino]
               inode == IF call.done = 0 THEN [old EXCEPT !.extents = <<>>] ELSE old
               new == [inode EXCEPT !.extents = Append(@, call.block)]
    <3>1. PutInode(call.ino, new) /\ torn' \subseteq torn \cup {call.ino}
      BY <1>1, <2>4 DEF AppendData
    <3>2. inode.extents \in Seq(Blocks) /\ new.extents = Append(inode.extents, call.block)
      <4>1. old \in InodeRecords
        BY <2>1 DEF Sound, Exclusive
      <4>2. QED
        BY <4>1 DEF InodeRecords
    <3> HIDE DEF inode
    <3>3. \E m \in DOMAIN new.extents : new.extents[m] = call.block
      <4>1. Len(inode.extents) + 1 \in DOMAIN Append(inode.extents, call.block)
        BY <3>2
      <4>2. Append(inode.extents, call.block)[Len(inode.extents) + 1] = call.block
        BY <3>2
      <4>3. QED
        BY <3>2, <4>1, <4>2
    <3> HIDE DEF new
    <3>4. inodes'[call.ino] = new
      BY <2>1, <3>1 DEF PutInode, Sound, Exclusive
    <3>5. i # call.ino
      BY <2>2, <3>3, <3>4
    <3>6. QED
      BY <3>1, <3>5
  <2>5. QED
    BY <2>3, <2>4
<1>2. CASE SizeFile
  BY <1>2 DEF SizeFile
<1>3. QED
  BY <1>1, <1>2
  DEF Next, Step, WriteFile, Mkdir, Start, AllocateInode, AllocateDots, Grow, AllocateData,
      AllocateBlockThen, WriteDots, WriteEntry, WriteData, AddInPlace, Return, Abort, Fail, disk,
      WriteNewFile, WriteNewDir, SizeNewDir, SizeParent, CountLink, AppendEntry, AppendExtentThen,
      history

-----------------------------------------------------------------------------
(* Steps of calls keep what was promised.                                  *)

\* A step that keeps the type and the first extents of an inode, which the
\* medium then may hold or not.
LEMMA AgreeStays ==
    ASSUME NEW i \in Inodes, NEW n \in Nat, MediumGains, Agree(medium, i, n),
           inodes'[i].type = inodes[i].type,
           \A k \in 1..n : /\ k \in DOMAIN inodes'[i].extents
                           /\ inodes'[i].extents[k] = inodes[i].extents[k]
    PROVE  Agree(medium, i, n)'
<1>1. \A v \in medium'.inodes[i] : v \in medium.inodes[i] \/ v = inodes'[i]
  BY DEF MediumGains
<1>2. QED
  BY <1>1 DEF Agree

\* The first extents of a directory stay, and what its blocks list.
LEMMA DirStays ==
    ASSUME Sound, Sound', NEW d \in Inodes, IsDir(d), DirKept(d)
    PROVE  /\ IsDir(d)'
           /\ \A k \in DOMAIN inodes[d].extents :
                /\ k \in DOMAIN inodes'[d].extents
                /\ inodes'[d].extents[k] = inodes[d].extents[k]
           /\ \A b \in ToSet(inodes[d].extents) : \A e \in Listed(d, content[b].entries) :
                e \in Listed(d, content'[b].entries)
<1>1. IsDir(d)' /\ IsPrefix(inodes[d].extents, inodes'[d].extents)
  BY DEF DirKept, ParentKept, EntriesKeptIn
<1>2. inodes[d].extents \in Seq(Blocks)
  BY ExtentsAreBlocks DEF Sound
<1>3. inodes'[d].extents \in Seq(Blocks)
  BY DEF Sound, Exclusive, InodeRecords
<1>4. ASSUME NEW s \in Seq(Blocks), NEW t \in Seq(Blocks), IsPrefix(s, t)
      PROVE  \A k \in DOMAIN s : k \in DOMAIN t /\ t[k] = s[k]
  <2>1. Len(s) <= Len(t) /\ SubSeq(s, 1, Len(s)) = SubSeq(t, 1, Len(s))
    BY <1>4 DEF IsPrefix
  <2>2. TAKE k \in DOMAIN s
  <2>3. k \in 1..Len(s)
    OBVIOUS
  <2>4. k \in DOMAIN t
    BY <2>1, <2>3
  <2>5. SubSeq(s, 1, Len(s))[k] = s[k] /\ SubSeq(t, 1, Len(s))[k] = t[k]
    BY <2>1, <2>3
  <2>6. QED
    BY <2>1, <2>4, <2>5
<1>5. \A k \in DOMAIN inodes[d].extents :
                /\ k \in DOMAIN inodes'[d].extents
                /\ inodes'[d].extents[k] = inodes[d].extents[k]
  BY <1>1, <1>2, <1>3, <1>4
<1>6. ASSUME NEW b \in ToSet(inodes[d].extents), NEW e \in Listed(d, content[b].entries)
      PROVE  e \in Listed(d, content'[b].entries)
  <2>1. PICK o \in Live(content[b].entries) :
            /\ content[b].entries[o].name \notin {Dot, DotDot}
            /\ e = [dir |-> d, name |-> content[b].entries[o].name,
                    node |-> content[b].entries[o].ino]
    BY <1>6, ListedIs
  <2>2. CASE content'[b] = content[b]
    BY <1>6, <2>2
  <2>3. CASE content'[b] # content[b]
    <3>1. o \in Live(content'[b].entries) /\ content'[b].entries[o] = content[b].entries[o]
      BY <2>3 DEF DirKept, EntriesKeptIn
    <3>2. QED
      BY <2>1, <3>1, ListedIs
  <2>4. QED
    BY <2>2, <2>3
<1>7. QED
  BY <1>1, <1>5, <1>6

\* An entry stays where it is, in whatever the medium may hold of its block.
LEMMA EntryStays ==
    ASSUME Sound, Sound', MediumHolds, MediumGains, NEW e, e.dir \in Inodes, IsDir(e.dir),
           DirKept(e.dir), EntryKept(medium, e)
    PROVE  IsDir(e.dir)' /\ EntryKept(medium, e)'
<1> PICK d \in Inodes : d = e.dir
  OBVIOUS
<1>1. PICK m \in DOMAIN inodes[d].extents :
        /\ Agree(medium, d, m)
        /\ \A c \in medium.content[inodes[d].extents[m]] : e \in Listed(d, c.entries)
  BY DEF EntryKept
<1>2. /\ IsDir(d)'
      /\ \A k \in DOMAIN inodes[d].extents :
            /\ k \in DOMAIN inodes'[d].extents
            /\ inodes'[d].extents[k] = inodes[d].extents[k]
      /\ \A b \in ToSet(inodes[d].extents) : \A f \in Listed(d, content[b].entries) :
            f \in Listed(d, content'[b].entries)
  BY DirStays
<1>3. m \in Nat /\ 1..m \subseteq DOMAIN inodes[d].extents
      /\ inodes[d].extents[m] \in Blocks /\ inodes[d].extents[m] \in ToSet(inodes[d].extents)
  BY ExtentsAreBlocks DEF Sound, ToSet
<1>4. Agree(medium, d, m)'
  <2>1. inodes'[d].type = inodes[d].type
    BY <1>2 DEF IsDir
  <2>2. QED
    BY <1>1, <1>2, <1>3, <2>1, AgreeStays
<1> DEFINE b == inodes[d].extents[m]
<1>5. e \in Listed(d, content'[b].entries)
  BY <1>1, <1>2, <1>3 DEF MediumHolds
<1>6. \A c \in medium'.content[b] : e \in Listed(d, c.entries)
  BY <1>1, <1>3, <1>5 DEF MediumGains
<1>7. QED
  BY <1>2, <1>4, <1>6 DEF EntryKept

\* The first block of a directory lists it.
LEMMA SelfListed ==
    ASSUME Linking, Exclusive, NEW i \in Inodes, IsDir(i)
    PROVE  /\ 1 \in DOMAIN inodes[i].extents /\ inodes[i].extents[1] \in Blocks
           /\ LookupInBlock(content[inodes[i].extents[1]].entries, Dot) = i
           /\ Lookup(i, Dot) = i
<1>1. ListingOf(i, DirBlocks(i), inodes)
  BY DEF Linking, SoundInode
<1>2. 1 \in DOMAIN DirBlocks(i)
  BY <1>1 DEF ListingOf, BeginsWithDots
<1>3. 1 \in DOMAIN inodes[i].extents
      /\ DirBlocks(i)[1] = content[inodes[i].extents[1]].entries
  BY <1>2 DEF DirBlocks, BlocksOf
<1>4. inodes[i].extents[1] \in Blocks
  BY <1>3, ExtentsAreBlocks
<1>5. LookupInBlock(DirBlocks(i)[1], Dot) = i /\ LookupInDir(DirBlocks(i), Dot) = i
  BY <1>1, DotsListed
<1>6. QED
  BY <1>3, <1>4, <1>5 DEF Lookup

\* A directory lists itself in whatever the medium may hold of its first block.
LEMMA SelfStays ==
    ASSUME Sound, Sound', MediumHolds, MediumGains, NEW i \in Inodes, IsDir(i),
           DirKept(i), SelfKept(medium, i)
    PROVE  SelfKept(medium, i)'
<1>1. /\ Agree(medium, i, 1)
      /\ \A c \in medium.content[inodes[i].extents[1]] : LookupInBlock(c.entries, Dot) = i
  BY DEF SelfKept
<1>2. /\ IsDir(i)'
      /\ \A k \in DOMAIN inodes[i].extents :
            /\ k \in DOMAIN inodes'[i].extents
            /\ inodes'[i].extents[k] = inodes[i].extents[k]
  BY DirStays
<1>3. /\ 1 \in DOMAIN inodes[i].extents /\ inodes[i].extents[1] \in Blocks
      /\ inodes'[i].extents[1] = inodes[i].extents[1]
  BY <1>2, SelfListed DEF Sound
<1>4. Agree(medium, i, 1)'
  <2>1. inodes'[i].type = inodes[i].type
    BY <1>2 DEF IsDir
  <2>2. \A k \in 1..1 : /\ k \in DOMAIN inodes'[i].extents
                         /\ inodes'[i].extents[k] = inodes[i].extents[k]
    BY <1>2, <1>3
  <2>3. QED
    BY <1>1, <2>1, <2>2, AgreeStays
<1>5. LookupInBlock(content'[inodes'[i].extents[1]].entries, Dot) = i
  <2> PICK blocks : blocks = DirBlocks(i)'
    OBVIOUS
  <2> PICK table : table = inodes'
    OBVIOUS
  <2>1. ListingOf(i, DirBlocks(i)', inodes')
    BY <1>2 DEF Sound, Linking, SoundInode
  <2>2. ListingOf(i, blocks, table)
    BY <2>1
  <2>3. LookupInBlock(blocks[1], Dot) = i
    BY <2>2, DotsListed
  <2>4. blocks[1] = content'[inodes'[i].extents[1]].entries
    BY <1>2, <1>3 DEF DirBlocks, BlocksOf
  <2>5. QED
    BY <2>3, <2>4
<1>6. \A c \in medium'.content[inodes'[i].extents[1]] : LookupInBlock(c.entries, Dot) = i
  BY <1>1, <1>3, <1>5 DEF MediumGains
<1>7. QED
  BY <1>4, <1>6 DEF SelfKept

\* So a step that may reach the medium or not puts no promise in doubt, ...
LEMMA PromiseStays ==
    ASSUME Sound, Next, MediumHolds, MediumGains, NEW e, PromiseKept(medium, e)
    PROVE  PromiseKept(medium, e)'
<1>1. Sound' /\ TypesKept /\ MarksKept /\ \A d \in Inodes : DirKept(d) /\ ContentKept(d)
  BY SoundNext, TypesNext, MarksNext, LinkingNext, ContentNext DEF Sound
<1>2. e.dir \in Inodes /\ IsDir(e.dir) /\ e.node \in Inodes /\ inodes[e.node].type # "unwritten"
  BY DEF PromiseKept
<1>3. IsDir(e.dir)' /\ EntryKept(medium, e)'
  BY <1>1, <1>2, EntryStays DEF PromiseKept
<1>4. inodes'[e.node].type = inodes[e.node].type
  BY <1>1, <1>2 DEF TypesKept
<1>5. \A t \in medium'.taken.inode : e.node \in t
  <2>1. e.node \in taken.inode
    BY DEF PromiseKept, MediumHolds
  <2>2. QED
    BY <1>1, <2>1 DEF PromiseKept, MarksKept, MediumGains
<1>6. Agree(medium, e.node, 0)'
  BY <1>2, <1>4, AgreeStays DEF PromiseKept
<1>7. IsDir(e.node)' => SelfKept(medium, e.node)'
  BY <1>1, <1>2, <1>4, SelfStays DEF PromiseKept, IsDir
<1>8. QED
  BY <1>2, <1>3, <1>4, <1>5, <1>6, <1>7 DEF PromiseKept

\* ... and no file that was reported as written, unless it writes its inode.
LEMMA FileStays ==
    ASSUME Sound, Next, MediumHolds, MediumGains, NEW i, FileKept(medium, i), inodes'[i] = inodes[i]
    PROVE  FileKept(medium, i)'
<1>1. Sound' /\ TypesKept /\ MarksKept /\ \A d \in Inodes : ContentKept(d)
  BY SoundNext, TypesNext, MarksNext, ContentNext DEF Sound
<1>2. i \in Inodes /\ IsFile(i) /\ i \notin torn'
  BY TornStays DEF FileKept
<1>3. \A v \in medium'.inodes[i] : v = inodes[i]
  BY <1>2 DEF FileKept, MediumGains
<1>4. ASSUME NEW b \in ToSet(inodes[i].extents)
      PROVE  BlockKept(medium, b)'
  <2>1. b \in Blocks
    BY <1>2, ExtentsAreBlocks DEF Sound, ToSet
  <2>2. content'[b] = content[b]
    BY <1>1, <1>2 DEF ContentKept
  <2>3. BlockKept(medium, b)
    BY DEF FileKept
  <2>4. \A c \in medium'.content[b] : c = content[b]
    BY <2>1, <2>2, <2>3 DEF BlockKept, MediumGains
  <2>5. b \in taken.block
    BY <2>3 DEF BlockKept, MediumHolds
  <2>6. \A t \in medium'.taken.block : b \in t
    BY <1>1, <2>3, <2>5 DEF BlockKept, MediumGains, MarksKept
  <2>7. QED
    BY <2>2, <2>4, <2>6 DEF BlockKept
<1>5. ASSUME NEW j \in Inodes \ {i}, NEW v \in medium'.inodes[j]
      PROVE  ToSet(inodes[i].extents) \cap ToSet(v.extents) = {}
  <2>1. CASE v \in medium.inodes[j]
    BY <2>1 DEF FileKept
  <2>2. CASE v = inodes'[j]
    <3>1. Unshared(inodes')
      BY <1>1 DEF Sound, Exclusive, NoSharedBlock
    <3>2. \A m \in DOMAIN inodes[i].extents, n \in DOMAIN v.extents :
            inodes[i].extents[m] # v.extents[n]
      BY <1>2, <2>2, <3>1 DEF Unshared
    <3>3. QED
      BY <3>2 DEF ToSet
  <2>3. QED
    BY <2>1, <2>2 DEF MediumGains
<1>6. IsFile(i)'
  BY <1>2 DEF IsFile
<1>7. QED
  BY <1>2, <1>3, <1>4, <1>5, <1>6 DEF FileKept

-----------------------------------------------------------------------------
(* What a flush makes of what there is.                                    *)

\* One value of each place.
LEMMA FlushedIs ==
    ASSUME Sound
    PROVE  /\ \A i \in Inodes : Flushed.inodes[i] = {inodes[i]}
           /\ \A b \in Blocks : Flushed.content[b] = {content[b]}
           /\ \A k \in {"block", "inode"} : Flushed.taken[k] = {taken[k]}
           /\ DOMAIN Flushed.inodes = Inodes /\ DOMAIN Flushed.content = Blocks
           /\ DOMAIN Flushed.taken = {"block", "inode"}
<1>1. DOMAIN taken = {"block", "inode"}
  BY DEF Sound, Exclusive, Bitmaps
<1>2. QED
  BY <1>1 DEF Flushed

\* What is on disk agrees with itself.
LEMMA AgreeMade ==
    ASSUME Sound, NEW i \in Inodes, NEW n \in Nat, n <= Len(inodes[i].extents)
    PROVE  Agree(Flushed, i, n)
<1>1. 1..n \subseteq DOMAIN inodes[i].extents
  BY ExtentsAreBlocks DEF Sound
<1>2. QED
  BY <1>1, FlushedIs DEF Agree

LEMMA SelfMade ==
    ASSUME Sound, NEW i \in Inodes, IsDir(i)
    PROVE  SelfKept(Flushed, i)
<1>1. /\ 1 \in DOMAIN inodes[i].extents /\ inodes[i].extents[1] \in Blocks
      /\ LookupInBlock(content[inodes[i].extents[1]].entries, Dot) = i
  BY SelfListed DEF Sound
<1>2. 1 <= Len(inodes[i].extents)
  BY <1>1, ExtentsAreBlocks DEF Sound
<1>3. Agree(Flushed, i, 1)
  BY <1>2, AgreeMade
<1>4. \A c \in Flushed.content[inodes[i].extents[1]] : LookupInBlock(c.entries, Dot) = i
  BY <1>1, FlushedIs
<1>5. QED
  BY <1>3, <1>4 DEF SelfKept

\* A flush keeps every entry that is listed, ...
LEMMA PromiseMade ==
    ASSUME Sound, NEW e \in Entries
    PROVE  PromiseKept(Flushed, e)
<1>1. /\ e.dir \in Inodes /\ IsDir(e.dir) /\ e.node \in Inodes
      /\ inodes[e.node].type # "unwritten"
  BY EntryIs DEF Sound
<1>2. e.node \in taken.inode
  BY <1>1 DEF Sound, Control
<1>3. PICK d \in Inodes : \E m \in DOMAIN inodes[d].extents :
                                e \in Listed(d, content[inodes[d].extents[m]].entries)
  BY EntriesOfAre DEF Entries
<1>4. PICK m \in DOMAIN inodes[d].extents :
            e \in Listed(d, content[inodes[d].extents[m]].entries)
  BY <1>3
<1>5. d = e.dir
  BY <1>4, ListedIs
<1>6. m \in Nat /\ m <= Len(inodes[d].extents) /\ inodes[d].extents[m] \in Blocks
  BY ExtentsAreBlocks DEF Sound
<1>7. EntryKept(Flushed, e)
  <2>1. Agree(Flushed, d, m)
    BY <1>6, AgreeMade
  <2>2. \A c \in Flushed.content[inodes[d].extents[m]] : e \in Listed(d, c.entries)
    BY <1>4, <1>6, FlushedIs
  <2>3. QED
    BY <1>5, <2>1, <2>2 DEF EntryKept
<1>8. Agree(Flushed, e.node, 0)
  BY <1>1, ExtentsAreBlocks, AgreeMade DEF Sound
<1>9. \A t \in Flushed.taken.inode : e.node \in t
  BY <1>2, FlushedIs
<1>10. IsDir(e.node) => SelfKept(Flushed, e.node)
  BY <1>1, SelfMade
<1>11. QED
  BY <1>1, <1>7, <1>8, <1>9, <1>10 DEF PromiseKept

\* ... and every file that is not torn.
LEMMA FileMade ==
    ASSUME Sound, NEW i \in Inodes, IsFile(i), i \notin torn
    PROVE  FileKept(Flushed, i)
<1>1. ASSUME NEW b \in ToSet(inodes[i].extents)
      PROVE  BlockKept(Flushed, b)
  <2>1. b \in Blocks
    BY ExtentsAreBlocks DEF Sound, ToSet
  <2>2. b \in taken.block
    BY DEF Sound, Exclusive, Marked, ToSet
  <2>3. QED
    BY <2>1, <2>2, FlushedIs DEF BlockKept
<1>2. ASSUME NEW j \in Inodes \ {i}, NEW v \in Flushed.inodes[j]
      PROVE  ToSet(inodes[i].extents) \cap ToSet(v.extents) = {}
  <2>1. v = inodes[j]
    BY FlushedIs
  <2>2. QED
    BY <2>1 DEF Sound, Exclusive, NoSharedBlock, Unshared, ToSet
<1>3. QED
  BY <1>1, <1>2, FlushedIs DEF FileKept

\* What is promised is listed.
LEMMA PromiseListed ==
    ASSUME Sound, MediumHolds, NEW e, PromiseKept(medium, e)
    PROVE  /\ e \in Entries /\ inodes[e.node].type # "unwritten" /\ e.node \in taken.inode
           /\ IsDir(e.node) => Lookup(e.node, Dot) = e.node
<1>1. PICK m \in DOMAIN inodes[e.dir].extents :
            \A c \in medium.content[inodes[e.dir].extents[m]] : e \in Listed(e.dir, c.entries)
  BY DEF PromiseKept, EntryKept
<1>2. e.dir \in Inodes /\ IsDir(e.dir) /\ e.node \in Inodes /\ inodes[e.node].type # "unwritten"
  BY DEF PromiseKept
<1>3. inodes[e.dir].extents[m] \in Blocks
  BY <1>2, ExtentsAreBlocks DEF Sound
<1>4. e \in Entries
  BY <1>1, <1>2, <1>3, EntriesOfAre DEF MediumHolds, Entries, IsDir
<1>5. e.node \in taken.inode
  BY DEF PromiseKept, MediumHolds
<1>6. IsDir(e.node) => Lookup(e.node, Dot) = e.node
  BY <1>2, SelfListed DEF Sound
<1>7. QED
  BY <1>2, <1>4, <1>5, <1>6

-----------------------------------------------------------------------------
(* What a crash leaves.                                                    *)

\* Of each place, a crash leaves a value that the medium may hold.
LEMMA CrashIs ==
    ASSUME MediumHolds, Crash
    PROVE  /\ \A i \in Inodes : inodes'[i] \in medium.inodes[i]
           /\ \A b \in Blocks : content'[b] \in medium.content[b]
           /\ \A k \in {"block", "inode"} : taken'[k] \in medium.taken[k]
<1>1. inodes' \in Surviving(medium.inodes) /\ content' \in Surviving(medium.content)
      /\ taken' \in Surviving(medium.taken)
  BY DEF Crash
<1>2. /\ \A i \in DOMAIN medium.inodes : medium.inodes[i] # {}
      /\ \A b \in DOMAIN medium.content : medium.content[b] # {}
      /\ \A k \in DOMAIN medium.taken : medium.taken[k] # {}
  BY DEF MediumHolds
<1>3. ASSUME NEW held, NEW picked \in Surviving(held), \A p \in DOMAIN held : held[p] # {}
      PROVE  \A p \in DOMAIN held : picked[p] \in held[p]
  BY <1>3, SurvivingIs
<1>4. /\ \A i \in DOMAIN medium.inodes : inodes'[i] \in medium.inodes[i]
      /\ \A b \in DOMAIN medium.content : content'[b] \in medium.content[b]
      /\ \A k \in DOMAIN medium.taken : taken'[k] \in medium.taken[k]
  BY <1>1, <1>2, <1>3
<1>5. QED
  BY <1>4 DEF MediumHolds

\* It leaves the entries that were promised, ...
LEMMA PromiseSurvives ==
    ASSUME Sound, MediumHolds, Crash, NEW e, PromiseKept(medium, e)
    PROVE  /\ e \in Entries' /\ inodes'[e.node].type # "unwritten" /\ e.node \in taken'.inode
           /\ IsDir(e.node)' => Lookup(e.node, Dot)' = e.node
<1> PICK d \in Inodes : d = e.dir
  BY DEF PromiseKept
<1> PICK i \in Inodes : i = e.node
  BY DEF PromiseKept
<1>1. /\ inodes'[d] \in medium.inodes[d] /\ inodes'[i] \in medium.inodes[i]
      /\ \A b \in Blocks : content'[b] \in medium.content[b]
      /\ taken'.inode \in medium.taken.inode
  BY CrashIs
<1>2. i \in taken'.inode
  BY <1>1 DEF PromiseKept
<1>3. inodes'[i].type = inodes[i].type /\ inodes[i].type # "unwritten"
  BY <1>1 DEF PromiseKept, Agree
<1>4. PICK m \in DOMAIN inodes[d].extents :
        /\ Agree(medium, d, m)
        /\ \A c \in medium.content[inodes[d].extents[m]] : e \in Listed(d, c.entries)
  BY DEF PromiseKept, EntryKept
<1>5. m \in Nat /\ m \in 1..m /\ inodes[d].extents[m] \in Blocks
  BY ExtentsAreBlocks DEF Sound
<1>6. /\ inodes'[d].type = "dir" /\ m \in DOMAIN inodes'[d].extents
      /\ inodes'[d].extents[m] = inodes[d].extents[m]
  BY <1>1, <1>4, <1>5 DEF Agree, PromiseKept, IsDir
<1>7. e \in Listed(d, content'[inodes'[d].extents[m]].entries)
  BY <1>1, <1>4, <1>5, <1>6
<1>8. e \in Entries'
  <2>1. e \in EntriesOf(inodes', content')
    BY <1>6, <1>7, EntriesOfAre
  <2>2. QED
    BY <2>1 DEF Entries
<1>9. ASSUME IsDir(i)'
      PROVE  Lookup(i, Dot)' = i
  <2>1. SelfKept(medium, i)
    BY <1>3, <1>9 DEF PromiseKept, IsDir
  <2>2. Agree(medium, i, 1) /\ 1 \in 1..1
    BY <2>1 DEF SelfKept
  <2>3. 1 \in DOMAIN inodes'[i].extents /\ inodes'[i].extents[1] = inodes[i].extents[1]
    BY <1>1, <2>2 DEF Agree
  <2>4. inodes[i].extents[1] \in Blocks
    BY <1>3, <1>9, SelfListed DEF Sound, IsDir
  <2>5. LookupInBlock(content'[inodes'[i].extents[1]].entries, Dot) = i
    BY <1>1, <2>1, <2>3, <2>4 DEF SelfKept
  <2> PICK blocks : blocks = BlocksOf(inodes', content', i)
    OBVIOUS
  <2>6. DOMAIN blocks = DOMAIN inodes'[i].extents
        /\ \A k \in DOMAIN blocks : blocks[k] = content'[inodes'[i].extents[k]].entries
    BY DEF BlocksOf
  <2>7. DOMAIN blocks \in SUBSET (Nat \ {0})
    <3>1. inodes'[i].extents \in Seq(Blocks)
      BY <1>1 DEF MediumHolds, InodeRecords
    <3>2. QED
      BY <2>6, <3>1
  <2>8. /\ DOMAIN blocks \in SUBSET Nat
        /\ 1 \in DOMAIN blocks /\ LookupInBlock(blocks[1], Dot) = i
        /\ \A k \in DOMAIN blocks : ~ k < 1
    BY <2>3, <2>5, <2>6, <2>7
  <2>9. i # Deleted
    BY DotsAssumption DEF PromiseKept
  <2>10. LookupInDir(blocks, Dot) = i
    BY <2>8, <2>9, FirstBlockListing
  <2>11. QED
    BY <2>10 DEF Lookup, DirBlocks
<1>10. QED
  BY <1>2, <1>3, <1>8, <1>9

\* ... and the files that were reported as written.
LEMMA FileSurvives ==
    ASSUME Sound, MediumHolds, Crash, NEW i, FileKept(medium, i)
    PROVE  /\ IsFile(i)' /\ ReadFile(i)' = Reads(acked[i])
           /\ ToSet(inodes'[i].extents) \subseteq taken'.block
           /\ \A j \in Inodes \ {i} : ToSet(inodes'[i].extents) \cap ToSet(inodes'[j].extents) = {}
<1>1. i \in Inodes /\ IsFile(i) /\ i \notin torn
  BY DEF FileKept
<1>2. /\ \A j \in Inodes : inodes'[j] \in medium.inodes[j]
      /\ \A b \in Blocks : content'[b] \in medium.content[b]
      /\ taken'.block \in medium.taken.block
  BY CrashIs
<1>3. inodes'[i] = inodes[i]
  BY <1>1, <1>2 DEF FileKept
<1>4. ToSet(inodes[i].extents) \subseteq Blocks
  BY <1>1, ExtentsAreBlocks DEF Sound, ToSet
<1>5. \A b \in ToSet(inodes[i].extents) : content'[b] = content[b] /\ b \in taken'.block
  BY <1>2, <1>4 DEF FileKept, BlockKept
<1>6. ReadFile(i) = Reads(acked[i]) /\ inodes[i].size <= Len(inodes[i].extents)
  BY <1>1, IntactReads DEF Sound
<1>7. /\ inodes[i].size \in Nat /\ Len(inodes[i].extents) \in Nat
      /\ DOMAIN inodes[i].extents = 1..Len(inodes[i].extents)
  BY <1>1, ExtentsAreBlocks DEF Sound
<1>8. \A j \in 1..inodes[i].size :
            content'[inodes[i].extents[j]].data = content[inodes[i].extents[j]].data
  BY <1>5, <1>6, <1>7 DEF ToSet
<1>9. ReadFile(i)' = ReadFile(i)
  <2>1. ReadFile(i) = [j \in 1..inodes[i].size |-> content[inodes[i].extents[j]].data]
    BY <1>6, <1>7 DEF ReadFile
  <2>2. ReadFile(i)' = [j \in 1..inodes[i].size |-> content'[inodes[i].extents[j]].data]
    BY <1>3, <1>6, <1>7 DEF ReadFile
  <2>3. QED
    BY <1>8, <2>1, <2>2
<1>10. \A j \in Inodes \ {i} : ToSet(inodes[i].extents) \cap ToSet(inodes'[j].extents) = {}
  BY <1>2 DEF FileKept
<1>11. QED
  BY <1>1, <1>3, <1>5, <1>6, <1>9, <1>10 DEF IsFile

-----------------------------------------------------------------------------
(* The inductive invariant.  Between the calls' steps nothing of what was  *)
(* promised is in doubt; after a crash there is only what it left.         *)

Promises ==
    /\ \A e \in promised : PromiseKept(medium, e)
    /\ \A i \in written : FileKept(medium, i)
Survived == WrittenSurvives /\ CreatedSurvives /\ SurvivorsMarked
CacheInv ==
    /\ crashed \in BOOLEAN
    /\ ~crashed => Sound /\ CallDone /\ MediumHolds /\ Promises
    /\ crashed => Survived

\* The medium holds what is on disk after a flush.
LEMMA FlushedHolds == ASSUME Sound, medium = Flushed PROVE MediumHolds
BY FlushedIs DEF MediumHolds, Sound, Exclusive

\* At first everything has been flushed.
LEMMA CacheInit == CachedInit => CacheInv
<1> SUFFICES ASSUME CachedInit PROVE CacheInv
  OBVIOUS
<1>1. Init /\ medium = Flushed /\ crashed = FALSE /\ promised = Entries
      /\ written = {i \in Inodes : IsFile(i)}
  BY DEF CachedInit
<1>2. Sound
  BY <1>1, ExclusiveInit, CallInit, ControlInit, ReadingInit, LinkingInit, CountedInit DEF Sound
<1>3. CallDone /\ torn = {}
  BY <1>1 DEF Init, CallDone
<1>4. Promises
  BY <1>1, <1>2, <1>3, PromiseMade, FileMade DEF Promises
<1>5. QED
  BY <1>1, <1>2, <1>3, <1>4, FlushedHolds DEF CacheInv

\* A write that may have reached the medium or not.
LEMMA RecordGains ==
    ASSUME Sound, Sound', MediumHolds, Record
    PROVE  MediumHolds' /\ MediumGains
<1>1. DOMAIN taken = {"block", "inode"} /\ inodes' \in [Inodes -> InodeRecords]
  BY DEF Sound, Exclusive, Bitmaps
<1>2. /\ DOMAIN medium'.inodes = Inodes /\ DOMAIN medium'.content = Blocks
      /\ DOMAIN medium'.taken = {"block", "inode"}
      /\ \A i \in Inodes : medium'.inodes[i] = medium.inodes[i] \cup {inodes'[i]}
      /\ \A b \in Blocks : medium'.content[b] = medium.content[b] \cup {content'[b]}
      /\ \A k \in {"block", "inode"} : medium'.taken[k] = medium.taken[k] \cup {taken'[k]}
  BY <1>1 DEF Record
<1>3. MediumGains
  BY <1>2 DEF MediumGains
<1>4. MediumHolds'
  BY <1>1, <1>2 DEF MediumHolds
<1>5. QED
  BY <1>3, <1>4

\* The steps of the cache.
LEMMA CacheStep ==
    ASSUME Sound, CallDone, MediumHolds, Promises, CachedStep
    PROVE  (Sound /\ CallDone /\ MediumHolds /\ Promises)'
<1>1. Next /\ Record
  BY DEF CachedStep, Next
<1>2. Sound' /\ CallDone'
  BY <1>1, SoundNext, CallDoneNext DEF Sound
<1>3. MediumHolds' /\ MediumGains
  BY <1>1, <1>2, RecordGains
<1>4. promised' = promised /\ \A i \in written' : i \in written /\ inodes'[i] = inodes[i]
  BY <1>1 DEF Record
<1>5. \A e \in promised' : PromiseKept(medium, e)'
  BY <1>1, <1>3, <1>4, PromiseStays DEF Promises
<1>6. \A i \in written' : FileKept(medium, i)'
  BY <1>1, <1>3, <1>4, FileStays DEF Promises
<1>7. QED
  BY <1>2, <1>3, <1>5, <1>6 DEF Promises

\* What is on disk when the device is flushed is what the medium holds.
LEMMA CacheFlush ==
    ASSUME Sound, MediumHolds, Promises, UNCHANGED <<disk, torn>>, medium' = Flushed, Sound',
           \A e \in promised' : e \in promised \/ e \in Entries,
           \A i \in written' : i \in written \/ (i \in Inodes /\ IsFile(i) /\ i \notin torn)
    PROVE  (MediumHolds /\ Promises)'
<1>1. UNCHANGED <<inodes, content, taken, torn>>
  BY DEF disk
<1>2. MediumHolds'
  BY <1>1, FlushedIs DEF MediumHolds, Sound, Exclusive
<1>3. ASSUME NEW e \in promised'
      PROVE  PromiseKept(medium, e)'
  <2>1. PromiseKept(Flushed, e)
    BY PromiseListed, PromiseMade DEF Promises
  <2>2. QED
    BY <1>1, <2>1 DEF PromiseKept, EntryKept, SelfKept, Agree, IsDir
<1>4. ASSUME NEW i \in written'
      PROVE  FileKept(medium, i)'
  <2>1. FileKept(Flushed, i)
    BY FileMade DEF Promises, FileKept
  <2>2. QED
    BY <1>1, <2>1 DEF FileKept, BlockKept, IsFile
<1>5. QED
  BY <1>2, <1>3, <1>4 DEF Promises

LEMMA CacheReturn ==
    ASSUME Sound, CallDone, MediumHolds, Promises, FlushAndReturn
    PROVE  (Sound /\ CallDone /\ MediumHolds /\ Promises)'
<1>1. Return /\ Promise /\ medium' = Flushed
  BY DEF FlushAndReturn
<1>2. Next
  BY <1>1 DEF Next
<1>3. Sound' /\ CallDone'
  BY <1>2, SoundNext, CallDoneNext DEF Sound
<1>4. UNCHANGED <<disk, torn>> /\ call.pc = "flush" /\ call # Idle
  BY <1>1 DEF Return, At, Idle, history
<1>5. \A e \in promised' : e \in promised \/ e \in Entries
  BY <1>1 DEF Promise
<1>6. call.op = "write_file" => call.ino \in Inodes /\ IsFile(call.ino) /\ call.ino \notin torn
  BY <1>4 DEF CallDone
<1>7. \A i \in written' : i \in written \/ (i \in Inodes /\ IsFile(i) /\ i \notin torn)
  BY <1>1, <1>6 DEF Promise
<1>8. QED
  BY <1>1, <1>3, <1>4, <1>5, <1>7, CacheFlush

LEMMA CacheCrash ==
    ASSUME Sound, MediumHolds, Promises, Crash
    PROVE  Survived'
<1>1. UNCHANGED <<acked, promised, written>>
  BY DEF Crash, history
<1>2. WrittenSurvives'
  BY <1>1, FileSurvives DEF Promises, WrittenSurvives
<1>3. CreatedSurvives'
  BY <1>1, PromiseSurvives DEF Promises, CreatedSurvives
<1>4. SurvivorsMarked'
  BY <1>1, PromiseSurvives, FileSurvives DEF Promises, SurvivorsMarked
<1>5. QED
  BY <1>2, <1>3, <1>4 DEF Survived

\* Stuttering steps.
LEMMA SoundRests == ASSUME Sound, UNCHANGED vars PROVE Sound'
<1>1. UNCHANGED <<inodes, content, taken, call, acked, torn, clean>>
  BY DEF vars
<1>2. (Exclusive /\ CallIsRecord)'
  BY <1>1 DEF Sound, Exclusive, NoSharedBlock, Unshared, Marked, HeldIsUnmapped, HeldBlock,
       CallIsRecord
<1>3. Control'
  BY <1>1 DEF Sound, Control, IsDir
<1>4. Copied'
  BY <1>1 DEF Sound, Reading, Copied
<1>5. Reading'
  BY <1>1, <1>4, ReadingFrame, ReadingSplit DEF Sound
<1>6. CallLinks'
  BY <1>1 DEF Sound, Linking, CallLinks, IsFile, Dots
<1>7. Linking'
  BY <1>1, <1>6, LinkingFrame DEF Sound
<1>8. \A d : Pending(d)' = Pending(d) /\ Children(d)' = Children(d)
  BY <1>1 DEF Pending, Children
<1>9. Counted'
  BY <1>1, <1>8 DEF Sound, Counted, IsDir
<1>10. QED
  BY <1>2, <1>3, <1>5, <1>7, <1>9 DEF Sound

LEMMA CacheRests == ASSUME CacheInv, UNCHANGED allVars PROVE CacheInv'
<1>1. /\ UNCHANGED vars /\ UNCHANGED <<medium, crashed, promised, written>>
      /\ UNCHANGED <<inodes, content, taken, call, acked, torn>>
  BY DEF allVars, vars, cacheVars
<1>2. crashed' \in BOOLEAN
  BY <1>1 DEF CacheInv
<1>3. ASSUME ~crashed
      PROVE  Sound' /\ CallDone' /\ MediumHolds' /\ Promises'
  <2>1. Sound' /\ CallDone'
    BY <1>1, <1>3, SoundRests DEF CacheInv, CallDone, IsFile
  <2>2. MediumHolds'
    BY <1>1, <1>3 DEF CacheInv, MediumHolds
  <2>3. \A e : PromiseKept(medium, e)' = PromiseKept(medium, e)
    BY <1>1 DEF PromiseKept, EntryKept, SelfKept, Agree, IsDir
  <2>4. \A i : FileKept(medium, i)' = FileKept(medium, i)
    BY <1>1 DEF FileKept, BlockKept, IsFile
  <2>5. QED
    BY <1>1, <1>3, <2>1, <2>2, <2>3, <2>4 DEF CacheInv, Promises
<1>4. ASSUME crashed
      PROVE  Survived'
  <2>1. \A i : ReadFile(i)' = ReadFile(i) /\ IsFile(i)' = IsFile(i) /\ IsDir(i)' = IsDir(i)
               /\ Lookup(i, Dot)' = Lookup(i, Dot)
    BY <1>1 DEF ReadFile, IsFile, IsDir, Lookup, DirBlocks, BlocksOf
  <2>2. Entries' = Entries
    BY <1>1, EntriesFrame
  <2>3. QED
    BY <1>1, <1>4, <2>1, <2>2
       DEF CacheInv, Survived, WrittenSurvives, CreatedSurvives, SurvivorsMarked
<1>5. QED
  BY <1>1, <1>2, <1>3, <1>4 DEF CacheInv

LEMMA CacheNext == CacheInv /\ [CachedNext]_allVars => CacheInv'
<1> SUFFICES ASSUME CacheInv, [CachedNext]_allVars PROVE CacheInv'
  OBVIOUS
<1>1. CASE UNCHANGED allVars
  BY <1>1, CacheRests
<1>2. CASE CachedNext
  <2>1. ~crashed /\ Sound /\ CallDone /\ MediumHolds /\ Promises
    BY <1>2 DEF CachedNext, CacheInv
  <2>2. CASE CachedStep
    BY <2>1, <2>2, CacheStep DEF CacheInv, CachedStep, Record
  <2>3. CASE FlushAndReturn
    BY <2>1, <2>3, CacheReturn DEF CacheInv, FlushAndReturn
  <2>4. CASE Sync
    <3>1. UNCHANGED <<disk, torn>> /\ medium' = Flushed /\ promised' = promised /\ written' = written
      BY <2>4 DEF Sync, vars, disk
    <3>2. Sound' /\ CallDone'
      <4>1. UNCHANGED vars /\ UNCHANGED <<inodes, call, torn>>
        BY <2>4 DEF Sync, vars
      <4>2. QED
        BY <2>1, <4>1, SoundRests DEF CallDone, IsFile
    <3>3. (MediumHolds /\ Promises)'
      BY <2>1, <3>1, <3>2, CacheFlush
    <3>4. QED
      BY <2>1, <2>4, <3>2, <3>3 DEF CacheInv, Sync
  <2>5. CASE Crash
    <3>1. Survived' /\ crashed' = TRUE
      BY <2>1, <2>5, CacheCrash DEF Crash
    <3>2. QED
      BY <3>1 DEF CacheInv
  <2>6. QED
    BY <1>2, <2>2, <2>3, <2>4, <2>5 DEF CachedNext
<1>3. QED
  BY <1>1, <1>2

LEMMA CacheAlways == CachedSpec => []CacheInv
BY CacheInit, CacheNext, PTL DEF CachedSpec

\* Before a crash, too, what was promised is there.
LEMMA PromisesSurvive ==
    ASSUME Sound, MediumHolds, Promises
    PROVE  Survived
<1>1. WrittenSurvives
  BY IntactReads DEF Promises, FileKept, WrittenSurvives, Sound
<1>2. CreatedSurvives
  BY PromiseListed DEF Promises, CreatedSurvives
<1>3. ASSUME NEW i \in written
      PROVE  /\ ToSet(inodes[i].extents) \subseteq taken.block
             /\ \A j \in Inodes \ {i} : ToSet(inodes[i].extents) \cap ToSet(inodes[j].extents) = {}
  <2>1. FileKept(medium, i)
    BY DEF Promises
  <2>2. QED
    BY <2>1 DEF FileKept, BlockKept, MediumHolds
<1>4. SurvivorsMarked
  BY <1>3, PromiseListed DEF Promises, SurvivorsMarked
<1>5. QED
  BY <1>1, <1>2, <1>4 DEF Survived

\* A file that write_file reported as written reads back after any crash: its
\* flush left one value of its inode and of its blocks, and until a call begins
\* to replace it no step writes either.
THEOREM WrittenFilesSurvive == CachedSpec => []WrittenSurvives
<1>1. CacheInv => WrittenSurvives
  BY PromisesSurvive DEF CacheInv, Survived
<1>2. QED
  BY <1>1, CacheAlways, PTL

\* A name that a call reported as created is listed after any crash: whatever
\* the medium may hold of the directory's inode has the block that lists the
\* name, and whatever it may hold of that block still lists it.
THEOREM CreatedNamesSurvive == CachedSpec => []CreatedSurvives
<1>1. CacheInv => CreatedSurvives
  BY PromisesSurvive DEF CacheInv, Survived
<1>2. QED
  BY <1>1, CacheAlways, PTL

\* What survives is marked on the medium, and shares no block with whatever
\* the medium may hold of any other inode.
THEOREM SurvivorsAreMarked == CachedSpec => []SurvivorsMarked
<1>1. CacheInv => SurvivorsMarked
  BY PromisesSurvive DEF CacheInv, Survived
<1>2. QED
  BY <1>1, CacheAlways, PTL
=============================================================================
