------------------------------ MODULE FileOps -------------------------------
(***************************************************************************)
(* write_file and mkdir (src/src/readwrite.rs), one device write at a      *)
(* time, on a disk of inodes, directory blocks and data blocks.            *)
(*                                                                         *)
(* A call may end between any two of its writes, by an error of the device *)
(* or by the loss of power, and leaves on disk what it has written so far. *)
(* A write that fails having reached the disk is the write followed by     *)
(* that end.  Writes reach the disk in the order they are issued.          *)
(*                                                                         *)
(* Which free block or inode an allocation picks is Allocator's business,  *)
(* and a parameter here.  Files are measured in whole blocks, and every    *)
(* extent maps one block, as append_extent makes them.                     *)
(***************************************************************************)
EXTENDS DirBlock, SequencesExt

CONSTANTS
    Blocks, Inodes,   \* the blocks for data and directories; the inodes
    Root,             \* ROOT_INODE
    Dot, DotDot,      \* "." and ".."
    Writes,           \* the contents that callers write: sequences of data
    ParentPaths,      \* the parent directories that callers name
    MaxExtents,       \* ROOT_MAX_ENTRIES
    Reserved,         \* the set bits of metadata and of reserved inodes
    Images,           \* the disks to start from
    Candidates(_)     \* of a set of free numbers, those an allocation may pick

InodeTypes == {"unwritten", "file", "dir"}
InodeRecords ==
    [type : InodeTypes, extents : Seq(Blocks), size : Nat, links : Nat, blocks : Nat]
Bitmaps == [block : SUBSET Blocks, inode : SUBSET Inodes]

\* The extents of a table of inodes map no block twice, and only set ones.
Unshared(table) ==
    \A i, j \in Inodes : \A m \in DOMAIN table[i].extents, n \in DOMAIN table[j].extents :
        table[i].extents[m] = table[j].extents[n] => i = j /\ m = n
Marked(table, bits) ==
    \A i \in Inodes : \A m \in DOMAIN table[i].extents : table[i].extents[m] \in bits.block

\* What each block of a directory lists.
BlocksOf(table, store, i) == [j \in DOMAIN table[i].extents |-> store[table[i].extents[j]].entries]

\* The extents lead to blocks that were written, and the entries to inodes that
\* were: blocks of directories list entries and blocks of files hold data, and a
\* directory that an entry names lists itself.
WrittenFirst(table, store) ==
    \A i \in Inodes : \A m \in DOMAIN table[i].extents :
        LET held == store[table[i].extents[m]]
        IN  /\ table[i].type = "file" => held.data # {}
            /\ table[i].type = "dir" => WellFormed(held.entries)
            /\ table[i].type = "dir" => \A o \in Live(held.entries) :
                LET child == held.entries[o].ino
                IN  /\ table[child].type # "unwritten"
                    /\ table[child].type = "dir" =>
                        LookupInDir(BlocksOf(table, store, child), Dot) = child

\* The subdirectories of a directory, those among them that an entry in slack
\* space has lost included.
ChildrenOf(table, store, d) ==
    {i \in Inodes \ {Root} : table[i].type = "dir" /\
                             LookupInDir(BlocksOf(table, store, i), DotDot) = d}

\* The first block of a directory begins with its "." and "..", to be found
\* before any entry that a later mkdir of such a name adds.
BeginsWithDots(blocks, i) ==
    /\ 1 \in DOMAIN blocks
    /\ {0, NameWords[Dot]} \subseteq Live(blocks[1])
    /\ blocks[1][0] = Entry(i, NameWords[Dot], Dot)
    /\ blocks[1][NameWords[Dot]].name = DotDot

\* "." and ".." are names like others, and the first block of a directory has
\* room for both.
ASSUME DotsAssumption ==
    /\ Dot \in Names /\ DotDot \in Names /\ Dot # DotDot
    /\ NameWords[Dot] + NameWords[DotDot] <= BlockWords
    /\ Deleted \notin Inodes

ASSUME CandidatesAssumption ==
    \A free \in (SUBSET Blocks) \cup (SUBSET Inodes) :
        Candidates(free) \subseteq free /\ (free # {} => Candidates(free) # {})

ASSUME InodesAssumption == IsFiniteSet(Inodes) /\ Root \in Inodes

ASSUME MaxExtentsAssumption == MaxExtents \in Nat

\* The blocks and the inodes of a table in use.
Mapped(table) == UNION {ToSet(table[i].extents) : i \in Inodes}
Written(table) == {i \in Inodes : table[i].type # "unwritten"}

ASSUME ReservedAssumption == Reserved \in Bitmaps

\* Only a clean file system may be mounted (README.md: "Mount only clean
\* filesystems"), in which each set bit has one use.  The files of the images
\* have one extent per block, too.
ASSUME ImagesAssumption ==
    \A image \in Images :
        /\ image.inodes[Root].type = "dir"
        /\ image.inodes \in [Inodes -> InodeRecords]
        /\ image.taken \in Bitmaps
        /\ DOMAIN image.content = Blocks
        /\ Unshared(image.inodes)
        /\ image.taken.block = Reserved.block \cup Mapped(image.inodes)
        /\ image.taken.inode = Reserved.inode \cup Written(image.inodes)
        /\ Reserved.block \cap Mapped(image.inodes) = {}
        /\ Reserved.inode \cap Written(image.inodes) = {}
        /\ WrittenFirst(image.inodes, image.content)
        /\ \A i \in Inodes :
            LET inode == image.inodes[i]
            IN  /\ Len(inode.extents) <= MaxExtents
                /\ inode.type = "unwritten" => inode.extents = <<>>
                /\ inode.type = "dir" =>
                    LET listed == BlocksOf(image.inodes, image.content, i)
                    IN  /\ \A j \in DOMAIN listed : IsDirBlock(listed[j], Inodes)
                        /\ BeginsWithDots(listed, i)
                        /\ inode.links = 2 + Cardinality(ChildrenOf(image.inodes, image.content, i))
                /\ inode.type = "file" =>
                    /\ inode.size <= Len(inode.extents)
                    /\ \A j \in 1..inode.size :
                        LET held == image.content[inode.extents[j]].data
                        IN  \E d \in held : held = {d}

ASSUME PathsAssumption == ParentPaths \subseteq Seq(Names)

ASSUME WritesAssumption == \A data \in Writes : Len(data) \in Nat /\ DOMAIN data = 1..Len(data)

VARIABLES
    inodes,   \* on disk: the inode tables
    content,  \* on disk: what each block holds
    taken,    \* on disk: the bitmaps
    call,     \* the call in progress
    acked,    \* history: what each file was last completely written with
    torn,     \* history: the files that a rewrite has begun to replace
    clean     \* history: no call failed, and no file with blocks was rewritten

disk == <<inodes, content, taken>>
history == <<acked, torn, clean>>
vars == <<inodes, content, taken, call, acked, torn, clean>>

Unwritten == [type |-> "unwritten", extents |-> <<>>, size |-> 0, links |-> 0, blocks |-> 0]
NewInode(type, links) == [Unwritten EXCEPT !.type = type, !.links = links]
Holds(data) == [data |-> {data}, entries |-> <<>>]
Lists(entries) == [data |-> {}, entries |-> entries]
Junk == [data |-> {}, entries |-> <<>>]

Idle == [pc |-> "idle"]

-----------------------------------------------------------------------------
(* Reading.                                                                *)

IsDir(i) == inodes[i].type = "dir"
IsFile(i) == inodes[i].type = "file"

\* resolve_extents and read_block, for a directory: its size is not looked at.
DirBlocks(i) == BlocksOf(inodes, content, i)

\* lookup_in_dir.
Lookup(dir, name) == LookupInDir(DirBlocks(dir), name)

\* lookup_path; Deleted stands for NotFound and NotADirectory.
Resolve(path) ==
    LET at[k \in 0..Len(path)] ==
            IF k = 0 THEN Root
            ELSE IF at[k - 1] = Deleted \/ ~IsDir(at[k - 1]) THEN Deleted
            ELSE Lookup(at[k - 1], path[k])
    IN  at[Len(path)]

\* read_inode_data: as many blocks as the size says, or Corrupt when the
\* extents do not reach that far.
Corrupt == <<{"Corrupt"}>>
ReadFile(i) ==
    LET inode == inodes[i]
    IN  IF inode.size > Len(inode.extents) THEN Corrupt
        ELSE [j \in 1..inode.size |-> content[inode.extents[j]].data]

\* What a file reads as when it holds these data.
Reads(data) == [j \in DOMAIN data |-> {data[j]}]

-----------------------------------------------------------------------------
(* The writes that the calls are made of.                                  *)

PutInode(i, inode) == inodes' = [inodes EXCEPT ![i] = inode]
PutBlock(b, what) == content' = [content EXCEPT ![b] = what]
Take(k, n) == taken' = [taken EXCEPT ![k] = @ \cup {n}]

At(pc) == call.pc = pc
Goto(pc) == call' = [call EXCEPT !.pc = pc]

\* `?' on an Err, and the errors the calls return themselves.
Fail ==
    /\ call' = Idle
    /\ clean' = FALSE
    /\ UNCHANGED <<disk, acked, torn>>

\* Mutant: the bitmap is not written back.
AllocateBlockUnmarked(pc) ==
    /\ \E b \in Candidates(Blocks \ taken.block) : call' = [call EXCEPT !.pc = pc, !.block = b]
    /\ UNCHANGED <<disk, history>>

\* allocate_block.
AllocateBlockThen(pc) ==
    \/ /\ \E b \in Candidates(Blocks \ taken.block) :
            /\ Take("block", b)
            /\ call' = [call EXCEPT !.pc = pc, !.block = b]
       /\ UNCHANGED <<inodes, content, history>>
    \/ Blocks \subseteq taken.block /\ Fail

\* Mutant: `>' for `>=' in the check of the root node's entries.
AppendExtentPastMax(i, inode, pc) ==
    /\ Len(inode.extents) <= MaxExtents
    /\ PutInode(i, [inode EXCEPT !.extents = Append(@, call.block)])
    /\ Goto(pc)
    /\ UNCHANGED <<content, taken, history>>

\* append_extent, of the block just written, to an inode whose copy in memory
\* is `inode'.
AppendExtentThen(i, inode, pc) ==
    \/ /\ Len(inode.extents) < MaxExtents
       /\ PutInode(i, [inode EXCEPT !.extents = Append(@, call.block)])
       /\ Goto(pc)
       /\ UNCHANGED <<content, taken, history>>
    \/ Len(inode.extents) >= MaxExtents /\ Fail

-----------------------------------------------------------------------------
(* The start of a call.                                                    *)

Init ==
    /\ \E image \in Images :
        /\ inodes = image.inodes
        /\ content = image.content
        /\ taken = image.taken
        /\ acked = [i \in Inodes |->
            IF image.inodes[i].type = "file"
            THEN [j \in 1..image.inodes[i].size |->
                    CHOOSE d \in image.content[image.inodes[i].extents[j]].data : TRUE]
            ELSE <<>>]
    /\ call = Idle
    /\ torn = {}
    /\ clean = TRUE

\* split_path and the lookups: calls that they end change nothing.  read_inode
\* refuses the numbers of no inode.  An error of the device in mkdir's lookup of
\* the name counts as its absence, even if the name is "." or "..".
Start(op, path, name, data) ==
    LET parent == Resolve(path)
        new == [pc |-> "allocate_inode", op |-> op, parent |-> parent, name |-> name,
                data |-> data, ino |-> Root, block |-> CHOOSE b \in Blocks : TRUE,
                done |-> 0]
    IN  /\ call = Idle
        /\ parent \in Inodes /\ IsDir(parent)
        /\ LET found == Lookup(parent, name)
           IN  \/ /\ found = Deleted \/ op = "mkdir"
                  /\ call' = new
               \/ /\ found \in Inodes /\ op = "write_file" /\ IsFile(found)
                  /\ call' = [new EXCEPT !.pc = "data", !.ino = found]
        /\ UNCHANGED <<disk, history>>

\* Mutant: the entry is added before the inode is written.
AllocateInodeAddFirst ==
    /\ At("allocate_inode")
    /\ \E i \in Candidates(Inodes \ taken.inode) :
        /\ Take("inode", i)
        /\ call' = [call EXCEPT !.ino = i,
                        !.pc = IF call.op = "mkdir" THEN "allocate_dots" ELSE "add"]
    /\ UNCHANGED <<inodes, content, history>>

\* allocate_inode.
AllocateInode ==
    /\ At("allocate_inode")
    /\ \/ /\ \E i \in Candidates(Inodes \ taken.inode) :
            /\ Take("inode", i)
            /\ call' = [call EXCEPT !.ino = i,
                            !.pc = IF call.op = "mkdir" THEN "allocate_dots" ELSE "new_file"]
          /\ UNCHANGED <<inodes, content, history>>
       \/ Inodes \subseteq taken.inode /\ Fail

\* write_file: write_inode of new_file(..).
WriteNewFile ==
    /\ At("new_file")
    /\ PutInode(call.ino, NewInode("file", 1))
    /\ acked' = [acked EXCEPT ![call.ino] = <<>>]
    /\ Goto("add")
    /\ UNCHANGED <<content, taken, torn, clean>>

\* mkdir: the block of "." and "..", whose record takes the rest of it ...
AllocateDots == At("allocate_dots") /\ AllocateBlockThen("write_dots")

Dots(self, parent) ==
    [o \in {0, NameWords[Dot]} |->
        IF o = 0 THEN Entry(self, NameWords[Dot], Dot)
        ELSE Entry(parent, BlockWords - NameWords[Dot], DotDot)]

WriteDots ==
    /\ At("write_dots")
    /\ PutBlock(call.block, Lists(Dots(call.ino, call.parent)))
    /\ Goto("new_dir")
    /\ UNCHANGED <<inodes, taken, history>>

\* ... then the inode, by append_extent ...
WriteNewDir ==
    /\ At("new_dir")
    /\ AppendExtentThen(call.ino, NewInode("dir", 2), "size_dir")

\* ... and again with its size.
SizeNewDir ==
    /\ At("size_dir")
    /\ PutInode(call.ino, [inodes[call.ino] EXCEPT !.size = 1, !.blocks = 1])
    /\ Goto("add")
    /\ UNCHANGED <<content, taken, history>>

-----------------------------------------------------------------------------
(* add_dir_entry.                                                          *)

\* Where mkdir and write_file go on.
AfterAdd == IF call.op = "mkdir" THEN "links" ELSE "data"

Roomy == {j \in DOMAIN DirBlocks(call.parent) :
            HasRoom(DirBlocks(call.parent)[j], NameWords[call.name]) # {}}

\* Into the first block that has room.
AddInPlace ==
    /\ At("add")
    /\ Roomy # {}
    /\ LET b == inodes[call.parent].extents[Min(Roomy)]
       IN  \E p \in FindSpace(content[b].entries, NameWords[call.name]) :
            PutBlock(b, Lists(InsertEntry(content[b].entries, p.at,
                                          Entry(call.ino, p.rec, call.name))))
    /\ Goto(AfterAdd)
    /\ UNCHANGED <<inodes, taken, history>>

\* Into a new block: allocated, written, appended to the directory ...
Grow ==
    /\ At("add")
    /\ Roomy = {}
    /\ AllocateBlockThen("write_entry")

WriteEntry ==
    /\ At("write_entry")
    /\ PutBlock(call.block, Lists(FreshBlock(call.ino, call.name)))
    /\ Goto("append_entry")
    /\ UNCHANGED <<inodes, taken, history>>

\* Mutant: the new block is not appended to the directory.
AppendEntryForgotten ==
    At("append_entry") /\ Goto("size_parent") /\ UNCHANGED <<disk, history>>

AppendEntry ==
    /\ At("append_entry")
    /\ AppendExtentThen(call.parent, inodes[call.parent], "size_parent")

\* ... whose size, but not blocks_lo, goes up.
SizeParent ==
    /\ At("size_parent")
    /\ PutInode(call.parent, [inodes[call.parent] EXCEPT !.size = @ + 1])
    /\ Goto(AfterAdd)
    /\ UNCHANGED <<content, taken, history>>

\* Mutant: the new directory's links_count goes up instead.
CountLinkOfChild ==
    /\ At("links")
    /\ PutInode(call.ino, [inodes[call.ino] EXCEPT !.links = @ + 1])
    /\ Goto("flush")
    /\ UNCHANGED <<content, taken, history>>

\* mkdir: the parent's links_count.
CountLink ==
    /\ At("links")
    /\ PutInode(call.parent, [inodes[call.parent] EXCEPT !.links = @ + 1])
    /\ Goto("flush")
    /\ UNCHANGED <<content, taken, history>>

-----------------------------------------------------------------------------
(* write_file: the data, on an extent tree that starts empty in memory.    *)

AllocateData ==
    /\ At("data")
    /\ call.done < Len(call.data)
    /\ AllocateBlockThen("write_data")

WriteData ==
    /\ At("write_data")
    /\ PutBlock(call.block, Holds(call.data[call.done + 1]))
    /\ Goto("append_data")
    /\ UNCHANGED <<inodes, taken, history>>

\* Mutant: the extent tree is reset in every round of the loop.
AppendDataResetEach ==
    /\ At("append_data")
    /\ PutInode(call.ino, [inodes[call.ino] EXCEPT !.extents = <<call.block>>])
    /\ call' = [call EXCEPT !.pc = "data", !.done = @ + 1]
    /\ torn' = torn \cup {call.ino}
    /\ clean' = FALSE
    /\ UNCHANGED <<content, taken, acked>>

\* append_extent: the first one replaces the extents that the file had.
AppendData ==
    LET old == inodes[call.ino]
        inode == IF call.done = 0 THEN [old EXCEPT !.extents = <<>>] ELSE old
    IN  /\ At("append_data")
        /\ \/ /\ Len(inode.extents) < MaxExtents
              /\ PutInode(call.ino, [inode EXCEPT !.extents = Append(@, call.block)])
              /\ call' = [call EXCEPT !.pc = "data", !.done = @ + 1]
              /\ torn' = IF old.size > 0 THEN torn \cup {call.ino} ELSE torn
              /\ clean' = (clean /\ (call.done = 0 => old.extents = <<>>))
              /\ UNCHANGED <<content, taken, acked>>
           \/ Len(inode.extents) >= MaxExtents /\ Fail

\* Mutant: waits for one block more than there are.
SizeFileLate ==
    /\ At("data")
    /\ call.done > Len(call.data)
    /\ PutInode(call.ino, [inodes[call.ino] EXCEPT !.size = Len(call.data)])
    /\ acked' = [acked EXCEPT ![call.ino] = call.data]
    /\ Goto("flush")
    /\ UNCHANGED <<content, taken, torn, clean>>

\* The last write: the size, blocks_lo, and the extents even when there are none.
SizeFile ==
    LET old == inodes[call.ino]
    IN  /\ At("data")
        /\ call.done = Len(call.data)
        /\ PutInode(call.ino,
                [old EXCEPT !.extents = IF call.done = 0 THEN <<>> ELSE @,
                            !.size = Len(call.data), !.blocks = Len(call.data)])
        /\ acked' = [acked EXCEPT ![call.ino] = call.data]
        /\ torn' = torn \ {call.ino}
        /\ clean' = (clean /\ (call.done = 0 => old.extents = <<>>))
        /\ Goto("flush")
        /\ UNCHANGED <<content, taken>>

\* flush, and Ok.
Return ==
    /\ At("flush")
    /\ call' = Idle
    /\ UNCHANGED <<disk, history>>

\* The device fails a call, or power is lost, and the disk is mounted again.
Abort == call # Idle /\ Fail

-----------------------------------------------------------------------------

WriteFile ==
    \E path \in ParentPaths, name \in Names, data \in Writes :
        Start("write_file", path, name, data)

Mkdir ==
    \E path \in ParentPaths, name \in Names : Start("mkdir", path, name, <<>>)

\* The next write of the call in progress.
Step ==
    \/ AllocateInode \/ WriteNewFile
    \/ AllocateDots \/ WriteDots \/ WriteNewDir \/ SizeNewDir
    \/ AddInPlace \/ Grow \/ WriteEntry \/ AppendEntry \/ SizeParent
    \/ CountLink
    \/ AllocateData \/ WriteData \/ AppendData \/ SizeFile

Next == WriteFile \/ Mkdir \/ Step \/ Return \/ Abort

Spec == Init /\ [][Next]_vars

-----------------------------------------------------------------------------

\* The declared type of every variable; no root node overflows.
TypeOK ==
    /\ inodes \in [Inodes -> InodeRecords]
    /\ \A i \in Inodes : Len(inodes[i].extents) <= MaxExtents
    /\ taken \in Bitmaps
    /\ DOMAIN content = Blocks
    /\ DOMAIN acked = Inodes
    /\ torn \subseteq Inodes
    /\ clean \in BOOLEAN

\* At every point, and so after every crash: a file reads as what it was last
\* completely written with, nothing for a file whose first write did not end,
\* unless a later write has begun to replace it and did not end.
FilesReadBack ==
    \A i \in Inodes : IsFile(i) /\ i \notin torn => ReadFile(i) = Reads(acked[i])

\* No two extents, of any inodes on disk, map the same block, at any point of
\* any call and whatever calls have failed before.
NoSharedBlock == Unshared(inodes)

\* What can be reached on disk was written before the link to it, at every
\* point where a call may be cut short, and its bits were set before that.
LinkedIsWritten ==
    /\ \A i \in Inodes : inodes[i].type # "unwritten" => i \in taken.inode
    /\ Marked(inodes, taken)
    /\ WrittenFirst(inodes, content)

\* The block and the inode that the call in progress holds and has not linked.
HeldBlock ==
    IF call.pc \in {"write_dots", "new_dir", "write_entry", "append_entry",
                    "write_data", "append_data"}
    THEN {call.block} ELSE {}
HeldInode ==
    IF call.pc \in {"new_file", "allocate_dots", "write_dots", "new_dir"}
    THEN {call.ino} ELSE {}

\* Nothing is leaked but by a call that failed or by the rewriting of a file:
\* without those, each set bit has exactly one use, or is reserved.
SpaceAccounted ==
    clean =>
        /\ taken.block = Reserved.block \cup HeldBlock \cup Mapped(inodes)
        /\ taken.inode = Reserved.inode \cup HeldInode \cup Written(inodes)

Children(d) == ChildrenOf(inodes, content, d)

\* A directory's links_count is never higher than its subdirectories demand,
\* and exact between calls when none has failed.
LinksCounted ==
    \A d \in Inodes : IsDir(d) =>
        /\ inodes[d].links <= 2 + Cardinality(Children(d))
        /\ clean /\ call = Idle => inodes[d].links = 2 + Cardinality(Children(d))

\* No write of any call takes away or changes an entry that list_dir shows: the
\* blocks of a directory keep their order, and their entries their places.
EntriesKept ==
    [][\A d \in Inodes : IsDir(d) =>
        /\ IsPrefix(inodes[d].extents, inodes'[d].extents)
        /\ \A b \in ToSet(inodes[d].extents) : content'[b] # content[b] =>
            LET before == content[b].entries
                after == content'[b].entries
            IN  \A o \in Live(before) : o \in Live(after) /\ after[o] = before[o]
      ]_<<inodes, content>>

\* inode.rs, blocks_lo: "Number of 512-byte blocks allocated".  Between calls
\* that did not fail, an inode's block count is the number of its blocks.
BlocksCounted ==
    clean /\ call = Idle => \A i \in Inodes : inodes[i].blocks = Len(inodes[i].extents)
=============================================================================
