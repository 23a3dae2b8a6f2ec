----------------------------- MODULE Directory ------------------------------
(***************************************************************************)
(* One directory, and the calls that add names to it: write_file and mkdir *)
(* (src/src/readwrite.rs), through lookup_in_dir and add_dir_entry.        *)
(*                                                                         *)
(* A call is one step here: FileOps breaks it into its device accesses.    *)
(***************************************************************************)
EXTENDS DirBlock

CONSTANTS
    Images,      \* the directories to start from: sequences of blocks
    MaxExtents,  \* ROOT_MAX_ENTRIES: one extent per block
    MaxIno       \* inode numbers go up to here

ASSUME DirectoryAssumption ==
    /\ MaxExtents \in Nat
    /\ MaxIno \in Nat

Inodes == 1..MaxIno

\* A directory: no more blocks than its root node has extents.
IsDirectory(image) ==
    /\ Len(image) \in 0..MaxExtents
    /\ image = [i \in 1..Len(image) |-> image[i]]
    /\ \A i \in DOMAIN image : IsDirBlock(image[i], Inodes)

\* No two entries in use carry the same name.
UniqueIn(image) ==
    \A i, j \in DOMAIN image : \A o \in Live(image[i]), p \in Live(image[j]) :
        image[i][o].name = image[j][p].name => i = j /\ o = p

\* A directory of a clean file system.
ASSUME ImagesAssumption ==
    \A image \in Images :
        /\ IsDirectory(image)
        /\ \A i \in DOMAIN image : WellFormed(image[i])
        /\ UniqueIn(image)

VARIABLES
    blocks,  \* the directory's blocks, in the order of its extents
    used,    \* the inodes in use
    reply,   \* what the last call returned
    faulty   \* whether the device may fail

vars == <<blocks, used, reply, faulty>>

Silent == [result |-> "none"]
Created(name, ino, where) ==
    [result |-> "created", name |-> name, ino |-> ino, where |-> where]
Existing(name, ino) == [result |-> "exists", name |-> name, ino |-> ino]
Error == [result |-> "error"]

Init ==
    /\ blocks \in Images
    /\ used = Inodes \cap
              UNION {{blocks[i][o].ino : o \in DOMAIN blocks[i]} : i \in DOMAIN blocks}
    /\ reply = Silent
    /\ faulty \in BOOLEAN

\* What a call that has added an entry may return: it may fail afterwards, with
\* no free block for a file's data, or by a device that reports the failure of
\* a write it has carried out.
AfterWrite(r) == {r, Error}

\* Mutant: an inode is free when no entry in use names it.
NewInoUnreferenced ==
    Min(Inodes \ UNION {{blocks[i][o].ino : o \in Live(blocks[i])} : i \in DOMAIN blocks})

\* allocate_inode.
NewIno == Min(Inodes \ used)

\* Where add_dir_entry puts an entry of a given size: the first block that has
\* room, at what find_space_in_block returns for it.
Places(needed) ==
    LET roomy == {i \in DOMAIN blocks : HasRoom(blocks[i], needed) # {}}
    IN  IF roomy = {} THEN {}
        ELSE {[block |-> Min(roomy), at |-> f.at, rec |-> f.rec] :
                f \in FindSpace(blocks[Min(roomy)], needed)}

\* add_dir_entry into an existing block.
AddInPlace(name, ino) ==
    \E p \in Places(NameWords[name]) :
        LET where == IF p.at \in Chain(blocks[p.block]) THEN "slot" ELSE "slack"
        IN  /\ blocks' = [blocks EXCEPT ![p.block] =
                             InsertEntry(@, p.at, Entry(ino, p.rec, name))]
            /\ reply' \in AfterWrite(Created(name, ino, where))

\* Mutant: `>' for `>=' in the check of append_extent.
AddInNewBlockPastMax(name, ino) ==
    /\ Places(NameWords[name]) = {}
    /\ Len(blocks) <= MaxExtents
    /\ blocks' = Append(blocks, FreshBlock(ino, name))
    /\ reply' = Created(name, ino, "fresh")

\* add_dir_entry into a new block, unless no block is free (NoFreeBlocks: which
\* blocks are free is in FileOps) or append_extent refuses a full root node.
AddInNewBlock(name, ino) ==
    /\ Places(NameWords[name]) = {}
    /\ \/ /\ Len(blocks) < MaxExtents
          /\ blocks' = Append(blocks, FreshBlock(ino, name))
          /\ reply' \in AfterWrite(Created(name, ino, "fresh"))
       \/ /\ reply' = Error
          /\ UNCHANGED blocks

\* allocate_inode, then add_dir_entry.  A failure between the two, of the
\* device or for want of a block for "." and "..", leaves the inode marked.
Create(name) ==
    \/ /\ used # Inodes
       /\ used' = used \cup {NewIno}
       /\ \/ AddInPlace(name, NewIno)
          \/ AddInNewBlock(name, NewIno)
          \/ reply' = Error /\ UNCHANGED blocks
    \/ /\ used = Inodes \/ faulty
       /\ reply' = Error
       /\ UNCHANGED <<blocks, used>>

\* write_file: an existing file is rewritten in place of a new entry, if there
\* are blocks for it.  Any error of the lookup but NotFound ends the call.
WriteFile(name) ==
    LET found == LookupInDir(blocks, name)
    IN  \/ /\ found # Deleted
           /\ reply' \in {Existing(name, found), Error}
           /\ UNCHANGED <<blocks, used>>
        \/ found = Deleted /\ Create(name)
        \/ /\ faulty
           /\ reply' = Error
           /\ UNCHANGED <<blocks, used>>

\* Mutant: the name is not looked up.
MkdirUnchecked(name) == Create(name)

\* mkdir: AlreadyExists when `lookup_in_dir(..).is_ok()', so that an error of
\* the lookup counts as the absence of the name.
Mkdir(name) ==
    LET found == LookupInDir(blocks, name)
    IN  \/ /\ found # Deleted
           /\ reply' = Existing(name, found)
           /\ UNCHANGED <<blocks, used>>
        \/ (found = Deleted \/ faulty) /\ Create(name)

Next == UNCHANGED faulty /\ \E name \in Names : WriteFile(name) \/ Mkdir(name)

Spec == Init /\ [][Next]_vars

-----------------------------------------------------------------------------

\* The declared type of every variable.
TypeOK ==
    /\ IsDirectory(blocks)
    /\ used \subseteq Inodes
    /\ reply \in {Silent, Error}
                 \cup {Existing(n, i) : n \in Names, i \in Inodes}
                 \cup {Created(n, i, w) : n \in Names, i \in Inodes,
                                          w \in {"slot", "slack", "fresh"}}

\* No insertion breaks a chain: iteration over a directory never stops early,
\* and `rec_len - actual' of find_space_in_block never goes below zero.
ChainsTile == \A i \in DOMAIN blocks : WellFormed(blocks[i])

\* A name that a lookup finds stands for the same inode after every later call,
\* on a device that does not fail: no insertion hides or overwrites an entry.
NamesKept ==
    [][~faulty => \A n \in Names : LookupInDir(blocks, n) # Deleted =>
            LookupInDir(blocks', n) = LookupInDir(blocks, n)]_blocks

\* A name that a lookup begins to find names the inode that this very call
\* allocated: an entry that add_dir_entry lost in slack space is never brought
\* back by the entries added after it.
NothingResurfaces ==
    [][\A n \in Names :
        LookupInDir(blocks, n) = Deleted /\ LookupInDir(blocks', n) # Deleted =>
            LookupInDir(blocks', n) \in used' \ used]_blocks

\* A new entry is found by the next lookup, if it took over a deleted slot or
\* a block of its own, on a device that does not fail.
FoundUnlessInSlack ==
    ~faulty /\ reply.result = "created" /\ reply.where # "slack" =>
        LookupInDir(blocks, reply.name) = reply.ino

\* No two entries in use carry the same name: it is looked up before it is
\* added (mkdir: "Check for existing entry").
NamesUnique == UniqueIn(blocks)

\* The same on a device that does not fail: no entry that was lost in slack
\* space is found a second time when its name is added again.
NamesUniqueWithoutFaults == ~faulty => NamesUnique

\* readwrite.rs, write_file: "If it does not exist, it is created."  A name
\* that a call created is found by a lookup, on a device that does not fail.
CreatedIsFound ==
    ~faulty /\ reply.result = "created" => LookupInDir(blocks, reply.name) = reply.ino
=============================================================================
