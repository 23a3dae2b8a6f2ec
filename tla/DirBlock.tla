------------------------------ MODULE DirBlock ------------------------------
(***************************************************************************)
(* A linear directory block, as src/src/dir.rs reads and writes it, in     *)
(* units of 4 bytes, the alignment of entries.                             *)
(*                                                                         *)
(* A block is a partial function from the offsets where an entry header    *)
(* was written to [ino, rec, name].  An offset without a header reads as   *)
(* zeros there, that is with rec_len = 0.                                  *)
(***************************************************************************)
EXTENDS Integers, Sequences, FiniteSetsExt

CONSTANTS
    BlockWords,  \* block size
    Names,       \* the names in use
    NameWords    \* [Names -> size of an entry with that name]: header and name

\* A header without a name takes 2 words, and so no entry is shorter.
MinWords == 2

\* A name has at most 255 bytes, and a block at least 1024.
ASSUME DirAssumption ==
    /\ BlockWords \in Nat
    /\ NameWords \in [Names -> Nat]
    /\ \A n \in Names : NameWords[n] > MinWords /\ NameWords[n] <= BlockWords

\* The inode number of a deleted entry, and the answer of a failed lookup.
Deleted == 0
Entry(ino, rec, name) == [ino |-> ino, rec |-> rec, name |-> name]

\* The blocks that entries for the inodes `numbers' make up.
Records(numbers) == [ino : numbers \cup {Deleted}, rec : 1..BlockWords, name : Names]
IsDirBlock(block, numbers) ==
    /\ DOMAIN block \subseteq 0..(BlockWords - 1)
    /\ block \in [DOMAIN block -> Records(numbers)]

\* actual_size.
ActualSize(e) == NameWords[e.name]

\* from_bytes accepts the entry at offset o.
Parses(block, o) ==
    /\ block[o].rec >= MinWords
    /\ o + block[o].rec <= BlockWords
    /\ o + ActualSize(block[o]) <= BlockWords

\* DirEntryIter: the offsets of the entries met from offset 0 on.  A record
\* that from_bytes accepts leads to an offset of 0..BlockWords.
Chain(block) ==
    LET from[o \in 0..BlockWords] ==
            IF o \in DOMAIN block /\ Parses(block, o)
            THEN {o} \cup from[o + block[o].rec]
            ELSE {}
    IN  from[0]

\* The entries of the chain that lookup_in_block compares with and list_dir
\* returns.
Live(block) == {o \in Chain(block) : block[o].ino # Deleted}

\* lookup_in_block: the first match.
LookupInBlock(block, name) ==
    LET matches == {o \in Live(block) : block[o].name = name}
    IN  IF matches = {} THEN Deleted ELSE block[Min(matches)].ino

\* lookup_in_dir: the blocks in the order of the extents.
LookupInDir(blocks, name) ==
    LET hits == {i \in DOMAIN blocks : LookupInBlock(blocks[i], name) # Deleted}
    IN  IF hits = {} THEN Deleted ELSE LookupInBlock(blocks[Min(hits)], name)

\* Mutant: the size of the entry itself is not subtracted.
SlackWhole(e) == e.rec

Slack(e) == e.rec - ActualSize(e)

\* Mutant: entries in use count as deleted ones.
IsReusableAny(e, needed) == e.rec >= needed

IsReusable(e, needed) == e.ino = Deleted /\ e.rec >= needed
HasRoom(block, needed) ==
    {o \in Chain(block) : IsReusable(block[o], needed) \/ Slack(block[o]) >= needed}

\* find_space_in_block: None is the empty set, else one [at, rec].
FindSpace(block, needed) ==
    LET roomy == HasRoom(block, needed)
        o == Min(roomy)
        e == block[o]
    IN  IF roomy = {} THEN {}
        ELSE IF IsReusable(e, needed) THEN {[at |-> o, rec |-> e.rec]}
        ELSE {[at |-> o + ActualSize(e), rec |-> Slack(e)]}

\* Mutant: the entry is given only the size that it needs.
InsertEntryShort(block, at, e) ==
    [o \in DOMAIN block \cup {at} |->
        IF o = at THEN [e EXCEPT !.rec = ActualSize(e)] ELSE block[o]]

\* The write of add_dir_entry: to_bytes is rec_len bytes long, zeros after the
\* name, and so wipes whatever was in at..at+rec-1.
InsertEntry(block, at, e) ==
    [o \in (DOMAIN block \ (at..(at + e.rec - 1))) \cup {at} |->
        IF o = at THEN e ELSE block[o]]

\* Mutant: a block size that does not fit in rec_len wraps to 0.
FreshBlockWrapped(ino, name) == [o \in {0} |-> Entry(ino, 0, name)]

\* The block that add_dir_entry allocates when there is no space.
FreshBlock(ino, name) == [o \in {0} |-> Entry(ino, BlockWords, name)]

\* The chain of a block: every entry fits in its record, and the records end
\* where the block ends.
WellFormed(block) ==
    LET chain == Chain(block)
    IN  /\ \A o \in chain : ActualSize(block[o]) <= block[o].rec
        /\ \E o \in chain : o + block[o].rec = BlockWords
=============================================================================
