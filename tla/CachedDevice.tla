---------------------------- MODULE CachedDevice ----------------------------
(***************************************************************************)
(* FileOps on a block device with a volatile cache, which the trait        *)
(* BlockDevice (src/src/readwrite.rs) allows for: a write may reach the    *)
(* medium at any time, in any order, or not before the next flush.  The    *)
(* unit of a write is an inode, a block or a bitmap.                       *)
(*                                                                         *)
(* A crash loses what the cache held.  The file system is then checked     *)
(* before it is used again (README.md: "Mount only clean filesystems"), so *)
(* the behaviour ends there, with the medium as what there is to read.     *)
(***************************************************************************)
EXTENDS FileOpsStore

CONSTANT MaxFailures   \* a bound for TLC on the calls that fail

ASSUME MaxFailuresAssumption == MaxFailures \in Nat

VARIABLES
    medium,    \* of each place, the values that the medium may hold
    crashed,   \* power was lost: the disk is what the medium held
    failures,  \* the number of calls that failed
    promised,  \* history: the names that calls reported as created
    written    \* history: the files that write_file reported as written, and
               \* that no later call has begun to replace

cacheVars == <<medium, crashed, failures, promised, written>>
allVars == <<vars, cacheVars>>

Flushed ==
    [inodes |-> [i \in Inodes |-> {inodes[i]}],
     content |-> [b \in Blocks |-> {content[b]}],
     taken |-> [k \in DOMAIN taken |-> {taken[k]}]]

CachedInit ==
    /\ Init
    /\ medium = Flushed
    /\ crashed = FALSE
    /\ failures = 0
    /\ promised = Entries
    /\ written = {i \in Inodes : IsFile(i)}

\* Every write may have reached the medium or not.
Record ==
    /\ medium' =
        [inodes |-> [i \in Inodes |-> medium.inodes[i] \cup {inodes'[i]}],
         content |-> [b \in Blocks |-> medium.content[b] \cup {content'[b]}],
         taken |-> [k \in DOMAIN taken |-> medium.taken[k] \cup {taken'[k]}]]
    /\ written' = {i \in written : inodes'[i] = inodes[i]}
    /\ UNCHANGED <<crashed, promised>>

CachedStep ==
    /\ WriteFile \/ Mkdir \/ Step \/ Abort
    /\ Record
    /\ failures' = IF call # Idle /\ call' = Idle THEN failures + 1 ELSE failures
    /\ failures' <= MaxFailures

\* What the caller is told by Ok.  An entry in slack space is not listed.
Promise ==
    /\ promised' = promised \cup
            {e \in Entries : e.dir = call.parent /\ e.name = call.name /\ e.node = call.ino}
    /\ written' = IF call.op = "write_file" THEN written \cup {call.ino} ELSE written

\* Mutant: Ok without flush.
FlushAndReturnUnflushed == Return /\ Promise /\ UNCHANGED <<medium, crashed, failures>>

\* Mutant: only write_file flushes.
FlushAndReturnOfFiles ==
    /\ Return /\ Promise
    /\ medium' = IF call.op = "write_file" THEN Flushed ELSE medium
    /\ UNCHANGED <<crashed, failures>>

\* flush, and Ok.
FlushAndReturn ==
    /\ Return /\ Promise
    /\ medium' = Flushed
    /\ UNCHANGED <<crashed, failures>>

\* sync_metadata between calls: the counts are not on this disk, but the flush
\* at its end takes all writes with it.
Sync ==
    /\ call = Idle
    /\ medium' = Flushed
    /\ UNCHANGED <<vars, crashed, failures, promised, written>>

\* Of each place, one of the values that the medium may hold.  A place that
\* holds one value leaves no choice.
Surviving(held) ==
    LET unsure == {p \in DOMAIN held : \E v, w \in held[p] : v # w}
        picks == {pick \in [unsure -> UNION {held[p] : p \in unsure}] :
                    \A p \in unsure : pick[p] \in held[p]}
    IN  {[p \in DOMAIN held |->
            IF p \in unsure THEN pick[p] ELSE CHOOSE v \in held[p] : TRUE] : pick \in picks}

Crash ==
    /\ inodes' \in Surviving(medium.inodes)
    /\ content' \in Surviving(medium.content)
    /\ taken' \in Surviving(medium.taken)
    /\ medium' = Flushed'
    /\ call' = Idle
    /\ crashed' = TRUE
    /\ UNCHANGED <<history, failures, promised, written>>

CachedNext == ~crashed /\ (CachedStep \/ FlushAndReturn \/ Sync \/ Crash)

CachedSpec == CachedInit /\ [][CachedNext]_allVars

-----------------------------------------------------------------------------

\* readwrite.rs, write_file: "Flush to ensure durability".  A file that
\* write_file reported as written reads back after any crash, whatever reached
\* the medium of the calls in progress or failed since then.
WrittenSurvives == \A i \in written : IsFile(i) /\ ReadFile(i) = Reads(acked[i])

\* A name that a call reported as created is listed after any crash, names what
\* it named, and a directory it names lists itself.
CreatedSurvives ==
    \A e \in promised :
        /\ e \in Entries
        /\ inodes[e.node].type # "unwritten"
        /\ IsDir(e.node) => Lookup(e.node, Dot) = e.node

\* After a crash, too, what was reported as written or created has its bits
\* set, so that not even an allocation without a check of the disk would hand
\* it out again, and no other inode maps a block of such a file.
SurvivorsMarked ==
    /\ \A e \in promised : e.node \in taken.inode
    /\ \A i \in written :
        /\ ToSet(inodes[i].extents) \subseteq taken.block
        /\ \A j \in Inodes \ {i} : ToSet(inodes[i].extents) \cap ToSet(inodes[j].extents) = {}
=============================================================================
