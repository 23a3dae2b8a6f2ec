---------------------------- MODULE FileOpsStore ----------------------------
(***************************************************************************)
(* FileOps as its users see it, by names: it implements FileStore.         *)
(***************************************************************************)
EXTENDS FileOps

\* The entries of all directories, "." and ".." aside, as list_dir shows them,
\* and the inodes that they name.  A directory that is not linked yet, or never
\* will be, has no others.
Listed(d, block) ==
    {[dir |-> d, name |-> block[o].name, node |-> block[o].ino] :
        o \in {p \in Live(block) : block[p].name \notin {Dot, DotDot}}}
EntriesOf(table, store) ==
    UNION {UNION {Listed(d, store[b].entries) : b \in ToSet(table[d].extents)} :
        d \in {i \in Inodes : table[i].type = "dir"}}
Entries == EntriesOf(inodes, content)
LinkedIn(entries) == {Root} \cup {e.node : e \in entries}
Linked == LinkedIn(Entries)

\* The images are of whole trees: each directory is in one, and so is the one
\* that its ".." names.
ASSUME TreesAssumption ==
    \A image \in Images :
        LET linked == LinkedIn(EntriesOf(image.inodes, image.content))
        IN  \A d \in Inodes : image.inodes[d].type = "dir" =>
                /\ d \in linked
                /\ LookupInDir(BlocksOf(image.inodes, image.content, d), DotDot) \in linked

Contents(i) ==
    IF i \in torn THEN [whole |-> FALSE, data |-> <<>>] ELSE [whole |-> TRUE, data |-> ReadFile(i)]

\* At every point of every call, and after any failure: what can be looked up
\* only gains names, of complete nodes, one with its node at a time, and a file
\* changes by a write_file that ends or is torn by one that does not.
Store ==
    INSTANCE FileStore WITH
        Nodes <- Inodes,
        Data <- {Reads(data) : data \in Writes},
        entries <- Entries,
        dirs <- {i \in Linked : IsDir(i)},
        files <- [i \in {j \in Linked : IsFile(j)} |-> Contents(i)]
StoreSpec == Store!Spec
=============================================================================
