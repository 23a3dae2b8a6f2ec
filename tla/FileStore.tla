----------------------------- MODULE FileStore ------------------------------
(***************************************************************************)
(* What write_file and mkdir promise to those who look up names and read   *)
(* files, without blocks, bitmaps or the order of writes: a set of entries *)
(* that only grows, each naming a node that is there, and files whose      *)
(* contents change as a whole, or are torn by a change that did not end.   *)
(***************************************************************************)

CONSTANTS
    Nodes,   \* what entries name
    Names,
    Data     \* the contents that may be written

VARIABLES
    entries,  \* a set of [dir, name, node]
    dirs,     \* the directories
    files     \* from the files to their contents

vars == <<entries, dirs, files>>

Whole(data) == [whole |-> TRUE, data |-> data]
Torn == [whole |-> FALSE, data |-> <<>>]

Init ==
    /\ entries \subseteq [dir : dirs, name : Names, node : dirs \cup DOMAIN files]
    /\ dirs \cup DOMAIN files \subseteq Nodes
    /\ dirs \cap DOMAIN files = {}

\* A new name for a new node: an empty file, or a directory, which alone may
\* have a name that is taken.
AddFile(i) ==
    /\ files' = [j \in DOMAIN files \cup {i} |-> IF j = i THEN Whole(<<>>) ELSE files[j]]
    /\ UNCHANGED dirs
AddDirectory(i) == dirs' = dirs \cup {i} /\ UNCHANGED files

Add ==
    \E e \in entries' \ entries :
        /\ entries' = entries \cup {e}
        /\ e.dir \in dirs
        /\ e.node \in Nodes \ (dirs \cup DOMAIN files)
        /\ \/ AddFile(e.node) /\ \A f \in entries : f.dir = e.dir => f.name # e.name
           \/ AddDirectory(e.node)

\* The contents of a file are replaced, or torn.
Replace ==
    /\ \E i \in DOMAIN files, contents \in {Whole(data) : data \in Data} \cup {Torn} :
            files' = [files EXCEPT ![i] = contents]
    /\ UNCHANGED <<entries, dirs>>

Next == Add \/ Replace

Spec == Init /\ [][Next]_vars
=============================================================================
