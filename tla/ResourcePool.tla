---------------------------- MODULE ResourcePool ----------------------------
(***************************************************************************)
(* What Ext4Fs promises of block and inode numbers, without groups,        *)
(* bitmaps or counters: a pool per kind of resource from which a number    *)
(* is granted at most once, and which is reported exhausted only when      *)
(* every number of it is taken.                                            *)
(***************************************************************************)
CONSTANTS
    Kinds,      \* the kinds of resources
    Numbers(_)  \* the numbers that exist for a kind

VARIABLES
    taken,      \* [Kinds -> sets of numbers]: marked as in use
    reply       \* what the last request returned

vars == <<taken, reply>>

Silent == [outcome |-> "none"]
Granted(k, n) == [outcome |-> "ok", kind |-> k, number |-> n]
Exhausted(k) == [outcome |-> "no_free", kind |-> k]
Failed(k) == [outcome |-> "io_error", kind |-> k]

Init ==
    /\ \A k \in Kinds : taken[k] \subseteq Numbers(k)
    /\ reply = Silent

\* A request that succeeds: the number was nobody's.
Grant(k) ==
    \E n \in Numbers(k) \ taken[k] :
        /\ taken' = [taken EXCEPT ![k] = @ \cup {n}]
        /\ reply' = Granted(k, n)

\* A request that finds the pool empty.
Refuse(k) ==
    /\ Numbers(k) \subseteq taken[k]
    /\ reply' = Exhausted(k)
    /\ UNCHANGED taken

\* A request the device failed: at most one number is lost by it.
Fail(k) ==
    /\ \/ UNCHANGED taken
       \/ \E n \in Numbers(k) \ taken[k] :
              taken' = [taken EXCEPT ![k] = @ \cup {n}]
    /\ reply' = Failed(k)

\* Anything else (a synchronisation, a remount) leaves the pool alone.
Rest == reply' = Silent /\ UNCHANGED taken

Next == Rest \/ \E k \in Kinds : Grant(k) \/ Refuse(k) \/ Fail(k)

Spec == Init /\ [][Next]_vars
=============================================================================
