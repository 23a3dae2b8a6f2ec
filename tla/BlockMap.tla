------------------------------ MODULE BlockMap ------------------------------
(***************************************************************************)
(* What the blocks of a file or directory are to its users, without nodes  *)
(* and extents: a map from logical to physical blocks that grows at its    *)
(* end, by blocks that nothing else uses, or starts over.                  *)
(***************************************************************************)
EXTENDS Integers

VARIABLES
    map,    \* a set of pairs of a logical and a physical block
    spare,  \* the physical blocks that are nobody's
    partial \* there are blocks that the map leaves out

vars == <<map, spare, partial>>

\* One pair more, the next logical block after the last one of the map, and
\* after those that it leaves out.
Follows(n) ==
    /\ \A p \in map : p[1] < n
    /\ n = 0 \/ partial \/ \E p \in map : p[1] = n - 1
Extend(b) ==
    /\ \E pair \in map' : pair[2] = b /\ Follows(pair[1]) /\ map' = map \cup {pair}
    /\ UNCHANGED partial

\* Start over, with a block or with none.
StartOver(b) == map' = {<<0, b>>} /\ ~partial'
Empty == map' = {} /\ ~partial'

\* One block is taken, and put at the end, or leaked.
TakeOne ==
    \E b \in spare :
        /\ spare' = spare \ {b}
        /\ Extend(b) \/ StartOver(b) \/ UNCHANGED <<map, partial>>

Init ==
    /\ \A p \in map : p[1] \in Nat
    /\ \A p, q \in map : (p[1] = q[1] \/ p[2] = q[2]) => p = q
    /\ \A p \in map : p[2] \notin spare
    /\ partial \in BOOLEAN

Next == TakeOne \/ (Empty /\ UNCHANGED spare)

Spec == Init /\ [][Next]_vars
=============================================================================
