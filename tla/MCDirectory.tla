---------------------------- MODULE MCDirectory -----------------------------
(* Instances of Directory for TLC: one-block directories with every layout   *)
(* of their entries.                                                         *)
EXTENDS Directory

CONSTANTS dot, dotdot, a, long, wide

MCNames == {dot, dotdot, a, long, wide}

\* "." and names of up to 4 characters take 3 words, and a name that leaves no
\* room beside it in its block 11.
MCNameWords == [n \in MCNames |-> IF n = wide THEN 11 ELSE IF n = long THEN 4 ELSE 3]

\* What may follow "." and "..": up to two entries, in use or deleted.  Every
\* record reaches to the next entry or the end of the block.
Slots == {s \in [at : 6..(BlockWords - 3), ino : {Deleted, 2, 3}, name : {a, long}] :
            (s.ino = 2 <=> s.name = a) \/ s.ino = Deleted}
Tails ==
    {{}} \cup {{s} : s \in Slots}
    \cup {{s, t} : s \in Slots, t \in Slots}

Fits(tail) ==
    /\ \A s, t \in tail :
        /\ s # t => s.name # t.name
        /\ s.at < t.at => s.at + MCNameWords[s.name] <= t.at
        /\ s.at = t.at => s = t
    /\ \A s \in tail : s.at + MCNameWords[s.name] <= BlockWords

Layout(tail) ==
    LET starts == {3, BlockWords} \cup {s.at : s \in tail}
        reach(o) == Min({p \in starts : p > o}) - o
    IN  [o \in {0, 3} \cup {s.at : s \in tail} |->
            IF o = 0 THEN Entry(1, 3, dot)
            ELSE IF o = 3 THEN Entry(1, reach(3), dotdot)
            ELSE LET s == CHOOSE s \in tail : s.at = o IN Entry(s.ino, reach(o), s.name)]

MCImages == {<<Layout(tail)>> : tail \in {t \in Tails : Fits(t)}}
=============================================================================
