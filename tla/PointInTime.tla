---------------------------- MODULE PointInTime ----------------------------
(***************************************************************************)
(* A record of evidence that can be asked what was known at a time: the    *)
(* answer depends on what was known then and on nothing else, so that it   *)
(* is the same whenever the question is asked again.                       *)
(***************************************************************************)
EXTENDS Naturals

CONSTANT Choice  \* what is answered from each set of evidence, a function

VARIABLES
    learned,  \* pairs of a piece of evidence and the time it became known
    answers   \* the answers given, and the times they are about

vars == <<learned, answers>>

KnownAt(t) == {p[1] : p \in {q \in learned : ~(t < q[2])}}

Init == learned = {} /\ answers = {}

\* What becomes known is later than every time an answer was given about.
Learn ==
    /\ learned \subseteq learned'
    /\ \A p \in learned' \ learned : \A a \in answers : a.at < p[2]
    /\ UNCHANGED answers

Answer ==
    /\ answers \subseteq answers'
    /\ \A a \in answers' \ answers : a.says = Choice[KnownAt(a.at)]
    /\ UNCHANGED learned

Next == Learn \/ Answer

Spec == Init /\ [][Next]_vars

-----------------------------------------------------------------------------
\* Every answer is what would be answered now.
Reproducible == \A a \in answers : a.says = Choice[KnownAt(a.at)]
=============================================================================
