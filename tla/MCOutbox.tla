------------------------------ MODULE MCOutbox ------------------------------
(* Instances of Outbox for TLC.                                             *)
EXTENDS Outbox

CONSTANTS a1, a2, d1, d2, w1, w2, c1, c2

\* The second attempt is a test of an address that is still to be verified.
ToEach == [a \in Attempts |-> IF a = a1 THEN d1 ELSE d2]

InitWith(attempts, dests, newest, events) ==
    /\ att = [a \in Attempts |->
                [status |-> IF a \in attempts THEN "queued" ELSE "succeeded",
                 count |-> 0, due |-> 0, lease |-> 0]]
    /\ dst = [d \in Destinations |-> IF d \in dests THEN New(d) ELSE Gone]
    /\ sub = dests
    /\ given = [d \in Destinations |-> IF d \in sub THEN 1 ELSE 0]
    /\ accepted = [a \in Attempts |-> 0]
    /\ wk = [w \in Workers |-> Off]
    /\ tx = [c \in Clients |-> NoTx]
    /\ rot = NoRotation
    /\ key = newest
    /\ left = events

\* One attempt whose destination changes or whose worker crashes; two attempts that
\* nothing disturbs; destinations that change with nothing to deliver; one attempt whose
\* destination has a secret under the first of three keys, which is no longer kept.
Slices ==
    \/ InitWith({a1}, {d1}, 1, MaxEvents - 1)
    \/ InitWith(Attempts, Destinations, 1, 0)
    \/ InitWith({}, Destinations, 1, MaxEvents)
    \/ InitWith({a1}, {d1}, 3, 0)

SlicedSpec == Slices /\ [][Next]_vars /\ Fairness
=============================================================================
