---------------------------- MODULE MCStockFacts ----------------------------
(* Instances of StockFacts for TLC.                                         *)
EXTENDS StockFacts, TLC

CONSTANTS u1, u2, x, y, c1, c2, p1, p2, p3

\* The second document may be of the first one's date, or of a later one.
TwoDates == 1 :> {2} @@ 2 :> {1, 2}

Symmetry == Permutations(Clis) \cup Permutations(Ops)

\* The first document has been parsed n times, the upload of the second failed.
DocsAfter(n, retired) ==
    1 :> [parse |-> "parsed", rev |-> n, date |-> 2, retired |-> retired]
    @@ 2 :> [parse |-> "failed", rev |-> 0, date |-> 0, retired |-> TRUE]
OldFact(i) == [doc |-> 1, rev |-> i, date |-> 2, val |-> x, cur |-> FALSE]

LineageInitWith(pending, time) ==
    /\ clock = time
    /\ runs = {}
    /\ op = [o \in Ops |-> [done |-> o \in pending, rests |-> {}, avail |-> 0]]
    /\ pubs = {}
    /\ cli = [c \in Clis |-> Off]

\* No process of the command line has the time to start.
UsersAlone == FactsInit /\ LineageInitWith({}, MaxTime)

\* Every document is retired, and no fact can be appended.
CliAlone ==
    /\ docs = DocsAfter(MaxFacts, TRUE)
    /\ facts = [i \in 1..MaxFacts |-> OldFact(i)]
    /\ calc = {}
    /\ tx = [s \in Users |-> Idle]
    /\ LineageInit

\* One document has a current fact and may be parsed once more, and there is time to
\* finish an operation that is pending.
Together ==
    /\ docs = DocsAfter(MaxFacts - 1, FALSE)
    /\ facts = [i \in 1..MaxFacts-1 |-> [OldFact(i) EXCEPT !.cur = i = MaxFacts - 1]]
    /\ calc = {MaxFacts - 1}
    /\ tx = [s \in Users |-> Idle]
    /\ LineageInitWith({p1}, MaxTime - 2)

InitialStates == (UsersAlone \/ CliAlone \/ Together) /\ holder = Nobody

MCSpec == InitialStates /\ [][StockNext]_stockVars
=============================================================================
