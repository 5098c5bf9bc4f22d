------------------------- MODULE MCFilingAuthority -------------------------
(* Instances of FilingAuthority for TLC.                                    *)
EXTENDS FilingAuthority, TLC

CONSTANTS o1, r1, r2, r3, x1, n1, na, nb, s1, s2

Forms13F ==
    [f \in Filings |-> CASE f = o1 -> "13F-HR" [] f \in {r1, r2, r3, x1} -> "13F-HR/A"
                         [] f = n1 -> "13F-NT" [] f \in {na, nb} -> "13F-NT/A"]

\* Two restatements of a report, or two alone that may tie; a notice with two
\* amendments, or one and beside a report; an amendment that adds holdings.
SerialQuarters == {{o1, r1, r2}, {r1, r3}, {o1, n1, na}, {n1, na, nb}, {o1, x1}}
SerialTimes == o1 :> {1} @@ r1 :> {2} @@ r2 :> {0, 3} @@ r3 :> {0, 2, 3} @@ x1 :> {2}
               @@ n1 :> {0, 1, 2} @@ na :> {3} @@ nb :> {3, 4}

\* The notice loses its quarter and finds it again; amendments may look stale.
SerialRoutes ==
    [f \in Filings |-> CASE f = n1 -> {"invalid", "unrouted", "routed"}
                         [] f \in {x1, na} -> {"routed", "stale"}
                         [] OTHER -> {"routed"}]

SerialOrders ==
    [f \in Filings |-> CASE f = x1 -> Decisions [] f = r3 -> {"rejected"} [] OTHER -> {}]

\* In the other instances a document states everything, and the same every time.
FixedQuarters == {Filings}
FixedTimes == [f \in Filings |-> IF f = r1 THEN {2} ELSE IF f = r2 THEN {3} ELSE {1}]
FixedRoutes == [f \in Filings |-> {"routed"}]
FixedOrders == [f \in Filings |-> IF f = r1 THEN {"applied", "rejected"} ELSE {}]
=============================================================================
