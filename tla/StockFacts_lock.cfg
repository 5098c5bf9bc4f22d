SPECIFICATION MCSpec
CONSTANTS
    u1 = u1
    u2 = u2
    x = x
    y = y
    c1 = c1
    c2 = c2
    p1 = p1
    p2 = p2
    p3 = p3
    Docs = {1, 2}
    Dates <- TwoDates
    Values = {x, y}
    Users = {u1, u2}
    MaxFacts = 3
    Clis = {c1, c2}
    Ops = {p1, p2, p3}
    Filings = {1, 2}
    Amendments = {2}
    Contents = {"all", "part"}
    Readable = {"all"}
    MaxTime = 5
SYMMETRY Symmetry
INVARIANTS CurrentIsLatest DisagreementShown CalculatedRests WholeLineage
PROPERTY PastIsKept
CHECK_DEADLOCK FALSE
