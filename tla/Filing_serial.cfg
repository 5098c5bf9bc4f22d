SPECIFICATION Spec
CONSTANTS
    o1 = o1
    r1 = r1
    r2 = r2
    r3 = r3
    x1 = x1
    n1 = n1
    na = na
    nb = nb
    s1 = s1
    s2 = s2
    Filings = {o1, r1, r2, r3, x1, n1, na, nb}
    Form <- Forms13F
    Restatements = {r1, r2, r3}
    Quarters <- SerialQuarters
    AccTimes <- SerialTimes
    Routes <- SerialRoutes
    Orders <- SerialOrders
    Sessions = {s1}
    Ops = {"index", "route", "detail", "bulk", "parse", "controlled", "loop", "resolve", "sweep"}
INVARIANTS TypeOK SettledServes DisputesFade IndexNeverFires
PROPERTIES SweepSettles DecisionStands
