SPECIFICATION Spec
CONSTANTS
    o1 = o1
    r1 = r1
    r2 = r2
    r3 = r3
    x1 = x1
    n1 = n1
    na = na
    nb = nb
    s1 = s1
    s2 = s2
    Filings = {o1, r1}
    Form <- Forms13F
    Restatements = {r1}
    Quarters <- FixedQuarters
    AccTimes <- FixedTimes
    Routes <- FixedRoutes
    Orders <- FixedOrders
    Sessions = {s1, s2}
    Ops = {"detail", "parse", "resolve"}
PROPERTY DecisionStands
