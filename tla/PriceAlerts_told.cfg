SPECIFICATION SlicedSpec
CONSTANTS
    Keys = {k1, k2, k3}
    Producers = {p1, p2}
    Replicas = {r1, r2}
    Week = 2
    Straddling = FALSE
    SlowEdits = FALSE
    MaxDays = 3
    MaxBegun = 5
    Fetchers = {f1, f2}
    Closes = {1, 3}
    Values = {4, 5}
    Margins = {0, 2}
    Hysteresis = 1
    Cooldown = 2
    Throttle = 1
    SessionLength = 2
    MaxNow = 4
    MaxRows = 3
    MaxChanges = 1
CHECK_DEADLOCK FALSE
INVARIANTS TypeOK ToldOnce WithinReach OnlyMarketCrosses
PROPERTIES NoSilentCrossing FollowsMarket CaughtUp
