SPECIFICATION LiveSpec
CONSTANTS
    NumJobs = 2
    w1 = w1
    w2 = w2
    c1 = c1
    k1 = k1
    k2 = k2
    Workers = {w1, w2}
    Clients = {c1}
    Locks = {k1, k2}
    Lease = 1
    Stale = 1
    Timeout = 1
    BeatEvery = 1
    MaxClaims = 2
    AdminOps = {}
    TimelyBeats = TRUE
    QuickWatchdog = TRUE
    ShortStages = TRUE
INVARIANTS Exclusive
PROPERTIES Drains
