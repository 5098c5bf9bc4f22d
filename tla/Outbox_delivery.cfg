SPECIFICATION SlicedSpec
CONSTANTS
    a1 = a1
    a2 = a2
    d1 = d1
    d2 = d2
    w1 = w1
    w2 = w2
    c1 = c1
    c2 = c2
    Workers = {w1, w2}
    Clients = {c1, c2}
    Attempts = {a1, a2}
    Destinations = {d1, d2}
    To <- ToEach
    Tests = {a2}
    EmailDests = {d2}
    MaxAttempts = 2
    LostAnswers = FALSE
    SlowCalls = TRUE
    Lease = 1
    Deferral = 2
    MaxLag = 2
    MaxEvents = 2
INVARIANTS OneSender AcceptedOnce SecretIsLatest
PROPERTY Settles
