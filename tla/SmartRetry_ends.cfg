SPECIFICATION Spec
CONSTANTS
    a = a
    e = e
    P = P
    p1 = p1
    p2 = p2
    None = None
    Accessions = {a}
    Enrichments = {e}
    Checks = {}
    Parents = {P}
    Schedulers = {p1}
    MaxAttempts = 1
    MaxOthers = 2
    MaxFollowed = 2
INVARIANT RetriesEnd
