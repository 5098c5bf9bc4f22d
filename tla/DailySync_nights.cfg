SPECIFICATION NightsSpec
CONSTANTS
    a = a
    P = P
    p1 = p1
    fri = fri
    sat = sat
    None = None
    Accessions = {a}
    Enrichments = {}
    Checks = {}
    Parents = {P}
    Schedulers = {p1}
    MaxAttempts = 1
    MaxOthers = 3
    MaxFollowed = 2
    Dates = {fri, sat}
    Weekends = {sat}
    Listed <- FridayLists
    MaxSyncAttempts = 2
    MaxRequests = 2
INVARIANTS SyncTypeOK NamedEnds
PROPERTIES OwedIsTried DatesSettle NamedIsTried
