SPECIFICATION FairSpec
CONSTANTS
    Requests = {r1, r2, r3}
    Addresses = {a1, a2}
    PerAddress = 1
    ReadWaiters = 1
    MaxReads = 1
    MaxHashes = 1
    HashWaiters = 1
    MaxKeys = 1
INVARIANTS
    BudgetsExact
PROPERTIES
    NoOvertaking
    ShedOnlyWhenFull
    EveryRequestAnswered
