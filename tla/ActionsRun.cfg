SPECIFICATION FairSpec
CONSTANTS
    Gates = {g1}
    Eligible = {g1}
    MaxStarts = 2
    MaxAttempts = 2
    MaxCrashes = 1
INVARIANTS
    DispatchedOnce
    VerdictIsOfItsRun
PROPERTIES
    CancellationHeld
    GateSettles
CHECK_DEADLOCK FALSE
