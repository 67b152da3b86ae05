SPECIFICATION MCSpec
CONSTANTS
    Scans = {s1, s2, s3}
    Gates = {s1}
    Spent = {s3}
    MaxConcurrent = 1
    MaxRestarts <- Restarts
    MaxEnds = 2
INVARIANTS
    OneWorker
    CapacityHeld
    DecisionNeedsScan
PROPERTIES
    ManagedEndsForGood
    GateEnds
    CancelledScanStays
    ScanSettles
CHECK_DEADLOCK FALSE
