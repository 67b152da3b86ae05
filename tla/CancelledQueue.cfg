SPECIFICATION Spec
CONSTANTS
    Scans = {s1}
    Gates = {s1}
    Spent = {}
    MaxConcurrent = 1
    MaxRestarts <- Restarts
    MaxEnds = 1
PROPERTY CancelledGateStartsNothing
CHECK_DEADLOCK FALSE
