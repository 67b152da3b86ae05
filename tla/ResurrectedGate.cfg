SPECIFICATION Spec
CONSTANTS
    Scans = {s1}
    Gates = {s1}
    Spent = {}
    MaxConcurrent = 1
    MaxRestarts <- Restarts
    MaxEnds = 0
PROPERTY CancelledGateStays
CHECK_DEADLOCK FALSE
