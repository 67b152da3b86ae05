SPECIFICATION Spec
CONSTANTS
    Gates = {g1}
    Eligible = {g1}
    MaxStarts = 1
    MaxAttempts = 1
    MaxCrashes = 0
PROPERTIES
    VerdictStands
CHECK_DEADLOCK FALSE
