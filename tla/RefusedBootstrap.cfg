SPECIFICATION Spec
CONSTANTS
    MaxGates = 2
    Branches = {main, dev}
    Main = main
    Bases = {main}
    Protections <- OneOrOther
    Planes <- Both
    Scans = {s1, s2}
    Findings <- High
    Rules <- Shipped
    Presses = {p}
    MaxHead = 2
INVARIANT
    NoBaselineIsNoError
SYMMETRY Symmetry
CHECK_DEADLOCK FALSE
