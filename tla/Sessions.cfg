SPECIFICATION Spec
CONSTANTS
    Procs = {p1, p2}
    MaxTokens = 3
    MaxFaults = 1
    MaxCommands = 4
    MaxExpiries = 1
SYMMETRY ProcSymmetry
CHECK_DEADLOCK FALSE
INVARIANT TypeOK ExecutedAtMostOnce ReloginOnlyForCause OneLiveToken ApplicationKnown
