SPECIFICATION Spec
CONSTANTS
    Runs = {w}
    W = w
    NFiles = 2
    MaxPurges = 1
    MaxFaults = 0
    MaxCrashes = 1
    MaxEdits = 0
INVARIANT MixedStateRolledBack
CHECK_DEADLOCK FALSE
