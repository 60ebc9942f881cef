SPECIFICATION Spec
CONSTANTS
    Runs = {w, r}
    W = w
    NFiles = 2
    MaxPurges = 1
    MaxFaults = 1
    MaxCrashes = 1
    MaxEdits = 1
INVARIANTS NothingHalfWritten NoArtifactLost ListedReadable
PROPERTIES WritesAtomically StartupSucceeds
CHECK_DEADLOCK FALSE
