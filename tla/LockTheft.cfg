SPECIFICATION Spec
CONSTANTS
    r1 = r1
    r2 = r2
    j1 = j1
    j2 = j2
    c1 = c1
    c2 = c2
    Run = {r1}
    Job = {j1}
    Client = {c1, c2}
    Worker = Worker
    NoRun = NoRun
    NoJob = NoJob
    NoProc = NoProc
    Requests = {"submit", "approve", "cancel"}
    Failing = {}
    Legacy = {}
    MaxFaults = 1
    MaxRequests = 3
    MaxStarts = 1
SYMMETRY ClientSymmetry
INVARIANT MutualExclusion
CHECK_DEADLOCK FALSE
