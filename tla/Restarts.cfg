SPECIFICATION FairSpec
CONSTANTS
    r1 = r1
    r2 = r2
    j1 = j1
    j2 = j2
    c1 = c1
    c2 = c2
    Run = {r1, r2}
    Job = {j1}
    Client = {c1, c2}
    Worker = Worker
    NoRun = NoRun
    NoJob = NoJob
    NoProc = NoProc
    Requests = {"submit", "start", "bgapprove", "cancel"}
    Failing = {r1}
    Legacy = {r2}
    MaxFaults = 2
    MaxRequests = 2
    MaxStarts = 2
INVARIANT WakeUpTokens
INVARIANT OneActiveSegment
INVARIANT RecoveryComplete
PROPERTY ScheduledRunSettles
CHECK_DEADLOCK FALSE
