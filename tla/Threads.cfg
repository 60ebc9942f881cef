SPECIFICATION FairSpec
CONSTANTS
    r1 = r1
    r2 = r2
    j1 = j1
    j2 = j2
    c1 = c1
    c2 = c2
    Run = {r1}
    Job = {j1, j2}
    Client = {c1, c2}
    Worker = Worker
    NoRun = NoRun
    NoJob = NoJob
    NoProc = NoProc
    Requests <- AllRequests
    Failing = {r1}
    Legacy = {}
    MaxFaults = 0
    MaxRequests = 3
    MaxStarts = 1
INVARIANT TypeOK
INVARIANT SectionExclusive
INVARIANT NoLostWakeUp
INVARIANT TerminalRunClosed
PROPERTY TerminalNeverReopened
PROPERTY ApprovalHonoured
PROPERTY ShutdownEnds
CHECK_DEADLOCK FALSE
