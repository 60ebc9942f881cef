SPECIFICATION Spec
CHECK_DEADLOCK FALSE
CONSTANTS
    write = write
    fetch = fetch
    x = x
    cheap = cheap
    dear = dear
    Tools = {write, fetch}
    Registered = {write, fetch}
    AllowedTools = {write, fetch}
    ToolPermissions = {write, fetch}
    SideEffects = {write}
    ApprovedEffects = {write}
    RealWeb = {fetch}
    ConfirmedWeb = {}
    Arguments = {x}
    Candidates = {cheap, dear}
    InputPrice <- MCInput
    OutputPrice <- MCOutput
    MaxSteps = 3
    MaxToolCalls = 2
    MaxTotalTokens = 17
    MaxRepeated = 1
    MaxCost = 20
    RequestMaxTokens = 3
    PromptTokens = 1
    ToolTokens = 1
    MaxObservation = 1
    Continuations = 1
    Reports = {1, 3}
    ContinuedReports = {2}
    MaxBatch = 2
INVARIANTS FinishedHonest ToolBudgetKept SpendingKept
