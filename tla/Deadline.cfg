SPECIFICATION Spec
CONSTANTS
    a = a
    b = b
    p = p
    q = q
    Callers = {b}
    Providers = {p}
    Route <- OneCandidate
    Limit = 1
    Threshold = 2
    Cooldown = 2
    Timeout = 2
    AdapterTimeout = 2
    MaxAttempts = 2
    Backoff = 1
    MaxContinuations = 1
    RetryLimit = 1
INVARIANT OneDeadline
