SPECIFICATION Spec
CONSTANTS
    a = a
    b = b
    p = p
    q = q
    Callers = {a, b}
    Providers = {p, q}
    Route <- MCRoute
    Limit = 1
    Threshold = 2
    Cooldown = 2
    Timeout = 2
    AdapterTimeout = 2
    MaxAttempts = 2
    Backoff = 1
    MaxContinuations = 1
    RetryLimit = 1
INVARIANTS PermitsBalanced CallBounded BreakerConsistent
PROPERTY CallEnds
