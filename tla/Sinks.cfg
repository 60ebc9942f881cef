SPECIFICATION Spec
CONSTANTS
    Step = {"a", "b", "c"}
    DependsOn <- Fork
    Order <- Order3
    Editions <- SameEdition
    FinalStep = "c"
    Approval = {"b"}
    Bare = {}
    Failing = {}
    PackBlocks = {}
    Parallel = FALSE
    MaxParallel = 1
    MaxFaults = 0
    MaxDamage = 0
INVARIANT QualityFollows
CHECK_DEADLOCK FALSE
