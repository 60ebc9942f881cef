SPECIFICATION FairSpec
CONSTANTS
    Step = {"a", "b", "c", "d"}
    DependsOn <- Join
    Order <- Order4
    Editions <- JoinEditions
    FinalStep = "d"
    Approval = {"d"}
    Bare = {}
    Failing = {"a", "c"}
    PackBlocks = {5}
    Parallel = TRUE
    MaxParallel = 2
    MaxFaults = 2
    MaxDamage = 1
INVARIANT TypeOK
INVARIANT ConsistentLineage
INVARIANT ApprovedBeforeExecution
INVARIANT CheckpointComplete
INVARIANT FirstFailureIsReal
INVARIANT PackEvalOnce
INVARIANT QualityFollows
PROPERTY RunEnds
PROPERTY CheckpointsKept
CHECK_DEADLOCK FALSE
