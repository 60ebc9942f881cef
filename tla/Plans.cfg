SPECIFICATION Spec
CHECK_DEADLOCK FALSE
CONSTANTS
    a = a
    b = b
    c = c
    writer = writer
    tester = tester
    doc = doc
    patch = patch
    NoStep = none
    StepNames <- MCNames
    Shapes <- MCShapes
    Packs <- MCPacks
    Selections <- MCSelections
    PlanEvals <- MCPlanEvals
    Types <- MCTypes
INVARIANTS GraphSearchExact ScheduleSound RecoveryStable ReceiptStable
PROPERTY GatesKept
