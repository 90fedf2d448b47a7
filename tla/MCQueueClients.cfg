SPECIFICATION MCSpec
CHECK_DEADLOCK FALSE
CONSTANTS
    Items <- DagItems
    Workers <- DagSteps
    CanRun <- DagCanRun
    Resources <- DagResources
    Conflict <- DagConflict
    Uses <- DagUses
    ReadOnly <- DagReadOnly
    MaxAttempts <- DagMaxAttempts
    MaximumAttempts = 2
    LeaseSeconds = {1}
    Claims = {}
    Receipts = {}
    GateFits = {}
    None = None
    Clients = {"x"}
    Deliveries = {1, 2}
    Works = {"base", "top"}
    DependsOn <- MCDependsOn
    BoundTo <- MCBoundTo
    MaxRevision = 2
    Steps <- DagSteps
    StepDependsOn <- DagDependsOn
    MaxConcurrency = 2
    Seconds = 1
    MaxDispatches = 2
    x1 = x1
    x2 = x2
    Executors = {x1, x2}
SYMMETRY Symmetry
INVARIANTS
    AppliedOnce
    ClosedOnCompletedWork
    HandlersAreExclusive
    ResearchIsOneCall
