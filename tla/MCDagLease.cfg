SPECIFICATION ExecutorsSpec
CHECK_DEADLOCK FALSE
CONSTANTS
    Items <- DagItems
    Workers <- DagSteps
    CanRun <- DagCanRun
    Resources <- DagResources
    Conflict <- DagConflict
    Uses <- DagUses
    ReadOnly <- DagReadOnly
    MaxAttempts <- DagMaxAttempts
    MaximumAttempts = 2
    LeaseSeconds = {1}
    Claims = {}
    Receipts = {}
    GateFits = {}
    None = None
    Clients = {"x"}
    Deliveries = {1}
    Works = {"base", "top"}
    DependsOn <- MCDependsOn
    BoundTo <- MCBoundTo
    MaxRevision = 1
    Steps <- DagSteps
    StepDependsOn <- DagDependsOn
    MaxConcurrency = 2
    Seconds = 1
    MaxDispatches = 1
    Executors = {"x"}
INVARIANT OnlyOwnStepLeased
