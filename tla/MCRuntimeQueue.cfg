SPECIFICATION FairSpec
CHECK_DEADLOCK FALSE
CONSTANTS
    Items = {1, 2, 3}
    Workers = {"w1", "w2"}
    CanRun <- MCCanRun
    Resources <- MCResources
    Conflict <- MCConflict
    Uses <- MCUses
    ReadOnly = {1, 3}
    MaxAttempts <- MCMaxAttempts
    MaximumAttempts = 2
    LeaseSeconds = {1, 2}
    Claims = {"c1", "c2"}
    Receipts = {"r1", "r2"}
    GateFits <- MCGateFits
    None = None
INVARIANTS
    NoConflictingExecution
PROPERTIES
    ImplementsLeasedWork
    QueueDrains
