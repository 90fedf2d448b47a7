SPECIFICATION GraphSpec
CONSTANTS
    Works = {"u", "v"}
    Clients = {c1, c2}
    Statuses = {"active", "completed"}
    InitialGraph <- MCInitialGraph
    MaxRevision = 2
    Files = {1, 2}
    Roots = {1, 2}
    Texts = {"a", "secret"}
    Unindexed = {"secret"}
    Indexers = {c1, c2}
    MaxScans = 2
    MaxEdits = 1
    Items = 2
    Embedders = {"x"}
    MaxItemRevision = 3
    Memories = {1, 2, 3}
    Contents = {"x", "y"}
    Presenters = {c1, c2}
    MaxMemoryRevision = 3
    Documents <- MCDocuments
    MaxDecisions = 5
    Meaning <- MCMeaning
    Ages <- MCAges
    Times = {1}
    StaleAfter = 1
    Batch <- MCBatch
    Importers = {c1, c2}
    Contested = {"u"}
    MaxImportRevision = 2
    Callers = {c1, c2}
    Directories = {1, 2}
    Versions = {1, 2}
    Technologies <- Version
    Modules <- Version
    MaxCalls = 2
    MaxSourceEdits = 1
    Models = 2
    Entries <- MCEntries
    Bound <- MCBound
    DefaultId = "A"
    NoId = "none"
    Plans <- MCPlans
    Checkers = {c1, c2}
    Threshold = 2
    Cooldown = 1
    MaxAge = 1
    MaxClock = 2
    MaxChanges = 1
    MaxResults = 4
CHECK_DEADLOCK FALSE
INVARIANT GraphIsAcyclic
