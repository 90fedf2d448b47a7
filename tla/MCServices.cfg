SPECIFICATION MCFairSpec
CHECK_DEADLOCK FALSE
CONSTANTS
    Items = {1}
    Workers = {"a", "b"}
    CanRun <- MCCanRun
    Resources = {}
    Conflict = {}
    Uses <- MCUses
    ReadOnly = {}
    MaxAttempts <- MCMaxAttempts
    MaximumAttempts = 2
    LeaseSeconds = {1}
    Claims <- MCClaims
    Receipts <- MCReceipts
    GateFits <- MCGateFits
    None = None
    KeyOf <- MCKeyOf
    LeaseOf <- MCLeaseOf
    Names = {"a", "b"}
    MaxDepth = 3
    Callers = {1, 2, 3}
    ProcessOf <- MCProcessOf
    Runners = {"r", "s", "t"}
    Repetitions = 2
    MaxRounds = 3
    MaxTokens = 2
    WallTime = 3
    Ceiling = 2
    PlateauRounds = 2
    ZombieAfter = 2
    Target = 1
    MaxClock = 3
    Candidates = {"c"}
    Skill <- MCSkill
    Proposer <- MCProposer
    People = {"p", "e", "v", "a"}
    Measures <- MCMeasures
    Policies <- MCPolicies
    Scale = 3
    MaxEvaluations = 1
    MaxPlans = 3
    Importers = {"packet", "first", "again", "other"}
    Brings <- Brought
    RoleOf <- MCRoleOf
    MaxRevision = 2
    Prompt = 1
    PipeSize = 1
    Chunk = 2
    Limit = 2
    MaxOutput <- Printed
    Answers = {1, 2}
    Timeout = 1
INVARIANTS
    CompletedOnLedger
    EffectRunsOnce
    RelationsAreExact
    AppliedExactlyOnce
    OneTrueReport
    AnswersAreWhole
    ImportsAreKept
    SkillsRestOnEvidence
    FindingsAreDisposedOf
PROPERTIES
    AdmittedWithinBounds
    DispatchEnds
    ExecutionEnds
