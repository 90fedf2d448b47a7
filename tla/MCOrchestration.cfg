SPECIFICATION Spec
CONSTANTS
  c1 = c1
  c2 = c2
  Clients = {c1, c2}
  Steps = {"build", "test"}
  DependsOn <- MCDependsOn
  Inputs <- MCInputs
  MaxRevision = 5
  MaxItemRevision = 2
SYMMETRY Symmetry
VIEW View
INVARIANTS
  HistoryIsOnRecord
  CompletionIsAttested
PROPERTIES
  CompletedStepsAreKept
CHECK_DEADLOCK FALSE
