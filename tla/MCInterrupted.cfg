SPECIFICATION DeploymentSpec
CONSTANTS
  c1 = c1
  c2 = c2
  Clients = {c1, c2}
  Managed = {"core"}
  Data = {"notes"}
  Derived = {"index"}
  StateFile = "state"
  Contents = {"core 0", "core 1", "notes 0", "notes 2", "index 1", "edited"}
  Absent = Absent
  Foreign = "edited"
  Releases = {"r1", "r2"}
  Release0 = "r0"
  Accepts <- MCAccepts
  Manifest <- MCManifest
  Migrate <- MCMigrate
  Rebuild <- MCRebuild
  Tree0 <- MCTree0
  OperatorWaits = TRUE
  MaxEvents = 1
  MaxEdits = 0
  Records = {"r", "s"}
  Putters = {"c"}
  MaxFileRevision = 3
  Names = {1, 2}
  Transfers = {c1, c2}
  Given <- MCGiven
  MaxContent = 3
  Sources = {s}
  Olds = {"o", "q"}
  PlaceOf <- MCPlaceOf
  Excluded = {"q"}
  Texts = {1, 2}
  Tools = {c1, c2}
  MaxMishaps = 1
SYMMETRY Symmetry
INVARIANT
  InterruptedIsRecoverable
CHECK_DEADLOCK FALSE
