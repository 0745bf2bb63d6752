SPECIFICATION Spec
CONSTANTS
  Imports = {A}
  Shipped = Shipped
  Corpus <- TwoCorpora
  Policies <- TwoPolicies
  Speeds = {6, 30}
  Scenarios <- OneScenario
  None = None
  MaxOps = 2
  MaxReloads = 1
  MaxRefusals = 1
CHECK_DEADLOCK FALSE
INVARIANTS SessionIsSound StorageCatchesUp
PROPERTIES RestoreReplaysTheSavedRun PlaybackEnds
