SPECIFICATION FairSpec
CONSTANTS
  TabCount = 2
  MaxBuffered = 2
  MaxQueued = 3
  Faults <- FaultKinds
  MayClose = TRUE
  MaxPushes = 4
  MaxFaults = 2
CHECK_DEADLOCK FALSE
INVARIANTS RowsArriveInOrder
PROPERTIES ImplementsWriteBehind EventuallySent
