SPECIFICATION ServerSpec
CONSTANTS
  MaxBatch = 2
  MaxRows = 6
  MaxFaults = 0
  MaxRequests = 4
CHECK_DEADLOCK FALSE
INVARIANT JoinedFlushWrites
