SPECIFICATION Spec
CONSTANTS
  Workers = {w1, w2}
  Size = 2
  HasDisk = TRUE
  Requests <- MCRequests
  MaxCalls = 3
  MaxCrashes = 1
INVARIANTS AcknowledgedIsOnDisk ReadsSeeAcknowledged
PROPERTY ImplementsDurable
CHECK_DEADLOCK FALSE
