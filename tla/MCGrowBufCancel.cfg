CONSTANTS
  Readers = {r1, r2}
  MaxLen = 1
  MaxReads = 2
SPECIFICATION FairSpec
PROPERTIES
  CancelledReadReturns
CHECK_DEADLOCK FALSE
