CONSTANTS
  Readers = {r1, r2}
  MaxLen = 2
  MaxReads = 3
SPECIFICATION FairSpec
INVARIANTS
  TypeOK
  NoMissedWakeup
PROPERTIES
  ImplementsTail
  ReadReturns
CHECK_DEADLOCK FALSE
