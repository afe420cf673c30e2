CONSTANTS
  Shells = {s1, s2}
  IdleTicks = 1
  MaxTicks = 2
  MaxLines = 2
  MaxFails = 1
  MaxStarts = 3
SPECIFICATION FairSpec
INVARIANTS
  TypeOK
  MarkedIsDirty
  FlushAtExit
PROPERTIES
  EventuallyRecorded
CHECK_DEADLOCK FALSE
