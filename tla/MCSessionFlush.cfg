CONSTANTS
  Shells = {s1}
  IdleTicks = 1
  MaxTicks = 2
  MaxLines = 2
  MaxFails = 0
  MaxStarts = 1
SPECIFICATION Spec
INVARIANTS
  FinalFlushComplete
CHECK_DEADLOCK FALSE
