CONSTANTS
  MaxTyped = 4
  BufSize = 3
  Room = 3
  MaxSize = 2
SPECIFICATION Spec
INVARIANTS
  SentIsMeant
  NothingHeldBack
PROPERTIES
  SessionEnds
  ChangeArrives
CHECK_DEADLOCK FALSE
