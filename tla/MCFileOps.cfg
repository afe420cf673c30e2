CONSTANTS
  Actors = {"a1", "a2"}
  Names <- MCNames
  MaxDepth = 3
  MaxLen = 3
  BindAt <- M
  BindTo <- D
  Trees <- MCTrees
  Calls <- MCCalls
  MaxCalls = 2
  MaxFails = 1
SPECIFICATION Spec
INVARIANTS
  TypeOK
  NothingLost
PROPERTIES
  WholeEffect
  OnlyEditsWrittenBack
CHECK_DEADLOCK FALSE
