CONSTANTS
  Clients = {c1, c2}
  Runner = runner
  Kinds = {"subprocess"}
  MaxCtl = 1
  MaxOut = 0
SPECIFICATION Spec
INVARIANTS
  WaitReturnsFinal
CHECK_DEADLOCK FALSE
