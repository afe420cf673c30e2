CONSTANTS
  Clients = {shell}
  Runner = runner
  Shell = shell
  Kinds = {"subprocess"}
  MaxCtl = 0
  MaxOut = 0
  MaxIn = 1
SPECIFICATION ShellFairSpec
PROPERTIES
  FailedStartReturns
CHECK_DEADLOCK FALSE
