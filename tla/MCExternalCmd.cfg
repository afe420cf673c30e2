CONSTANTS
  Clients = {shell, c1}
  Runner = runner
  Shell = shell
  Kinds = {"subprocess", "inproc"}
  MaxCtl = 1
  MaxOut = 1
  MaxIn = 2
SPECIFICATION ShellFairSpec
INVARIANTS
  ShellTypeOK
  BytesAreTheOutput
  ErrorValExplained
PROPERTIES
  ExitEnds
  KillEnds
  ReturnsUnlessUnread
CHECK_DEADLOCK FALSE
