CONSTANTS
  Clients = {c1, c2}
  Runner = runner
  Kinds = {"subprocess", "inproc"}
  MaxCtl = 2
  MaxOut = 1
SYMMETRY Symmetry
SPECIFICATION Spec
INVARIANTS
  TypeOK
  EndsOnce
  NoLiveProcess
  FinalUnlessOverwritten
  EventsTellTheEnd
  OutputComplete
  EndStateExplained
PROPERTIES
  ImplementsLife
CHECK_DEADLOCK FALSE
