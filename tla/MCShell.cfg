SPECIFICATION Spec
CONSTANTS
  Runes <- MCRunes
  Letters <- MCLetters
  Words <- MCWords
  Executables <- MCExecutables
  PathNames <- MCPathNames
  Jobs = {"j1"}
  MaxCallDepth = 2
  MaxSourceDepth = 2
  Files <- MCFiles
  Config <- MCConfig
  Protected = {"jobs", "local"}
  Mounts = {"jobs", "local", "host"}
  Scenes <- MCScenes
  Programs <- MCPrograms
CHECK_DEADLOCK FALSE
INVARIANTS
  TypeOK
  OneAtATime
  WrittenBackOnce
  PutBack
PROPERTIES
  TabKeepsText
  ResultShown
  CancelledEnds
