SPECIFICATION LanguageSpec
CONSTANTS
  Idents <- MCIdents
  Numbers = {"1"}
  Natives = {"9ed"}
  Leaves <- MCLeaves
  Beside <- MCBeside
  Operators = {"&&", "-", "/"}
  Styles <- MCStyles
  MaxNodes = 4
  Jobs = {j1, j2}
  Elements <- MCElements
  MaxLength = 3
  MaxStages = 2
  MaxMoves = 2
  MaxInt = 7
  Exact = 4
  MaxRangeLen = 4
INVARIANTS
  RoundTrip
  Explained
CHECK_DEADLOCK FALSE
