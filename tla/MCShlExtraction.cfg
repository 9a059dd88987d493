CONSTANTS
  W = 2
  NumVars = 2
  MaxNodes = 3

INIT Init
NEXT Next

INVARIANTS
  ShlMapMatchesSpec
