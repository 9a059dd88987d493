CONSTANTS
  W = 2
  NumVars = 2
  MaxAdds = 4
  Inputs <- MCInputs

INIT Init
NEXT Next

INVARIANTS
  TypeOK
  StoredAreFacts
  NoContractAbort
  SimplifyExprSound

PROPERTIES
  PathConditionRefined

\* An execution branch stops: the bound on additions ends every behaviour.
CHECK_DEADLOCK FALSE
