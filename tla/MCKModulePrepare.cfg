SPECIFICATION Spec
CONSTANT Inputs <- MCInputs
INVARIANTS
  TypeOK
  PrepareKeepsPaths
CHECK_DEADLOCK FALSE
