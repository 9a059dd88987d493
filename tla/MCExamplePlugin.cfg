CONSTANTS
  W = 2
  NumVars = 2
  MaxAdds = 4
  Inputs <- MCInputs

INIT PluginInit
NEXT PluginNext

INVARIANT
  TerminationCompletes

CHECK_DEADLOCK FALSE
