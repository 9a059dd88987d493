CONSTANTS
  Funcs <- MCFuncs
  Declared = {"memcpy", "memset"}
  Imports = {"memcpy", "memset"}
  Fresh = {"tb1", "tb2", "tb3", "tb4"}
  InitModules <- MCInitModules
  FuncOrder <- MCFuncOrder
  Body <- MCBody
  SwitchType = "llvm"

SPECIFICATION PrepareSpec

INVARIANT
  NoSwitchWhenLowered
