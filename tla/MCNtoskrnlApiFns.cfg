\* All APIs at one level, LOCAL and OVERAPPROX included.
CONSTANTS
  s1 = s1
  s2 = s2
  s3 = s3
  States = {s1, s2, s3}
  MaxCalls = 2
  Configs <- AllUniformConfigs
INIT Init
NEXT Next
SYMMETRY SlotSymmetry
INVARIANT RetsBelongToCurrentCall
CHECK_DEADLOCK FALSE
