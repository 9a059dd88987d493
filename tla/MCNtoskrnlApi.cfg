\* Every handler at every consistency level except the fns-registering
\* branch of IoCreateSymbolicLink / IoCreateDevice; three state slots let
\* a forked call fork again, and three calls per state let a state call
\* again after its callee returned and fork once more.
CONSTANTS
  s1 = s1
  s2 = s2
  s3 = s3
  States = {s1, s2, s3}
  MaxCalls = 3
  Configs <- SafeConfigs
INIT Init
NEXT Next
SYMMETRY SlotSymmetry
INVARIANTS TypeOK RetsBelongToCurrentCall
\* Every path stops after MaxCalls calls.
CHECK_DEADLOCK FALSE
