CONSTANTS
  s1 = s1
  s2 = s2
  s3 = s3
  States = {s1, s2, s3}
  Mods = {"drv", "drv0", "other", "ntoskrnl.exe"}
  Tracked = {"drv", "drv0"}
  WithEntry = {"drv", "other", "ntoskrnl.exe"}
  Kernel = "ntoskrnl.exe"
  Irps = {0, 14}
  UnloadAction = "succeed"
  NtosPlugin = TRUE
  DriverIrps = {14}

INIT Init
NEXT Next
SYMMETRY SlotSymmetry

INVARIANTS
  TypeOK
  
  HandlersOnlyWhileLoaded

\* Exploration ends when every state is killed or succeeded and none is
\* left to resume.
CHECK_DEADLOCK FALSE
