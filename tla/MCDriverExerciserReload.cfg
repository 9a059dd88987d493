CONSTANTS
  States = {1, 2}
  Mods = {"drv", "drv0", "other", "ntoskrnl.exe"}
  Tracked = {"drv", "drv0"}
  WithEntry = {"drv", "other", "ntoskrnl.exe"}
  Kernel = "ntoskrnl.exe"
  Irps = {0, 14}
  UnloadAction = "succeed"
  NtosPlugin = TRUE
  DriverIrps = {14}

INIT Init
NEXT Next

INVARIANT
  LoadedDriversInstrumented

CHECK_DEADLOCK FALSE
