SPECIFICATION LifecycleSpec
CONSTANTS
  ClientCount = 1
  SlotCount = 2
  ProcCount = 1
  KernelExits = TRUE
  CreateDuringReap = FALSE
INVARIANTS ZombiesReachReaper
CHECK_DEADLOCK FALSE
