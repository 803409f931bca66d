SPECIFICATION LifecycleSpec
CONSTANTS
  ClientCount = 1
  SlotCount = 2
  ProcCount = 1
  KernelExits = FALSE
  CreateDuringReap = TRUE
INVARIANTS RunnableHasStack
CHECK_DEADLOCK FALSE
