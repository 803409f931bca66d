SPECIFICATION FairSpec
CONSTANTS
  TaskCount = 3
  Quantum = 1
  MaxSleep = 1
INVARIANTS SchedulerSound
PROPERTIES SleepsUntilDeadline ReadyRunsUnlessStale
