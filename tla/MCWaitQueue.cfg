SPECIFICATION WaitFairSpec
CONSTANTS
  Waiters = {t1, t2, t3}
  Modes = {"flag", "manual", "auto"}
INVARIANTS WaitersTracked
PROPERTIES TimedWaitReturns WaitersReleased
