SPECIFICATION SignalledSpec
CONSTANTS
  Waiters = {t1}
  Modes = {"auto"}
PROPERTY SignalReleasesWaiter
