SPECIFICATION ClientSpec
CONSTANTS
  Tables = {p}
  NoTable = NoTable
  Objects = {a, b}
  NoObject = NoObject
  Threads = {t1, t2}
  Capacity = 2
  GenModulus = 4
  Rights = {"duplicate", "wait"}
  Granted = {"duplicate", "wait"}
INVARIANTS StaleHandleNeverResolves
