SPECIFICATION ProcessesSpec
CONSTANTS
  Tables = {p, q}
  Objects = {a, b}
  NoObject = NoObject
  NoTable = NoTable
  Threads = {t1, t2}
  Capacity = 2
  GenModulus = 3
  Rights = {"duplicate", "wait"}
  Granted = {"duplicate"}
  ClientCount = 1
  SlotCount = 2
  ProcCount = 2
  KernelExits = TRUE
  CreateDuringReap = FALSE
  ElfFiles <- MCFiles
  ArgumentLists <- MCArguments
  ElfPage = 8
  UserBase = 8
  StackBottom = 64
  StackTop = 96
  UserEnd = 112
  Word = 2
  StackAlign = 4
  Slack = 4
  ArgumentMax = 3
  LengthMax = 8
  FrameSupply = {3, 5, 6, 9}
  Writers = {w1, w2}
  Formats <- MCFormats
  LogSize = 9
  LineMax = 7
  ReadMax = 4
  ActiveLevel = 1
  Lines = 3
  CpuCount = 3
  TlbPages = {"p", "q"}
  Shootdowns = 2
SYMMETRY Symmetry
INVARIANTS  RightsNeverAmplified HandleDenotesItsObject
           ExitsAccounted 
           ProgramLoaded LogSound ShootdownComplete
CHECK_DEADLOCK FALSE
