SPECIFICATION Spec
CONSTANTS
  MaxBps = 3
  NDR = 1
  Addr <- MCAddr
  Entry = 2
  Len <- MCLen
  Succ <- MCSucc
  Calls = {4}
  BpAddr = {2, 8, 10}
  RmAddr = {2, 8, 10}
  TempAddr = {4, 6}
  DrAddr = {8}
  Types = {"soft", "hard", "trace"}
  HwBp = "hard"
INVARIANTS TypeOK CountAgrees MemoryMatchesTable RegistersMatchTable NoTemporaryLeft ProgramCounterTrue
PROPERTY NoBreakpointMissed
