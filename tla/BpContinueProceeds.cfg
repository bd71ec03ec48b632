SPECIFICATION Spec
CONSTANTS
  MaxBps = 3
  NDR = 1
  Addr <- MCAddr
  Entry = 2
  Len <- MCLen
  Succ <- MCSucc
  Calls = {4}
  BpAddr = {2, 8}
  RmAddr = {2, 4, 8}
  TempAddr = {4, 6}
  DrAddr = {}
  Types = {"soft"}
  HwBp = "hard"
INVARIANT ContinueProceeds
