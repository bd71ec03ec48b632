CONSTANTS
  Main = main
  Others = {t1, t2}
  NoTid = none
  Ignorable = {"stop", "trap"}
SPECIFICATION Spec
CHECK_DEADLOCK FALSE
INVARIANTS NoThreadLeftBehind WaitCanEnd NoEventLost
PROPERTIES StopEndsWait
