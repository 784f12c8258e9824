CONSTANTS
  Host = {local, w1}
  Local = local
  Run = {r1}
  NoRun = NoRun
  MaxLost = 1
  RunMax = 1
  MaxRestarts = 1
  DiskMayFail = TRUE
SPECIFICATION FairTerminalSpec
INVARIANTS RouteIsOurs
PROPERTIES RouteKeptWhileRunning SlotsComeBack StartIsAnswered KillFreesRoute AttachedLearnsEnd
CHECK_DEADLOCK FALSE
