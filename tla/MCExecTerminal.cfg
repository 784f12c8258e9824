CONSTANTS
  Host = {local}
  Local = local
  Run = {r1, r2}
  NoRun = NoRun
  MaxLost = 0
  RunMax = 1
  MaxRestarts = 1
  DiskMayFail = TRUE
SPECIFICATION TerminalSpec
SYMMETRY RunSymmetry
INVARIANTS SlotAccounting BusyAccounting TerminalTypeOK RequestsDoNotOverlap LoadAccounting
PROPERTIES IsSlotPool
CHECK_DEADLOCK FALSE
