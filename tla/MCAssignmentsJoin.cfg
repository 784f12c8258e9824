CONSTANTS
  Student = {s1}
  Class = {c1}
  NoClass = NoClass
  NoAccount = NoAccount
  Task = {t1, t2}
  MaxRequests = 2
  DiskMayFail = FALSE
SPECIFICATION HistorySpec
INVARIANTS JoinersHaveWork
CHECK_DEADLOCK FALSE
