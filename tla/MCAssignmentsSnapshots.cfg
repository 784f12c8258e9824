CONSTANTS
  Student = {s1}
  Class = {c1, c2}
  NoClass = NoClass
  NoAccount = NoAccount
  Task = {t1}
  MaxRequests = 2
  DiskMayFail = FALSE
SPECIFICATION HistorySpec
PROPERTIES SnapshotsAreKept
CHECK_DEADLOCK FALSE
