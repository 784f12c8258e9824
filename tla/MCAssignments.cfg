CONSTANTS
  Student = {s1}
  Class = {c1, c2}
  NoClass = NoClass
  NoAccount = NoAccount
  Task = {t1, t2}
  MaxRequests = 2
  DiskMayFail = TRUE
SPECIFICATION AssignSpec
SYMMETRY SchoolSymmetry
INVARIANTS AssignTypeOK PublishReaches UnpublishTakesBack TakenBackLeavesCopy
PROPERTIES OnlyPublishOpens JoinerIsServed
CHECK_DEADLOCK FALSE
