CONSTANTS
  Host = {local, w1}
  Local = local
  Student = {s1}
  Rehearsal = {}
  Compile = {c1}
  GradeMax = 1
  MaxRestarts = 1
SPECIFICATION FairGradeSpec
INVARIANTS GradeTypeOK InflightIsCalls RowsAreOfTheLastCall GraderAccounting
PROPERTIES SubmitIsAnswered GradersDrain
CHECK_DEADLOCK FALSE
