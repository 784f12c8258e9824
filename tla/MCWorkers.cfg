CONSTANTS
  Enrolled = {p}
  Reachable = {q}
  Address = {a1, a2}
  Task = {t1}
  MaxRestarts = 1
SPECIFICATION FairWorkersSpec
INVARIANTS WorkersTypeOK ProvisioningHasOwner
PROPERTIES FoundAgain DeadIsMarkedDown
