CONSTANTS
  Enrolled = {p}
  Reachable = {}
  Address = {a1, a2}
  Task = {t1}
  MaxRestarts = 1
SYMMETRY AddressSymmetry
SPECIFICATION UpstreamSpec
INVARIANTS UpstreamTypeOK UpstreamIsCurrent
