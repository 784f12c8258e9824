CONSTANTS
  Term = {t1}
  ShellMax = 1
  MaxRestarts = 1
SPECIFICATION FairShellSpec

PROPERTIES ClosedIsReaped
CHECK_DEADLOCK FALSE
