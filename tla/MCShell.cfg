CONSTANTS
  Term = {t1, t2}
  ShellMax = 1
  MaxRestarts = 1
SPECIFICATION FairShellSpec
INVARIANTS ShellTypeOK ShellAccounting
PROPERTIES ShellKeepsRoute UnreadIsReaped
CHECK_DEADLOCK FALSE
