SPECIFICATION Spec
CONSTANTS
  Procs = {p1, p2, p3}
  NoProc = NoProc
  Versions = {1, 2}
  Earlier = p3
  MaxCrashes = 0
CHECK_DEADLOCK FALSE
INVARIANT LockKeepsOneDaemon
