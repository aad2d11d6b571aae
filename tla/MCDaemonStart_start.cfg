SPECIFICATION FairSpec
CONSTANTS
  Procs = {p1, p2, p3}
  NoProc = NoProc
  Versions = {1, 2}
  Earlier = p3
  MaxCrashes = 2
CHECK_DEADLOCK FALSE
INVARIANTS
  TypeOK
  OneStarter
  OneDaemon
  DaemonIsFindable
PROPERTIES
  NeverDowngraded
  StarterSettles
