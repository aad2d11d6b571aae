SPECIFICATION FairSpec
CONSTANTS
  Requests = {r1, r2, r3}
  Initialize = Initialize
  Initialized = Initialized
  Nothing = Nothing
  MaxLosses = 3
CHECK_DEADLOCK FALSE
INVARIANTS
  TypeOK
  WrittenOnce
  InitializeFirst
  NothingForgotten
PROPERTIES
  NeverLeftHanging
