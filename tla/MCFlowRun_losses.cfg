SPECIFICATION FairSpec
CHECK_DEADLOCK FALSE
CONSTANTS
  N = 2
  SnapshotPaths = {content}
  MaxDrops = 2
INVARIANTS
  TypeOK
  EditRunsOnce
  SuccessIsHonest
  FailureIsHonest
PROPERTIES
  RunEnds
