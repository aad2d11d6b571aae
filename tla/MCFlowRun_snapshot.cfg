SPECIFICATION Spec
CHECK_DEADLOCK FALSE
CONSTANTS
  N = 2
  SnapshotPaths = {content}
  MaxDrops = 1
INVARIANTS
  FilesRestored
