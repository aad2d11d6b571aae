SPECIFICATION Spec
CONSTANTS
  Projects = {game, demo}
  Start = game
  Calls = {c1, c2}
  Sockets = {s1, s2}
  NoSocket = NoSocket
  NoPort = NoPort
  WaitsForEditor = TRUE
  History = 1
CHECK_DEADLOCK FALSE
SYMMETRY BridgeSymmetry
INVARIANTS
  TypeOK
  RightEditor
  CapabilitiesAreCurrent
  LiveSocketIsAnnounced
  LateReplyIsReconciled
PROPERTIES
  KeepsCallPromise
  LostWithItsSocket
