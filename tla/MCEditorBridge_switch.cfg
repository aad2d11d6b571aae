SPECIFICATION Spec
CONSTANTS
  Projects = {game, demo}
  Start = game
  Calls = {c1}
  Sockets = {s1, s2}
  NoSocket = NoSocket
  NoPort = NoPort
  WaitsForEditor = TRUE
  History = 1
CHECK_DEADLOCK FALSE
INVARIANTS
  StaysOnItsProject
