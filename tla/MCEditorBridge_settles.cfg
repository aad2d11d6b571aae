SPECIFICATION FairSpec
CONSTANTS
  Projects = {game}
  Start = game
  Calls = {c1, c2}
  Sockets = {s1, s2}
  NoSocket = NoSocket
  NoPort = NoPort
  WaitsForEditor = TRUE
  History = 1
CHECK_DEADLOCK FALSE
PROPERTIES
  CallSettles
