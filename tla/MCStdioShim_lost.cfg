SPECIFICATION Spec
CONSTANTS
  Requests = {r1, r2, r3}
  Initialize = Initialize
  Initialized = Initialized
  Nothing = Nothing
  MaxLosses = 2
CHECK_DEADLOCK FALSE
PROPERTY LostIsNotSentLater
