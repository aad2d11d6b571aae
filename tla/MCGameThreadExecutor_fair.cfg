SPECIFICATION MutexSpec
CONSTANTS
  Requests = {load, respond}
  ModalSafe = {respond}
  Events = {e1, e2}
  NoEvent = NoEvent
  Slices = 1
  MaxModals = 1
CHECK_DEADLOCK FALSE
PROPERTIES
  ModalSafeServed
  StaleEntriesLeave
  CallerReturns
