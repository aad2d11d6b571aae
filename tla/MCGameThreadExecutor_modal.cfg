SPECIFICATION Spec
CONSTANTS
  Requests = {load, respond}
  ModalSafe = {respond}
  Events = {e1, e2}
  NoEvent = NoEvent
  Slices = 2
  MaxModals = 2
CHECK_DEADLOCK FALSE
SYMMETRY EventSymmetry
INVARIANTS
  TypeOK
  RunsAtMostOnce
  OwnCompletion
  NothingElseRunsUnderModal
  TriggersLiveEvent
  NoLostWork
PROPERTIES
  AbandonedNeverStarts
  KeepsPromise
