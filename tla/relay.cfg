SPECIFICATION Spec
CONSTANTS
  MAX_PENDING_INPUT = 2
  MaxPipe = 2
  SignalRead = 1
  MaxTyped = 3
  MaxEvents = 4
  READ_SIZE = 2
  Reopens = TRUE
  Retries = TRUE
INVARIANTS
  TypeOK
  NothingLeaks
  InOrder
  LastOutput
PROPERTIES
  KillsOwnChild
  SessionEnds
  HangUpEnds
  OutputRead
CHECK_DEADLOCK FALSE
