SPECIFICATION Spec
CONSTANTS
  MAX_PENDING_INPUT = 2
  MaxPipe = 2
  SignalRead = 2
  MaxTyped = 0
  MaxEvents = 4
  READ_SIZE = 2
  Reopens = FALSE
  Retries = FALSE
PROPERTY SignalsPassed
CHECK_DEADLOCK FALSE
