SPECIFICATION Spec
CONSTANTS
  MAX_PENDING_INPUT = 2
  MaxPipe = 2
  SignalRead = 2
  MaxTyped = 2
  MaxEvents = 3
  READ_SIZE = 1
  Reopens = FALSE
  Retries = FALSE
INVARIANT PasteDropped
CHECK_DEADLOCK FALSE
