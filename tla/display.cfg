SPECIFICATION DSpec
CONSTANTS
  Byte <- MCByte
  Final <- MCFinal
  Cont <- MCCont
  Inter <- MCInter
  OscText <- MCOscText
  MAX_OSC = 2
  Unknown = "excluded"
  MaxQueue = 11
  MaxReports = 4
INVARIANTS
  TitleShowsLock
  QueueTellsLock
  ExitUnmarks
PROPERTIES
  InsertsBetween
  HintEnds
CHECK_DEADLOCK FALSE
