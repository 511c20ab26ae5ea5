SPECIFICATION HSpec
CONSTANTS
  Byte <- MCByte
  Printable <- MCPrintable
  Final <- MCPrintable
  Hotkey = TRUE
  Phrase <- MCPhrase
  MAX_SEQUENCE = 5
  READ_SIZE = 3
  MaxRun = 3
INVARIANTS
  TypeOK
  PartialIncomplete
  PrefixOnlyUnlocked
  TypedOnlyLocked
  EventsTellState
  WindowIsEndOfRun
PROPERTIES
  ImplementsLock
  UnlocksExactlyByPhrase
