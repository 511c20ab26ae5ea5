SPECIFICATION PSpec
CONSTANTS
  Byte <- MCByte
  Printable <- MCPrintable
  Final <- MCPrintable
  Key <- MCKey
  Hotkey = TRUE
  Phrase <- MCPhrase
  MAX_SEQUENCE = 7
  READ_SIZE = 3
  MaxTty = 6
  Pace = TRUE
  Cuts = FALSE
INVARIANTS
  BeliefIsTrue
  PhraseUnlocks
PROPERTIES
  PastedNeverSwitches
  OnlyKeysUnlock
