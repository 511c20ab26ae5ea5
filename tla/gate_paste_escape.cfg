SPECIFICATION PSpec
CONSTANTS
  Byte <- MCByte
  Printable <- MCPrintable
  Final <- MCPrintable
  Key <- MCKey
  Hotkey = TRUE
  Phrase <- MCPhrase
  MAX_SEQUENCE = 6
  READ_SIZE = 3
  MaxTty = 6
  Pace = FALSE
  Cuts = FALSE
PROPERTY PastedNeverUnlocks
