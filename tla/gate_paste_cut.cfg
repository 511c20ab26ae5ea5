SPECIFICATION PSpec
CONSTANTS
  Byte <- MCByte
  Printable <- MCPrintable
  Final <- MCPrintable
  Key <- MCKey
  Hotkey = TRUE
  Phrase <- MCPhrase
  MAX_SEQUENCE = 6
  READ_SIZE = 3
  MaxTty = 4
  Pace = TRUE
  Cuts = TRUE
INVARIANT PhraseUnlocks
