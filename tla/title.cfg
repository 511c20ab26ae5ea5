SPECIFICATION TSpec
CONSTANTS
  Byte <- MCByte
  Final <- MCFinal
  Cont <- MCCont
  Inter <- MCInter
  OscText <- MCOscText
  MAX_OSC = 2
  Unknown = "unfollowed"
INVARIANTS
  TypeOK
  OscBounded
  SafeToInsert
PROPERTIES
  PassesThrough
  RemembersTitle
