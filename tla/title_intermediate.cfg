SPECIFICATION TSpec
CONSTANTS
  Byte <- CharsetByte
  Final <- CharsetFinal
  Cont <- CharsetCont
  Inter <- CharsetInter
  OscText <- CharsetOscText
  MAX_OSC = 2
  Unknown = "followed"
INVARIANT SafeToInsert
