-------------------------------- MODULE MCTitle --------------------------------
(* Two small instances of the output filter and the terminal.              *)
EXTENDS TitleTerminal

(* One byte of each kind: a CSI sequence, strings, titles, a character of  *)
(* two bytes, CAN.                                                         *)
MCByte      == {"ESC", "BEL", "CAN", "[", "]", "P", "\\", "2;", "1", "L1", "L2", "C", "("}
MCFinal     == {"[", "]", "P", "\\"}
MCCont      == {"C"}
MCInter     == {"("}
MCOscText   == {"C", "["}

(* What a command writes to choose a character set, ESC ( B, and text.     *)
CharsetByte    == {"ESC", "BEL", "[", "]", "\\", "(", "B", "1"}
CharsetFinal   == {"[", "]", "\\", "B"}
CharsetCont    == {}
CharsetInter   == {"("}
CharsetOscText == {"1"}
===============================================================================
