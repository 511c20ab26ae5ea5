---------------------------- MODULE MCRelayDisplay ----------------------------
(* A small instance of the display: a command that writes titles, text and *)
(* a control sequence.                                                     *)
EXTENDS RelayDisplay

MCByte      == {"ESC", "BEL", "[", "]", "2;", "t", "\\"}
MCFinal     == {"[", "]", "t", "\\"}
MCCont      == {}
MCInter     == {}
MCOscText   == {"t"}
===============================================================================
