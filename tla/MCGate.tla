-------------------------------- MODULE MCGate --------------------------------
(* A small instance of the gate with its history.                          *)
EXTENDS GateHistory

(* The sequences of the tokenizer (CSI, the paste markers, Kitty keys, OSC *)
(* with both terminators, Alt keys) and a short phrase.                    *)
MCByte      == {"ESC", "^]", "BEL", "[", "]", "\\", "l", "u", "~", "93;5", "200", "201"}
MCPrintable == {"[", "]", "\\", "l", "u", "~"}
MCPhrase    == <<"u", "l">>
===============================================================================
