----------------------------- MODULE MCGatePaste -----------------------------
(* A small instance of the gate and its terminal.                          *)
EXTENDS GatePaste

MCByte      == {"ESC", "^]", "[", "D", "M", "u", "l", "~", "200", "201"}
MCPrintable == {"[", "D", "M", "u", "l", "~"}
MCKey       == {"u", "l"}
MCPhrase    == <<"u", "l">>
===============================================================================
