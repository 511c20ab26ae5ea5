----------------------------- MODULE TitleTerminal -----------------------------
(***************************************************************************)
(* The output filter between a command and the user's terminal: does the   *)
(* filter know where the terminal's parser is?  (title.rs:1-3, 51-53.)     *)
(***************************************************************************)
EXTENDS TitleFilter

CONSTANTS
  Inter,       \* intermediate bytes, 0x20..=0x2f
  OscText,     \* bound: the bytes that a well-formed OSC may hold
  Unknown      \* what becomes of output that the filter does not know

(* Unknown output is not written at all, written and the terminal not      *)
(* followed any more, or written and followed.                             *)
ASSUME TerminalAssumption ==
  /\ Unknown \in {"excluded", "unfollowed", "followed"}
  /\ OscText \cap {ESC, BEL, "CAN"} = {}
  /\ Inter \cap ({"[", "]", "\\"} \cup StringStart) = {}
  /\ Cont \cap {ESC, "CAN"} = {}
  /\ Final \cap (Cont \cup DOMAIN Lead) = {}

VARIABLE terminal

INSTANCE Terminal

(* The sequences whose end the filter takes to be elsewhere than the       *)
(* terminal does: an intermediate byte after ESC, ESC inside CSI, an OSC   *)
(* longer than MAX_OSC, and a string that another sequence breaks off.     *)
Known(byte) ==
  /\ state \in {"Esc", "OscEsc"} => byte \notin Inter
  /\ state = "Csi" => byte # ESC
  /\ state = "Osc" /\ Len(osc) >= MAX_OSC => byte \in {ESC, BEL}
  /\ state = "Osc" => byte \in {ESC, BEL} \cup OscText \cup (IF osc = <<>> THEN TitleStart ELSE {})
  /\ state = "StrEsc" => byte \in {ESC, "\\"}

TInit == Init /\ terminal = Fresh

Lost == [Fresh EXCEPT !.parser = "lost"]

Write(byte, locked) ==
  /\ Unknown = "excluded" => Known(byte)
  /\ step(byte, locked)
  /\ terminal' = IF terminal = Lost \/ (Unknown = "unfollowed" /\ ~Known(byte))
                 THEN Lost ELSE TerminalAfter(terminal, written')

TNext == \E byte \in Byte, locked \in BOOLEAN : Write(byte, locked)

TSpec == TInit /\ [][TNext]_<<fvars, terminal>>

-------------------------------------------------------------------------------
(* Whenever the filter says that keylock may insert its own sequences, the *)
(* terminal is between sequences and between characters, so that what is   *)
(* inserted is obeyed and breaks nothing (title.rs:51-53, relay.rs:372).   *)
SafeToInsert == ~in_sequence => AtGround(terminal) \/ terminal = Lost

(* The filter remembers the title the terminal shows, without the mark,    *)
(* for keylock's own titles (title.rs:153-170).                            *)
RemembersTitle ==
  [][terminal'.title # terminal.title /\ terminal' # Lost =>
       last_title' = <<Unmarked(terminal'.title)>>]_<<fvars, terminal>>
===============================================================================
