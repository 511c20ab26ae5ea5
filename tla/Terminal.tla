-------------------------------- MODULE Terminal --------------------------------
(***************************************************************************)
(* The user's terminal, which is not part of the repository: what keylock  *)
(* writes to its standard output is parsed by a state machine such as      *)
(* ECMA-48 and xterm describe.  A terminal is a record of its parser's     *)
(* state, the string it is collecting, the UTF-8 bytes it still expects,   *)
(* and the window title.                                                   *)
(***************************************************************************)
EXTENDS Integers, SequencesExt

CONSTANTS Final, Cont, Inter    \* final, UTF-8 continuation and intermediate bytes

(* How many more bytes a character takes after its first.                  *)
More == [b \in {"L1", "L2", "L3"} |-> CASE b = "L1" -> 1 [] b = "L2" -> 2 [] b = "L3" -> 3]

Fresh == [parser |-> "ground", text |-> <<>>, more |-> 0, title |-> <<>>]

Enter(t, parser) == [t EXCEPT !.parser = parser, !.text = <<>>, !.more = 0]

Printed(t, byte) ==
  IF byte \in DOMAIN More
  THEN [Enter(t, "utf8") EXCEPT !.more = More[byte]]
  ELSE Enter(t, "ground")

Escaped(t, byte) ==
  CASE byte = "["                   -> Enter(t, "csi")
    [] byte = "]"                   -> Enter(t, "osc")
    [] byte \in {"P", "_", "^", "X"} -> Enter(t, "string")
    [] byte \in Inter               -> Enter(t, "inter")
    [] OTHER                        -> Enter(t, "ground")

(* A complete OSC.  The first symbol tells whether it sets the title.      *)
Obey(t) ==
  IF t.text # <<>> /\ Head(t.text) \in {"0;", "2;"}
  THEN [Enter(t, "ground") EXCEPT !.title = Tail(t.text)]
  ELSE Enter(t, "ground")

(* CAN ends any sequence, ESC starts a new one anywhere; in an OSC it may  *)
(* be the first half of its terminator.                                    *)
TerminalNext(t, byte) ==
  CASE byte = "CAN" -> Enter(t, "ground")
    [] byte = "ESC" ->
         IF t.parser = "osc" THEN [t EXCEPT !.parser = "oscesc"] ELSE Enter(t, "esc")
    [] byte \notin {"CAN", "ESC"} ->
         CASE t.parser = "ground" -> Printed(t, byte)
           [] t.parser = "utf8" ->
                IF byte \notin Cont THEN Printed(t, byte)
                ELSE IF t.more = 1 THEN Enter(t, "ground")
                ELSE [t EXCEPT !.more = @ - 1]
           [] t.parser = "esc"    -> Escaped(t, byte)
           [] t.parser = "inter"  -> Enter(t, IF byte \in Inter THEN "inter" ELSE "ground")
           [] t.parser = "csi"    -> Enter(t, IF byte \in Final THEN "ground" ELSE "csi")
           [] t.parser = "string" -> t
           [] t.parser = "osc"    ->
                IF byte = "BEL" THEN Obey(t) ELSE [t EXCEPT !.text = Append(@, byte)]
           [] t.parser = "oscesc" ->
                IF byte = "\\" THEN Obey(t) ELSE Escaped(t, byte)

TerminalAfter(t, bytes) ==
  LET after[n \in 0..Len(bytes)] ==
        IF n = 0 THEN t ELSE TerminalNext(after[n - 1], bytes[n])
  IN  after[Len(bytes)]

(* Nothing of a sequence or a character is pending: other output may come. *)
AtGround(t) == t.parser = "ground"
===============================================================================
