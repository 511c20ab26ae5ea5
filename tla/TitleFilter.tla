------------------------------ MODULE TitleFilter ------------------------------
(***************************************************************************)
(* The output filter of src/src/title.rs: it follows the escape sequences  *)
(* in the command's output, marks window titles while the session is       *)
(* locked, and tells the relay when it may insert output of its own.       *)
(*                                                                         *)
(* A byte is a symbol.  The two bytes that make an OSC a title, "0;" or    *)
(* "2;", are one symbol, and so is the lock mark that the filter inserts.  *)
(***************************************************************************)
EXTENDS Integers, SequencesExt

CONSTANTS
  Byte,      \* the bytes the command can write
  Final,     \* those in 0x40..=0x7e, which end a CSI sequence
  Cont,      \* UTF-8 continuation bytes, 0x80..=0xbf
  MAX_OSC    \* longest OSC collected (8192 in the code)

ESC         == "ESC"
BEL         == "BEL"
LOCK_PREFIX == "LOCK"

StringStart == {"P", "_", "^", "X"}               \* DCS, APC, PM, SOS
TitleStart  == {"0;", "2;"}

(* A UTF-8 lead byte and the number of bytes that follow it.               *)
Lead == [b \in {"L1", "L2", "L3"} |-> CASE b = "L1" -> 1 [] b = "L2" -> 2 [] b = "L3" -> 3]

ASSUME TitleAssumption ==
  /\ {ESC, BEL, "]", "\\"} \subseteq Byte
  /\ LOCK_PREFIX \notin Byte
  /\ MAX_OSC \in Nat \ {0}

VARIABLES
  state,       \* where in a sequence the command's output is
  remaining,   \* continuation bytes still expected, in state "Utf8"
  osc,         \* what the current OSC holds; not written yet
  last_title,  \* the last title the command set, <<title>> or <<>> for none
  written,     \* what the last step wrote
  taken        \* history: the byte of the last step

fvars == <<state, remaining, osc, last_title, written, taken>>

State == {"Ground", "Esc", "Csi", "Osc", "OscEsc", "Str", "StrEsc", "Utf8"}

in_sequence == state # "Ground"

-------------------------------------------------------------------------------
(* step, by state.  pre is what the step has written already: an OSC that  *)
(* is abandoned is written first and its last byte taken in a new state.   *)

Goto(s, out) ==
  /\ state' = s
  /\ remaining' = 0
  /\ written' = out

StepGround(byte, pre) ==
  \/ byte = ESC /\ Goto("Esc", pre)
  \/ /\ byte \in DOMAIN Lead
     /\ state' = "Utf8"
     /\ remaining' = Lead[byte]
     /\ written' = Append(pre, byte)
  \/ byte # ESC /\ byte \notin DOMAIN Lead /\ Goto("Ground", Append(pre, byte))

StepEsc(byte, pre) ==
  LET both == pre \o <<ESC, byte>> IN
  \/ byte = "]" /\ Goto("Osc", pre)
  \/ byte = "[" /\ Goto("Csi", both)
  \/ byte \in StringStart /\ Goto("Str", both)
  \/ byte = ESC /\ Goto("Esc", Append(pre, ESC))
  \/ byte \notin {"]", "[", ESC} \cup StringStart /\ Goto("Ground", both)

(* Wrong: the last continuation byte is counted one too late.              *)
StepUtf8Late(byte) ==
  \/ /\ byte \in Cont
     /\ remaining' = remaining - 1
     /\ state' = IF remaining = 0 THEN "Ground" ELSE "Utf8"
     /\ written' = <<byte>>
  \/ byte \notin Cont /\ StepGround(byte, <<>>)

StepUtf8(byte) ==
  \/ /\ byte \in Cont
     /\ remaining' = remaining - 1
     /\ state' = IF remaining = 1 THEN "Ground" ELSE "Utf8"
     /\ written' = <<byte>>
  \/ byte \notin Cont /\ StepGround(byte, <<>>)

StepCsi(byte) == Goto(IF byte \in Final THEN "Ground" ELSE "Csi", <<byte>>)

(* Wrong: the introducer that was withheld is lost.                        *)
abandon_body == osc

(* The buffered OSC unchanged, without a terminator.                       *)
abandon_osc == <<ESC, "]">> \o osc

IsTitle(o) == o # <<>> /\ Head(o) \in TitleStart

(* Wrong: the buffer is copied and not emptied.                            *)
finish_osc_copy(terminator, locked) ==
  /\ UNCHANGED <<osc, last_title>>
  /\ Goto("Ground", abandon_osc \o terminator)

(* Wrong: the title is remembered with the rest of what was written.       *)
finish_osc_whole(terminator, locked) ==
  /\ osc' = <<>>
  /\ last_title' = IF IsTitle(osc) THEN <<osc>> ELSE last_title
  /\ Goto("Ground", abandon_osc \o terminator)

(* The same OSC, with the mark before the title while locked.              *)
finish_osc(terminator, locked) ==
  /\ osc' = <<>>
  /\ last_title' = IF IsTitle(osc) THEN <<Tail(osc)>> ELSE last_title
  /\ Goto("Ground",
          <<ESC, "]">>
            \o (IF IsTitle(osc) /\ locked
                THEN <<Head(osc), LOCK_PREFIX>> \o Tail(osc)
                ELSE osc)
            \o terminator)

StepOsc(byte, locked) ==
  \/ byte = BEL /\ finish_osc(<<BEL>>, locked)
  \/ byte = ESC /\ Goto("OscEsc", <<>>) /\ UNCHANGED <<osc, last_title>>
  \/ /\ byte \notin {BEL, ESC}
     /\ Len(osc) >= MAX_OSC
     /\ StepGround(byte, abandon_osc)
     /\ osc' = <<>>
     /\ UNCHANGED last_title
  \/ /\ byte \notin {BEL, ESC}
     /\ Len(osc) < MAX_OSC
     /\ osc' = Append(osc, byte)
     /\ Goto("Osc", <<>>)
     /\ UNCHANGED last_title

StepOscEsc(byte, locked) ==
  \/ byte = "\\" /\ finish_osc(<<ESC, "\\">>, locked)
  \/ /\ byte # "\\"
     /\ StepEsc(byte, abandon_osc)
     /\ osc' = <<>>
     /\ UNCHANGED last_title

StepStr(byte) == Goto(IF byte = ESC THEN "StrEsc" ELSE "Str", <<byte>>)

(* Wrong: two escapes in a row end the string.                             *)
StepStrEscTwice(byte) ==
  Goto(IF byte \in {"\\", ESC} THEN "Ground" ELSE "Str", <<byte>>)

StepStrEsc(byte) ==
  Goto(CASE byte = "\\" -> "Ground"
         [] byte = ESC  -> "StrEsc"
         [] OTHER       -> "Str", <<byte>>)

step(byte, locked) ==
  /\ taken' = byte
  /\ \/ state = "Ground" /\ StepGround(byte, <<>>) /\ UNCHANGED <<osc, last_title>>
     \/ state = "Utf8" /\ StepUtf8(byte) /\ UNCHANGED <<osc, last_title>>
     \/ /\ state = "Esc"
        /\ StepEsc(byte, <<>>)
        /\ osc' = IF byte = "]" THEN <<>> ELSE osc
        /\ UNCHANGED last_title
     \/ state = "Csi" /\ StepCsi(byte) /\ UNCHANGED <<osc, last_title>>
     \/ state = "Osc" /\ StepOsc(byte, locked)
     \/ state = "OscEsc" /\ StepOscEsc(byte, locked)
     \/ state = "Str" /\ StepStr(byte) /\ UNCHANGED <<osc, last_title>>
     \/ state = "StrEsc" /\ StepStrEsc(byte) /\ UNCHANGED <<osc, last_title>>

Init ==
  /\ state = "Ground"
  /\ remaining = 0
  /\ osc = <<>>
  /\ last_title = <<>>
  /\ written = <<>>
  /\ taken = BEL

(* filter runs step over a chunk; the lock cannot change within it.        *)
Next == \E byte \in Byte, locked \in BOOLEAN : step(byte, locked)

Spec == Init /\ [][Next]_fvars

-------------------------------------------------------------------------------
(* Properties.                                                             *)

TypeOK ==
  /\ state \in State
  /\ remaining \in 0..3 /\ (remaining > 0 <=> state = "Utf8")
  /\ osc \in Seq(Byte)
  /\ last_title \in Seq(Seq(Byte)) /\ Len(last_title) <= 1
  /\ written \in Seq(Byte \cup {LOCK_PREFIX})
  /\ taken \in Byte

(* Only an OSC in progress is held back, and never more than MAX_OSC of it *)
(* (title.rs:106-124): a stale one would be written in front of a later    *)
(* sequence, an unbounded one would swallow the command's output.          *)
OscBounded ==
  /\ Len(osc) <= MAX_OSC
  /\ osc # <<>> => state \in {"Osc", "OscEsc"}

(* What the filter has taken and not written yet.                          *)
Withheld ==
  CASE state = "Esc"    -> <<ESC>>
    [] state = "Osc"    -> <<ESC, "]">> \o osc
    [] state = "OscEsc" -> <<ESC, "]">> \o osc \o <<ESC>>
    [] OTHER            -> <<>>

(* What was written without its lock mark.                                 *)
Unmarked(bytes) ==
  IF Contains(bytes, LOCK_PREFIX)
  THEN LET i == CHOOSE i \in DOMAIN bytes : bytes[i] = LOCK_PREFIX
       IN  SubSeq(bytes, 1, i - 1) \o SubSeq(bytes, i + 1, Len(bytes))
  ELSE bytes

(* Output passes through: apart from one lock mark, every step writes what *)
(* was withheld and the new byte, or withholds them, in order and with     *)
(* nothing lost, however sequences are malformed or cut (title.rs:43-170). *)
PassesThrough ==
  [][Unmarked(written') \o Withheld' = Append(Withheld, taken')]_fvars
===============================================================================
