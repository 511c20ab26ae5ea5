------------------------------- MODULE GatePaste -------------------------------
(***************************************************************************)
(* The gate in front of a terminal that knows what is pasted and what is   *)
(* typed.  The gate only sees bytes and believes the paste markers it      *)
(* recognises; this module compares the belief with the truth.             *)
(*                                                                         *)
(* The terminal sends whole units: a key, the Escape key, an arrow key, a  *)
(* paste marker, pasted text.  It sends the markers in pairs.  How the     *)
(* relay treats the gate (relay.rs:190-204, 270-287, 318-324) is in the    *)
(* guards: feed takes bytes that are there, flush and set_locked come      *)
(* between two reads.                                                      *)
(*                                                                         *)
(* Pasted text holds keys, Ctrl+] and whole escape sequences, the start    *)
(* marker among them.  It does not hold the end marker, which would be     *)
(* the end of the paste for every program, and no escape sequence that     *)
(* the end of the paste leaves unfinished: of both the terminal has to     *)
(* clear the text.                                                         *)
(***************************************************************************)
EXTENDS Gate

CONSTANTS
  Key,      \* printable keys the user types or pastes
  Pace,     \* TRUE: the user waits for the escape timeout after Escape
  Cuts,     \* TRUE: flush and set_locked may find a sequence half read
  MaxTty    \* bound: bytes waiting in the terminal's queue

(* A terminal's own sequences are far shorter than the gate's limit.       *)
ASSUME PasteAssumption ==
  /\ Key \subseteq Printable
  /\ Key \cup {CTRL_BRACKET, "[", "D", "M", "u", "l", "~", "200", "201"} \subseteq Byte
  /\ {"D", "~"} \subseteq Final
  /\ {CTRL_BRACKET, "200", "201"} \cap Printable = {}
  /\ MAX_SEQUENCE >= 6
  /\ Pace \in BOOLEAN /\ Cuts \in BOOLEAN
  /\ MaxTty \in Nat

VARIABLES
  pasting,  \* the terminal is inside a paste
  tty,      \* bytes sent and not read, each as its place in a unit
  truth,    \* what the last byte read was
  keys      \* the last keys typed while locked, from the user's view

pvars == <<vars, pasting, tty, truth, keys>>

Kind == {"key", "pasted", "marker", "other"}
Unit(bytes, kind) == [i \in DOMAIN bytes |-> [bytes |-> bytes, at |-> i, kind |-> kind]]
Sent(item) == item.bytes[item.at]

ARROW == <<ESC, "[", "D">>

(* An X10 mouse report: three raw bytes, here the keys of the phrase.      *)
CLICK == <<ESC, "[", "M", "u", "l", "l">>

(* ESC in pasted text, with a character that ends the sequence.            *)
EscapePair ==
  {<<ESC, k>> : k \in {c \in Key \cup {CTRL_BRACKET, ESC} : sequence_complete(<<ESC, c>>)}}

(* What pasted text is made of.                                            *)
Pasted ==
  {<<k>> : k \in Key \cup {CTRL_BRACKET}} \cup EscapePair \cup {ARROW, CLICK, PASTE_START}

(* What the terminal may send next, and whether it is in a paste after it. *)
Sends ==
  IF pasting
  THEN {<<Unit(bytes, "pasted"), TRUE>> : bytes \in Pasted}
       \cup {<<Unit(PASTE_END, "marker"), FALSE>>}
  ELSE {<<Unit(<<k>>, "key"), FALSE>> : k \in Key}
       \cup {<<Unit(bytes, "other"), FALSE>> :
               bytes \in {<<CTRL_BRACKET>>, <<ESC>>, ARROW, CLICK}}
       \cup {<<Unit(PASTE_START, "marker"), TRUE>>}

Send ==
  /\ Pace => IF tty = <<>> THEN partial = <<>> ELSE Sent(Last(tty)) # ESC
  /\ \E s \in Sends :
       /\ tty' = tty \o s[1]
       /\ Len(tty') <= MaxTty
       /\ pasting' = s[2]
  /\ UNCHANGED <<vars, truth, keys>>

(* The keys typed without a break, as many as the phrase has.              *)
KeysAfter(item) ==
  IF item.kind = "key"
  THEN LET all == Append(keys, Sent(item))
       IN  IF Len(all) > Len(Phrase) THEN Tail(all) ELSE all
  ELSE <<>>

PFeed ==
  /\ Feed
  /\ unread' <= Len(tty)
  /\ UNCHANGED <<pasting, tty, truth, keys>>

PFeedByte ==
  /\ tty # <<>>
  /\ FeedByte(Sent(Head(tty)))
  /\ tty' = Tail(tty)
  /\ truth' = Head(tty).kind
  /\ keys' = IF locked THEN KeysAfter(Head(tty)) ELSE <<>>
  /\ UNCHANGED pasting

Pflush ==
  /\ Cuts \/ tty = <<>>
  /\ flush
  /\ UNCHANGED <<pasting, tty, truth, keys>>

(* An Escape that waits for its timeout is no sequence half read: a lock   *)
(* switch drops it.                                                        *)
Pset_locked(value) ==
  /\ Cuts \/ partial = <<>> \/ tty = <<>>
  /\ set_locked(value)
  /\ keys' = <<>>
  /\ UNCHANGED <<pasting, tty, truth>>

PInit ==
  /\ Init
  /\ pasting = FALSE
  /\ tty = <<>>
  /\ truth = "other"
  /\ keys = <<>>

PNext ==
  \/ Send
  \/ PFeed
  \/ PFeedByte
  \/ Pflush
  \/ \E value \in BOOLEAN : Pset_locked(value)

PSpec == PInit /\ [][PNext]_pvars

-------------------------------------------------------------------------------
(* When everything sent has been read, the gate agrees with the terminal   *)
(* on whether a paste is going on (gate.rs:145-154).                       *)
BeliefIsTrue == tty = <<>> /\ partial = <<>> => in_paste = pasting

(* A pasted byte neither locks, nor unlocks, nor starts the hotkey, even   *)
(* when the pasted text holds the phrase, Ctrl+] L, escape sequences or    *)
(* the start marker of a paste (gate.rs:145-205, 211-229).                 *)
PastedNeverSwitches ==
  [][unread > 0 /\ truth' = "pasted" =>
       locked' = locked /\ (prefix' # <<>> => prefix' = prefix)]_pvars

(* Only a key that was typed unlocks: the raw bytes of a mouse report, the *)
(* rest of a marker or of an arrow key never complete the phrase, whatever *)
(* they spell (gate.rs:211-229).                                           *)
OnlyKeysUnlock ==
  [][unread > 0 /\ locked /\ ~locked' => truth' = "key"]_pvars

(* What a paste does to a locked gate, as gate.rs:298 and README.md:8-9    *)
(* have it: nothing.                                                       *)
PastedNeverUnlocks ==
  [][unread > 0 /\ truth' = "pasted" /\ locked => locked']_pvars

(* Typing the phrase unlocks: the gate is never left locked after the user *)
(* has typed all its keys one after the other (gate.rs:190-204).           *)
PhraseUnlocks == locked /\ Phrase # <<>> => keys # Phrase
===============================================================================
