--------------------------------- MODULE Gate ---------------------------------
(***************************************************************************)
(* The input gate of src/src/gate.rs: it cuts the bytes of the user's      *)
(* terminal into tokens (single bytes and whole escape sequences) and      *)
(* decides which of them reach the command.                                *)
(*                                                                         *)
(* A byte is a symbol.  Bytes the gate tells apart have a name; a run of   *)
(* CSI parameter bytes ("200", "93;5") is one symbol, because in a CSI the *)
(* gate only ever appends such bytes to what it is collecting; anywhere    *)
(* else the symbol stands for one byte that is not printable.  A token     *)
(* is a non-empty sequence of bytes: Token::Byte when its length is 1 and  *)
(* Token::Seq otherwise.  The empty sequence stands for None.              *)
(***************************************************************************)
EXTENDS Integers, SequencesExt

CONSTANTS
  Byte,          \* the bytes the terminal can send
  Printable,     \* those in 0x20..=0x7e
  Final,         \* those in 0x40..=0x7e, which end a CSI sequence
  Hotkey,        \* FALSE under --no-hotkey
  Phrase,        \* the unlock phrase, <<>> under --no-phrase
  MAX_SEQUENCE,  \* longest escape sequence collected (4096 in the code)
  READ_SIZE      \* most bytes handed to one call of feed (4096 in the code)

Event == {"Lock", "Unlock", "DroppedInput"}

ESC          == "ESC"
CTRL_BRACKET == "^]"
BEL          == "BEL"

KITTY_CTRL_BRACKET == <<ESC, "[", "93;5", "u">>
KITTY_L            == <<ESC, "[", "108", "u">>
PASTE_START        == <<ESC, "[", "200", "~">>
PASTE_END          == <<ESC, "[", "201", "~">>

StringIntroducer == {"]", "P", "_", "^"}            \* OSC, DCS, APC, PM
ReportFinal      == {"I", "O", "M", "m", "R", "c", "t"}

(* cli.rs refuses an empty phrase and one with a byte the gate would not   *)
(* collect; four symbols are needed to tell the paste markers apart.       *)
ASSUME GateAssumption ==
  /\ ESC \in Byte \ Printable
  /\ Final \subseteq Printable
  /\ Hotkey \in BOOLEAN
  /\ Phrase \in Seq(Printable)
  /\ MAX_SEQUENCE \in Nat /\ MAX_SEQUENCE >= 4
  /\ READ_SIZE \in Nat \ {0}

VARIABLES
  locked,    \* the lock
  partial,   \* bytes of an escape sequence that is not complete yet
  prefix,    \* a Ctrl+] that waits for the key after it
  typed,     \* the last printable keys typed while locked
  in_paste,  \* between the paste markers
  out,       \* the Output of the call in progress, or of the last one
  unread     \* bytes of the current feed that the loop has still to take

held == <<partial, prefix, typed>>
vars == <<locked, partial, prefix, typed, in_paste, out, unread>>

NoOutput == [forward |-> <<>>, events |-> <<>>]
Forward(o, bytes) == [o EXCEPT !.forward = @ \o bytes]
Report(o, event)  == [o EXCEPT !.events = Append(@, event)]

(* No call is in progress.                                                 *)
Idle == unread = 0

-------------------------------------------------------------------------------
(* Tokens.                                                                 *)

string_terminated(seq) ==
  \/ seq[2] = "]" /\ Last(seq) = BEL
  \/ Len(seq) >= 4 /\ seq[Len(seq) - 1] = ESC /\ Last(seq) = "\\"

(* A wrong variant, one too long: the runs must refute it.                 *)
sequence_complete_late(seq) ==
  \/ Len(seq) > MAX_SEQUENCE
  \/ seq[2] = "[" /\ Len(seq) > 2 /\ Last(seq) \in Final
  \/ seq[2] \in StringIntroducer /\ string_terminated(seq)
  \/ seq[2] \notin {"["} \cup StringIntroducer

(* Wrong: the raw bytes of an X10 mouse report are not waited for.         *)
sequence_complete_raw(seq) ==
  \/ Len(seq) >= MAX_SEQUENCE
  \/ seq[2] = "[" /\ Len(seq) > 2 /\ Last(seq) \in Final
  \/ seq[2] = "O" /\ Len(seq) = 3
  \/ seq[2] \in StringIntroducer /\ string_terminated(seq)
  \/ seq[2] \notin {"[", "O"} \cup StringIntroducer

(* seq starts with ESC and has at least two bytes.  ESC [ M is an X10      *)
(* mouse report: three raw bytes follow.                                   *)
sequence_complete(seq) ==
  \/ Len(seq) >= MAX_SEQUENCE
  \/ /\ seq[2] = "["
     /\ Len(seq) > 2
     /\ IF seq[3] = "M" THEN Len(seq) = 6 ELSE Last(seq) \in Final
  \/ seq[2] = "O" /\ Len(seq) = 3
  \/ seq[2] \in StringIntroducer /\ string_terminated(seq)
  \/ seq[2] \notin {"[", "O"} \cup StringIntroducer

(* What the terminal sends on its own: focus changes, mouse reports and    *)
(* replies to queries.                                                     *)
is_report(token) ==
  /\ Len(token) > 1
  /\ \/ /\ token[2] = "["
        /\ Len(token) > 2
        /\ IF token[3] = "M" THEN Len(token) = 6 ELSE Last(token) \in ReportFinal
     \/ token[2] \in StringIntroducer /\ string_terminated(token)

IsCtrlBracket(token) == token \in {<<CTRL_BRACKET>>, KITTY_CTRL_BRACKET}
IsL(token)           == token \in {<<"l">>, KITTY_L}

(* Wrong: what stands between the markers is taken for typed.              *)
PastingMarkers(token) == token \in {PASTE_START, PASTE_END}

(* A token is pasted when it is a marker or stands between two markers.    *)
Pasting(token) == in_paste \/ token \in {PASTE_START, PASTE_END}

-------------------------------------------------------------------------------
(* handle: one token, with o the Output of the call so far.                *)

handle_unlocked(token, o) ==
  \/ /\ prefix # <<>>
     /\ IsL(token)
     /\ locked' = TRUE
     /\ prefix' = <<>>
     /\ typed' = <<>>
     /\ out' = Report(o, "Lock")
  \/ /\ prefix # <<>>
     /\ ~IsL(token)
     /\ prefix' = <<>>
     /\ out' = Forward(o, IF IsCtrlBracket(token) THEN prefix ELSE prefix \o token)
     /\ UNCHANGED <<locked, typed>>
  \/ /\ prefix = <<>>
     /\ Hotkey /\ ~Pasting(token) /\ IsCtrlBracket(token)
     /\ prefix' = token
     /\ out' = o
     /\ UNCHANGED <<locked, typed>>
  \/ /\ prefix = <<>>
     /\ ~(Hotkey /\ ~Pasting(token) /\ IsCtrlBracket(token))
     /\ out' = Forward(o, token)
     /\ UNCHANGED <<locked, prefix, typed>>

(* Wrong: any single byte counts as a key of the phrase.                   *)
IsPhraseByte(token) == Len(token) = 1 /\ ~Pasting(token)

(* The keys that can be part of the phrase.                                *)
IsPhraseKey(token) == Len(token) = 1 /\ token[1] \in Printable /\ ~Pasting(token)

(* Wrong: a full window starts over, or takes no more keys.                *)
RememberAfresh(byte) == IF Len(typed) = Len(Phrase) THEN <<byte>> ELSE Append(typed, byte)
RememberFirst(byte)  == IF Len(typed) = Len(Phrase) THEN typed ELSE Append(typed, byte)

(* typed after one more key: only the last Len(Phrase) keys matter.        *)
Remember(byte) ==
  Append(IF Len(typed) = Len(Phrase) THEN Tail(typed) ELSE typed, byte)

(* Wrong: dropped input is reported for every token.                       *)
DroppedEach(token, o) == IF is_report(token) THEN o ELSE Report(o, "DroppedInput")

Dropped(token, o) ==
  IF is_report(token) \/ Contains(o.events, "DroppedInput")
  THEN o
  ELSE Report(o, "DroppedInput")

handle_locked(token, o) ==
  /\ UNCHANGED prefix
  /\ \/ /\ Phrase = <<>>
        /\ out' = Dropped(token, o)
        /\ UNCHANGED <<locked, typed>>
     \/ /\ Phrase # <<>>
        /\ IsPhraseKey(token)
        /\ Remember(token[1]) = Phrase
        /\ locked' = FALSE
        /\ typed' = <<>>
        /\ out' = Report(Dropped(token, o), "Unlock")
     \/ /\ Phrase # <<>>
        /\ IsPhraseKey(token)
        /\ Remember(token[1]) # Phrase
        /\ typed' = Remember(token[1])
        /\ out' = Dropped(token, o)
        /\ UNCHANGED locked
     \/ /\ Phrase # <<>>
        /\ ~IsPhraseKey(token)
        /\ typed' = <<>>
        /\ out' = Dropped(token, o)
        /\ UNCHANGED locked

(* Wrong: the end of a paste is not noticed.                               *)
handle_start(token, o) ==
  /\ in_paste' = (in_paste \/ token = PASTE_START)
  /\ \/ locked /\ handle_locked(token, o)
     \/ ~locked /\ handle_unlocked(token, o)

handle(token, o) ==
  /\ in_paste' = IF token = PASTE_START THEN TRUE
                 ELSE IF token = PASTE_END THEN FALSE ELSE in_paste
  /\ \/ locked /\ handle_locked(token, o)
     \/ ~locked /\ handle_unlocked(token, o)

-------------------------------------------------------------------------------
(* The public operations.  feed is a loop over the bytes of one read: Feed *)
(* enters it, FeedByte is one turn, and no other operation runs until the  *)
(* last byte is taken.                                                     *)

Feed ==
  /\ Idle
  /\ unread' \in 1..READ_SIZE
  /\ out' = NoOutput
  /\ UNCHANGED <<locked, held, in_paste>>

FeedByte(byte) ==
  /\ unread > 0
  /\ unread' = unread - 1
  /\ LET seq == Append(partial, byte) IN
     \/ /\ partial = <<>>
        /\ byte # ESC
        /\ handle(<<byte>>, out)
        /\ UNCHANGED partial
     \/ /\ partial = <<>>
        /\ byte = ESC
        /\ partial' = seq
        /\ UNCHANGED <<locked, prefix, typed, in_paste, out>>
     \/ /\ partial # <<>>
        /\ sequence_complete(seq)
        /\ partial' = <<>>
        /\ handle(seq, out)
     \/ /\ partial # <<>>
        /\ ~sequence_complete(seq)
        /\ partial' = seq
        /\ UNCHANGED <<locked, prefix, typed, in_paste, out>>

(* The escape timeout: what was collected is taken as it stands.           *)
flush ==
  /\ Idle
  /\ partial # <<>>
  /\ partial' = <<>>
  /\ handle(partial, NoOutput)
  /\ UNCHANGED unread

(* Wrong: one of the three is kept when the lock changes.                  *)
ForgetButPrefix  == partial' = <<>> /\ typed' = <<>> /\ UNCHANGED prefix
ForgetButPartial == prefix' = <<>> /\ typed' = <<>> /\ UNCHANGED partial
ForgetButTyped   == partial' = <<>> /\ prefix' = <<>> /\ UNCHANGED typed

(* A half-read escape belongs to the old state; flushing it later would    *)
(* leak a key typed while locked.                                          *)
ForgetHeld == partial' = <<>> /\ prefix' = <<>> /\ typed' = <<>>

set_locked(value) ==
  /\ Idle
  /\ locked # value
  /\ locked' = value
  /\ ForgetHeld
  /\ out' = NoOutput
  /\ UNCHANGED <<in_paste, unread>>

Init ==
  /\ locked \in BOOLEAN          \* --locked
  /\ partial = <<>> /\ prefix = <<>> /\ typed = <<>>
  /\ in_paste = FALSE
  /\ out = NoOutput
  /\ unread = 0

Next ==
  \/ Feed
  \/ \E byte \in Byte : FeedByte(byte)
  \/ flush
  \/ \E value \in BOOLEAN : set_locked(value)

Spec == Init /\ [][Next]_vars

-------------------------------------------------------------------------------
(* Properties.                                                             *)

TypeOK ==
  /\ locked \in BOOLEAN
  /\ partial \in Seq(Byte)
  /\ prefix \in Seq(Byte)
  /\ typed \in Seq(Printable)
  /\ in_paste \in BOOLEAN
  /\ out \in [forward : Seq(Byte), events : Seq(Event)]
  /\ unread \in 0..READ_SIZE

(* What the gate has collected is the start of one escape sequence: it     *)
(* begins with ESC, none of its prefixes was complete, and it is short of  *)
(* the limit (gate.rs:133-143, 213-229).  So flush never meets a sequence  *)
(* that tokenize should have taken, and memory is bounded.                 *)
PartialIncomplete ==
  partial # <<>> =>
    /\ partial[1] = ESC
    /\ Len(partial) < MAX_SEQUENCE
    /\ \A n \in 2..Len(partial) : ~sequence_complete(SubSeq(partial, 1, n))

(* A pending Ctrl+] belongs to an unlocked gate that has the hotkey: it    *)
(* can neither be forwarded by a locked gate nor lock a gate started with  *)
(* --no-hotkey (gate.rs:99-110, 162-181).                                  *)
PrefixOnlyUnlocked ==
  prefix # <<>> => ~locked /\ Hotkey /\ IsCtrlBracket(prefix)

(* The keys remembered for the phrase belong to a locked gate, never hold  *)
(* the whole phrase, and never more than its length (gate.rs:190-204), so  *)
(* no lock starts with keys of the time before it.                         *)
TypedOnlyLocked ==
  typed # <<>> => locked /\ Len(typed) <= Len(Phrase) /\ typed # Phrase

(* The relay applies the events of one call after the call, when the lock  *)
(* has its final value already (relay.rs:205-216).  That is sound because  *)
(* the last Lock or Unlock event tells this value and the events alternate,*)
(* and because dropped input is reported once, before the first unlock.    *)
Switches == {"Lock", "Unlock"}

EventsTell(events, value) ==
  /\ \A i \in DOMAIN events :
       \/ events[i] \notin Switches
       \/ (events[i] = "Lock") = value
       \/ \E j \in DOMAIN events : i < j /\ events[j] \in Switches
  /\ \A i, j \in DOMAIN events :
       i < j /\ events[i] \in Switches /\ events[j] = events[i] =>
         \E k \in DOMAIN events : i < k /\ k < j /\ events[k] \in Switches \ {events[i]}
  /\ \A i, j \in DOMAIN events :
       events[i] = "DroppedInput" /\ events[j] = "DroppedInput" => i = j
  /\ \A j \in DOMAIN events : events[j] = "Unlock" =>
       \E i \in DOMAIN events : i < j /\ events[i] = "DroppedInput"

EventsTellState == EventsTell(out.events, locked)

(* The gate implements the abstract lock: bytes held back are the pending  *)
(* Ctrl+] and the unfinished sequence of an unlocked gate.                 *)
Lock == INSTANCE InputLock WITH
  held       <- IF locked THEN <<>> ELSE prefix \o partial,
  forward    <- out.forward,
  LockKey    <- {<<CTRL_BRACKET>>, KITTY_CTRL_BRACKET},
  LockFinish <- {<<"l">>, KITTY_L}

ImplementsLock == Lock!Spec
===============================================================================
