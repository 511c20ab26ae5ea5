------------------------------ MODULE GateHistory ------------------------------
(***************************************************************************)
(* Gate with a history variable: every phrase key the locked gate took     *)
(* since the last token that was not one, or since the lock last changed.  *)
(* The gate itself keeps only a window of these keys (gate.rs:190-204); the*)
(* history says what the window stands for.                                *)
(***************************************************************************)
EXTENDS Gate

CONSTANT MaxRun    \* bound: longest run of phrase keys explored

ASSUME HistoryAssumption == MaxRun \in Nat

VARIABLE run

hvars == <<vars, run>>

EndsWith(s, t) ==
  Len(t) <= Len(s) /\ SubSeq(s, Len(s) - Len(t) + 1, Len(s)) = t

(* The token that one more byte completes, <<>> when it completes none.    *)
Token(byte) ==
  IF partial = <<>>
  THEN IF byte = ESC THEN <<>> ELSE <<byte>>
  ELSE IF sequence_complete(Append(partial, byte))
       THEN Append(partial, byte) ELSE <<>>

RunAfter(token) ==
  IF token = <<>> THEN run
  ELSE IF locked /\ IsPhraseKey(token) THEN Append(run, token[1]) ELSE <<>>

HInit == Init /\ run = <<>>

HFeedByte(byte) ==
  /\ FeedByte(byte)
  /\ run' = RunAfter(Token(byte))
  /\ Len(run') <= MaxRun

HNext ==
  \/ Feed /\ UNCHANGED run
  \/ \E byte \in Byte : HFeedByte(byte)
  \/ flush /\ run' = <<>>
  \/ \E value \in BOOLEAN : set_locked(value) /\ run' = <<>>

HSpec == HInit /\ [][HNext]_hvars

-------------------------------------------------------------------------------
(* The window is the end of the run: remembering Len(Phrase) keys loses    *)
(* nothing that a later key could need, whatever was typed before          *)
(* (gate.rs:193-197).                                                      *)
WindowIsEndOfRun ==
  locked /\ Phrase # <<>> =>
    /\ Len(typed) = IF Len(run) < Len(Phrase) THEN Len(run) ELSE Len(Phrase)
    /\ EndsWith(run, typed)

(* A byte read while locked unlocks exactly when the keys typed without a  *)
(* break end in the phrase: no stray key before it hides it, a phrase that *)
(* overlaps itself is found, and nothing else ever unlocks, --no-phrase    *)
(* included (gate.rs:183-205).                                             *)
UnlocksExactlyByPhrase ==
  [][unread > 0 /\ locked =>
       (~locked' <=> Phrase # <<>> /\ EndsWith(run', Phrase))]_hvars
===============================================================================
