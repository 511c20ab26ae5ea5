----------------------------- MODULE RelayDisplay -----------------------------
(***************************************************************************)
(* What the user's terminal shows: the relay loop of src/src/relay.rs with *)
(* the output filter, the lock mark in the title and the hint that a       *)
(* dropped key flashes.                                                    *)
(*                                                                         *)
(* One iteration of the loop starts in phase "poll", passes "child" and    *)
(* "control" when poll reported the command's output or a client, and ends *)
(* in "timers".  The gate is represented by its lock and by the events     *)
(* that one call of feed or flush can report.  Time is one bit: quiet says *)
(* that next_flash is still to come.  flash_until is next_flash when it is *)
(* set, so flash_on is the other bit that on_timers reads.                 *)
(***************************************************************************)
EXTENDS TitleTerminal

CONSTANTS
  MaxQueue,   \* bound: symbols of own output that wait when more is queued
  MaxReports  \* bound: events that one call of feed reports

ASSUME DisplayAssumption == MaxQueue \in Nat /\ MaxReports \in Nat

VARIABLES
  pc,      \* phase of the loop, or of the end of the session
  locked,  \* the gate's lock
  own      \* keylock's output: to_user, and the two bits of the flash

loopvars == <<pc, locked, own>>
dvars    == <<fvars, terminal, loopvars>>

NameText == <<"NAME">>                      \* the session's name
HintText == <<LOCK_PREFIX, "HINT">>         \* how to unlock it

set_title(text) == <<ESC, "]", "2;">> \o text \o <<BEL>>

base_title == IF last_title = <<>> THEN NameText ELSE last_title[1]

-------------------------------------------------------------------------------
(* Functions of the relay that queue output; o is own, lk the gate's lock. *)

queue_title(o, lk) ==
  [o EXCEPT !.to_user = @ \o set_title((IF lk THEN <<LOCK_PREFIX>> ELSE <<>>) \o base_title)]

(* Wrong: the hint stays on, or the title does not follow the lock.        *)
state_changed_on(o, lk)     == queue_title(o, lk)
state_changed_silent(o, lk) == [o EXCEPT !.flash_on = FALSE]

state_changed(o, lk) == queue_title([o EXCEPT !.flash_on = FALSE], lk)

flash(o) ==
  IF o.quiet THEN o
  ELSE [to_user  |-> o.to_user \o <<BEL>> \o set_title(HintText),
        flash_on |-> TRUE,
        quiet    |-> TRUE]

(* The events of one call, one after the other, when the gate's lock has   *)
(* become lk.                                                              *)
apply(o, events, lk) ==
  LET after[n \in 0..Len(events)] ==
        IF n = 0 THEN o
        ELSE IF events[n] = "DroppedInput" THEN flash(after[n - 1])
        ELSE state_changed(after[n - 1], lk)
  IN  after[Len(events)]

(* What feed can report: that keys were dropped once, after the lock is on *)
(* and before the phrase can be complete; then Unlock and Lock alternate   *)
(* as often as the bytes of one read allow (gate.rs:112-121, 162-205).     *)
Report(lk, i) ==
  LET n == IF lk THEN i ELSE i - 1
  IN  IF n = 1 THEN "DroppedInput" ELSE IF n > 0 /\ n % 2 = 0 THEN "Unlock" ELSE "Lock"

Reports(lk) == {[i \in 1..n |-> Report(lk, i)] : n \in 0..MaxReports}

LockAfter(events, lk) ==
  LET changes == {i \in DOMAIN events : events[i] # "DroppedInput"}
  IN  IF changes = {} THEN lk ELSE events[Max(changes)] = "Lock"

(* The bound: no more is queued on top of what waits, beyond MaxQueue.     *)
Bounded == own.to_user = <<>> \/ Len(own'.to_user) <= MaxQueue \/ own'.to_user = own.to_user

-------------------------------------------------------------------------------
(* The loop.                                                               *)

(* Wrong: poll does not wait for the end of the hint.                      *)
FlashOverNever == FALSE

(* poll's timeout has passed, because of flash_until.                      *)
FlashOver == own.flash_on /\ ~own.quiet

(* handle_signals found nothing.  read_stdin feeds what the terminal sent. *)
read_stdin ==
  /\ pc = "poll"
  /\ \E events \in Reports(locked) :
       /\ locked' = LockAfter(events, locked)
       /\ own' = apply(own, events, locked')
       /\ Bounded
  /\ pc' \in {"child", "control", "timers"}
  /\ UNCHANGED <<fvars, terminal>>

NoInput ==
  /\ pc = "poll"
  /\ pc' \in {"child", "control"}
  /\ UNCHANGED <<fvars, terminal, locked, own>>

(* poll's timeout: on_timers has something to do.                          *)
Timeout ==
  /\ pc = "poll"
  /\ FlashOver
  /\ pc' = "timers"
  /\ UNCHANGED <<fvars, terminal, locked, own>>

(* One read of the command's output is any number of bytes, filtered with  *)
(* the same lock and written at once.                                      *)
read_child(byte) ==
  /\ pc \in {"child", "drain"}
  /\ Write(byte, locked)
  /\ UNCHANGED loopvars

ChildRead ==
  /\ pc = "child"
  /\ pc' \in {"control", "timers"}
  /\ written' = <<>> /\ taken' = BEL       \* the chunk has been written
  /\ UNCHANGED <<state, remaining, osc, last_title, terminal, locked, own>>

(* serve answers all the clients that wait; the title is queued once, with *)
(* the lock as the last of them left it.                                   *)
serve_control ==
  /\ pc = "control"
  /\ pc' = "timers"
  /\ \/ UNCHANGED <<locked, own>>
     \/ /\ locked' \in BOOLEAN
        /\ own' = state_changed(own, locked')
        /\ Bounded
  /\ UNCHANGED <<fvars, terminal>>

(* The escape timeout hands over an unfinished sequence, if the gate holds *)
(* one: a locked gate drops it, an unlocked one reports nothing.           *)
FlushReports(lk) == IF lk THEN { <<>>, <<"DroppedInput">> } ELSE { <<>> }

(* Wrong: the hint is switched off and nothing takes its place.            *)
AfterFlashSilent(o) ==
  IF o.flash_on /\ ~o.quiet THEN [o EXCEPT !.flash_on = FALSE] ELSE o

AfterFlash(o) ==
  IF o.flash_on /\ ~o.quiet
  THEN LET off == [o EXCEPT !.flash_on = FALSE]
       IN  IF locked THEN queue_title(off, locked) ELSE off
  ELSE o

(* Wrong: what is queued does not wait for the end of a sequence.          *)
emit_at_once(o) ==
  /\ own' = [o EXCEPT !.to_user = <<>>]
  /\ terminal' = TerminalAfter(terminal, o.to_user)

emit_queued(o) ==
  IF o.to_user = <<>> \/ in_sequence
  THEN own' = o /\ UNCHANGED terminal
  ELSE /\ own' = [o EXCEPT !.to_user = <<>>]
       /\ terminal' = TerminalAfter(terminal, o.to_user)

(* on_timers and emit_queued, with which every iteration ends.             *)
EndIteration ==
  /\ pc = "timers"
  /\ pc' = "poll"
  /\ \E events \in FlushReports(locked) :
       /\ emit_queued(AfterFlash(apply(own, events, locked)))
       /\ events # <<>> => Bounded
  /\ UNCHANGED <<fvars, locked>>

(* Two seconds have passed since the last flash.                           *)
Elapse ==
  /\ own.quiet
  /\ pc \notin {"drain", "done"}
  /\ own' = [own EXCEPT !.quiet = FALSE]
  /\ UNCHANGED <<fvars, terminal, pc, locked>>

-------------------------------------------------------------------------------
(* The beginning and the end of a session.                                 *)

Start ==
  /\ pc = "start"
  /\ pc' = "poll"
  /\ IF locked THEN emit_queued(queue_title(own, locked)) ELSE UNCHANGED <<own, terminal>>
  /\ UNCHANGED <<fvars, locked>>

(* handle_signals, when the command has exited: its last output is copied  *)
(* and the title loses the mark.                                           *)
CommandExits ==
  /\ pc = "poll"
  /\ pc' = "drain"
  /\ UNCHANGED <<fvars, terminal, locked, own>>

(* Wrong: the title is left as it is.                                      *)
reset_nothing ==
  /\ pc = "drain"
  /\ pc' = "done"
  /\ UNCHANGED <<fvars, terminal, locked, own>>

reset_title ==
  /\ pc = "drain"
  /\ pc' = "done"
  /\ terminal' = IF locked /\ ~in_sequence
                 THEN TerminalAfter(terminal, set_title(base_title)) ELSE terminal
  /\ UNCHANGED <<fvars, locked, own>>

DInit ==
  /\ TInit
  /\ pc = "start"
  /\ locked \in BOOLEAN
  /\ own = [to_user |-> <<>>, flash_on |-> FALSE, quiet |-> FALSE]

DNext ==
  \/ Start
  \/ read_stdin
  \/ NoInput
  \/ Timeout
  \/ \E byte \in Byte : read_child(byte)
  \/ ChildRead
  \/ serve_control
  \/ EndIteration
  \/ Elapse
  \/ CommandExits
  \/ reset_title

(* An iteration that has begun goes on to its end, a chunk of output ends, *)
(* poll's timeout expires, and time passes.  Nothing makes the user type,  *)
(* a client ask, or the command write or exit.                             *)
GoesOn ==
  /\ pc \in {"child", "control", "timers"}
  /\ pc' \in {"control", "timers", "poll"} \ {pc}

DFairness == WF_pc(GoesOn) /\ WF_dvars(Timeout) /\ WF_dvars(Elapse)

DSpec == DInit /\ [][DNext]_dvars /\ DFairness

-------------------------------------------------------------------------------
(* Properties.                                                             *)

Marked(title) == title # <<>> /\ Head(title) = LOCK_PREFIX

(* Whatever keylock shows of its own, it shows between two sequences or    *)
(* characters of the command: the queue waits, and the hint, the timers,   *)
(* the start and the end of a session go the same way (relay.rs:334-379).  *)
(* Only the command's own output leaves pc as it is.                       *)
InsertsBetween ==
  [][terminal' # terminal /\ pc' # pc => AtGround(terminal)]_dvars

(* At the top of the loop, when the command is not within a sequence, the  *)
(* title starts with the lock exactly while the session is locked, however *)
(* titles of the command, locks, unlocks, hints and half-written sequences *)
(* have been interleaved (README.md:48, relay.rs:334-379).                 *)
TitleShowsLock ==
  pc = "poll" /\ ~in_sequence => (locked <=> Marked(terminal.title))

(* The hint is on only while the session is locked, and there is never a   *)
(* title in the queue that a later change of the lock has made wrong: the  *)
(* last one queued has the mark that the lock calls for (relay.rs:206-216, *)
(* 284-286, 334-337).                                                      *)
QueueTellsLock ==
  /\ own.flash_on => locked
  /\ own.to_user # <<>> =>
       (locked <=> Marked(TerminalAfter(Fresh, own.to_user).title))

(* When the command exits, the mark is taken off the title, unless it left *)
(* a sequence unfinished or a title of keylock's was waiting for the end   *)
(* of one (relay.rs:70-76, 366-370).                                       *)
ExitUnmarks ==
  pc = "done" /\ ~in_sequence /\ own.to_user = <<>> => ~Marked(terminal.title)

(* The hint does not stay: once no key is dropped any more the title is    *)
(* shown again, also when nothing else happens and only the timeout of     *)
(* poll ends the hint ("briefly shows how to unlock", README.md:48-49;     *)
(* relay.rs:178-186, 325-330).  The loop must come to wait while the       *)
(* command is not within a sequence, for good or again and again.          *)
HintEnds ==
  <>[]~own.quiet /\ []<>(pc = "poll" /\ ~in_sequence) =>
    (terminal.title = HintText ~> terminal.title # HintText)
===============================================================================
