--------------------------------- MODULE Relay ---------------------------------
(***************************************************************************)
(* The event loop of src/src/relay.rs: the user's terminal, the command    *)
(* behind its pseudo-terminal, the control socket and the signals, with    *)
(* the gate represented by what it promises (InputLock, which Gate         *)
(* implements).  What is shown besides the command's output is in          *)
(* RelayDisplay.                                                           *)
(*                                                                         *)
(* poll decides which descriptors this iteration looks at; the environment *)
(* goes on between the phases that follow, so what a phase finds may be    *)
(* more than what poll saw.                                                *)
(***************************************************************************)
EXTENDS Integers, SequencesExt

CONSTANTS
  MAX_PENDING_INPUT,  \* most bytes that wait for the command (64 KiB in the code)
  MaxPipe,            \* bytes the signal pipe holds
  SignalRead,         \* bytes one call of handle_signals takes (64 in the code)
  READ_SIZE,          \* bytes one call of read_stdin takes (4096 in the code)
  MaxTyped,           \* bound: keys typed in a session
  MaxEvents,          \* bound: things the environment does in a session
  Reopens,            \* TRUE: the command may open its terminal again
  Retries             \* TRUE: a read of the keys may have to be tried again

ASSUME RelayAssumption ==
  /\ MAX_PENDING_INPUT \in Nat
  /\ MaxPipe \in Nat \ {0} /\ SignalRead \in Nat \ {0}
  /\ READ_SIZE \in Nat \ {0}
  /\ MaxTyped \in Nat /\ MaxEvents \in Nat
  /\ Reopens \in BOOLEAN /\ Retries \in BOOLEAN

VARIABLES
  pc,        \* the phase of the loop, or of the start or end of the session
  ready,     \* what poll reported
  unread,    \* bytes of the current read that feed has still to take
  to_child,  \* input waiting for the command to read it
  pty_open,  \* FALSE once the loop has seen the command's side closed
  signals,   \* the signal pipe
  locked, held, forward      \* the gate

VARIABLES
  tty,       \* keys typed and not read
  hungup,    \* the user's terminal has gone away
  requests,  \* clients that wait on the control socket
  child,     \* "none", "running", "zombie" or "reaped"
  raw,       \* the user's terminal is in raw mode
  master,    \* keylock has its side of the pty open
  slave,     \* some process has the command's side of the pty open
  output,    \* chunks the command has written and the loop has not read
  got,       \* the input that reached the command
  typed,     \* keys typed so far
  events,    \* things the environment has done so far
  guarded,   \* history: keys that the command must not get
  polled,    \* history: keys typed when poll returned last
  noticed,   \* history: of these, the keys that read_stdin has taken or takes next
  left,      \* history: guarded keys it had to leave, when a client unlocked
  reopened,  \* history: the command opened a terminal that the loop had found closed
  owed       \* history: signals raised for the command and not passed on

gate == <<locked, held, forward>>
loop == <<pc, ready, unread, to_child, pty_open>>
command == <<child, raw, master>>
env  == <<tty, hungup, requests, slave, typed, events>>
hist == <<guarded, polled, noticed, left, reopened>>
vars == <<loop, gate, env, signals, command, output, got, hist, owed>>

Forwarded == {"TERM"}                       \* and INT and QUIT, treated alike
Signal    == Forwarded \cup {"HUP", "CHLD", "WINCH"}
Request   == {"on", "off"}                  \* status changes nothing

(* A key is the number of its keystroke.  Which keys are the lock key is   *)
(* left open: any two may be.                                              *)
Key == 1..MaxTyped
G == INSTANCE InputLock WITH
  Byte       <- Key,
  LockKey    <- {<<k>> : k \in Key},
  LockFinish <- {<<k>> : k \in Key}

(* A key typed under a lock is guarded.  The phrase gives free the keys    *)
(* after the one that completes it, a client those that poll had not seen. *)
Guard(last) ==
  /\ guarded' = IF locked /\ ~locked' THEN {k \in guarded : k <= last} ELSE guarded
  /\ UNCHANGED <<polled, noticed, reopened>>

(* What one read takes of n bytes that wait.                               *)
OneRead(n) == Min({n, READ_SIZE})

-------------------------------------------------------------------------------
(* The start, after the signal handlers are installed, and the end.        *)

(* openpty, fork or exec may fail.                                         *)
spawn ==
  /\ pc = "start"
  /\ \/ pc' = "failed" /\ UNCHANGED <<child, master, slave>>
     \/ pc' = "spawned" /\ child' = "running" /\ master' = TRUE /\ slave' = TRUE
  /\ UNCHANGED <<ready, unread, to_child, pty_open, gate, tty, hungup, requests, typed, events,
                 signals, raw, output, got, hist, owed>>

(* set_nonblocking and RawMode::enable, which remembers the mode it found. *)
enable ==
  /\ pc = "spawned"
  /\ \/ pc' = "failed" /\ UNCHANGED raw
     \/ pc' = "poll" /\ raw' = TRUE
  /\ UNCHANGED <<ready, unread, to_child, pty_open, gate, env, signals, child, master,
                 output, got, hist, owed>>

Ended == pc \in {"exited", "late", "hangup", "failed", "done"}

restore_terminal == raw' = FALSE

(* drop(relay) hangs up the command, drop(raw) restores the terminal; an   *)
(* early return drops what there is.                                       *)
finish ==
  /\ Ended /\ pc # "done" /\ pc' = "done"
  /\ master' = FALSE
  /\ restore_terminal
  /\ UNCHANGED <<ready, unread, to_child, pty_open, gate, env, signals, child,
                 output, got, hist, owed>>

-------------------------------------------------------------------------------
(* Phases.                                                                 *)

(* What does not come from the loop: at most MaxEvents times.              *)
Happens == ~Ended /\ events < MaxEvents /\ events' = events + 1

(* Wrong: clients are served before the keys that were waiting are read.   *)
PhasesControlFirst == <<"signals", "control", "stdin", "write", "child">>

Phases == <<"signals", "stdin", "write", "child", "control">>

(* The first phase after p that poll reported something for.               *)
PhaseAfter(p, r) ==
  LET later == {i \in DOMAIN Phases :
                  Phases[i] \in r /\ \A j \in DOMAIN Phases : Phases[j] = p => j < i}
  IN  IF later = {} THEN "timers" ELSE Phases[Min(later)]

Leave(p) == pc = p /\ pc' = PhaseAfter(p, ready)

(* What poll may report.  The pseudo-terminal takes input only when there  *)
(* is room, which is up to the command; it is not polled once closed.      *)
Pollable ==
  {p \in {"signals", "stdin", "child", "control"} :
     \/ p = "signals" /\ signals # <<>>
     \/ p = "stdin" /\ (tty # <<>> \/ hungup)
     \/ p = "child" /\ pty_open /\ (output > 0 \/ ~slave)
     \/ p = "control" /\ requests # <<>>}

poll ==
  /\ pc = "poll"
  /\ ready' \in {Pollable} \cup (IF pty_open /\ to_child # <<>> THEN {Pollable \cup {"write"}} ELSE {})
  /\ ready' # {} \/ held # <<>>             \* or the escape timeout
  /\ pc' = PhaseAfter("poll", ready')
  /\ polled' = typed
  /\ noticed' = typed - Len(tty) + OneRead(Len(tty))
  /\ UNCHANGED <<unread, to_child, pty_open, gate, env, signals, command, output, got,
                 guarded, left, reopened, owed>>

-------------------------------------------------------------------------------
(* handle_signals.  kill(-pid) reaches the command's process group.        *)

(* The signals of one read, and those of them before a hangup: they are    *)
(* handled in order.                                                       *)
Taken(s) == SubSeq(s, 1, IF Len(s) < SignalRead THEN Len(s) ELSE SignalRead)

BeforeHangUp(s) ==
  LET i == SelectInSeq(s, LAMBDA x : x = "HUP") IN IF i = 0 THEN s ELSE SubSeq(s, 1, i - 1)

(* Wrong: the command is waited for only when SIGCHLD was read.            *)
read_signals_chld ==
  /\ pc = "signals"
  /\ LET buf == Taken(signals) IN
     /\ signals' = SubSeq(signals, Len(buf) + 1, Len(signals))
     /\ owed' = owed \ Range(BeforeHangUp(buf))
     /\ pc' = IF Contains(buf, "HUP") THEN "hangup"
              ELSE IF Contains(buf, "CHLD") THEN "wait" ELSE PhaseAfter("signals", ready)
  /\ UNCHANGED <<ready, unread, to_child, pty_open, gate, env, command, output, got, hist>>

read_signals ==
  /\ pc = "signals"
  /\ LET buf == Taken(signals) IN
     /\ signals' = SubSeq(signals, Len(buf) + 1, Len(signals))
     /\ owed' = owed \ Range(BeforeHangUp(buf))
     /\ pc' = IF Contains(buf, "HUP") THEN "hangup" ELSE "wait"
  /\ UNCHANGED <<ready, unread, to_child, pty_open, gate, env, command, output, got, hist>>

(* Wrong: the loop goes on after the command has been waited for.          *)
try_wait_on ==
  /\ pc = "wait"
  /\ child' = IF child = "zombie" THEN "reaped" ELSE child
  /\ pc' = PhaseAfter("signals", ready)
  /\ UNCHANGED <<ready, unread, to_child, pty_open, gate, env, signals, raw, master,
                 output, got, hist, owed>>

try_wait ==
  /\ pc = "wait"
  /\ IF child = "zombie"
     THEN child' = "reaped" /\ pc' = "drain"
     ELSE UNCHANGED child /\ pc' = PhaseAfter("signals", ready)
  /\ UNCHANGED <<ready, unread, to_child, pty_open, gate, env, signals, raw, master,
                 output, got, hist, owed>>

-------------------------------------------------------------------------------
(* Input.                                                                  *)

(* Wrong: after a partial write everything is written again.               *)
write_again(q) ==
  \/ (~pty_open \/ ~slave) /\ to_child' = <<>> /\ UNCHANGED got
  \/ /\ pty_open /\ slave
     /\ \E n \in 0..Len(q) :
          /\ got' = got \o SubSeq(q, 1, n)
          /\ to_child' = IF n = Len(q) THEN <<>> ELSE q

(* write_to_child, with q waiting: the pty takes as much as it has room    *)
(* for.  A closed pty takes nothing, and what waits is forgotten.          *)
write_to_child(q) ==
  \/ /\ ~pty_open \/ ~slave
     /\ to_child' = <<>>
     /\ UNCHANGED got
  \/ /\ pty_open /\ slave
     /\ \E n \in 0..Len(q) :
          /\ got' = got \o SubSeq(q, 1, n)
          /\ to_child' = SubSeq(q, n + 1, Len(q))

(* Wrong: the queue has no limit.                                          *)
apply_unbounded == write_to_child(to_child \o forward) /\ G!Begin /\ UNCHANGED hist

(* apply: what one call forwards is queued whole, or lost whole.           *)
apply ==
  /\ write_to_child(IF Len(to_child) + Len(forward) <= MAX_PENDING_INPUT
                    THEN to_child \o forward ELSE to_child)
  /\ G!Begin
  /\ UNCHANGED hist

(* Wrong: a read that yields nothing is passed over.                       *)
read_stdin_on ==
  /\ pc = "stdin"
  /\ \/ tty = <<>> /\ pc' = PhaseAfter("stdin", ready) /\ UNCHANGED unread
     \/ tty # <<>> /\ pc' = "feed" /\ unread' = OneRead(Len(tty))
  /\ UNCHANGED <<ready, to_child, pty_open, gate, env, signals, command, output, got, hist, owed>>

read_stdin ==
  /\ pc = "stdin"
  /\ \/ tty = <<>> /\ pc' = "hangup" /\ UNCHANGED unread
     \/ tty # <<>> /\ pc' = "feed" /\ unread' = OneRead(Len(tty))
  /\ UNCHANGED <<ready, to_child, pty_open, gate, env, signals, command, output, got, hist, owed>>

(* The read has to be tried again: this iteration reads nothing.           *)
stdin_retried ==
  /\ Retries /\ Happens
  /\ Leave("stdin")
  /\ noticed' = Min({noticed, typed - Len(tty)})
  /\ UNCHANGED <<guarded, polled, left, reopened>>
  /\ UNCHANGED <<ready, unread, to_child, pty_open, gate, tty, hungup, requests, slave, typed,
                 signals, command, output, got, owed>>

feed ==
  /\ pc = "feed" /\ unread > 0
  /\ G!Type(Head(tty))
  /\ Guard(Head(tty)) /\ UNCHANGED left
  /\ tty' = Tail(tty)
  /\ unread' = unread - 1
  /\ UNCHANGED <<pc, ready, to_child, pty_open, hungup, requests, slave, typed, events,
                 signals, command, output, got, owed>>

fed ==
  /\ unread = 0
  /\ pc = "feed" /\ pc' = PhaseAfter("stdin", ready)
  /\ apply
  /\ UNCHANGED <<ready, unread, pty_open, env, signals, command, output, owed>>

pollout ==
  /\ Leave("write")
  /\ write_to_child(to_child)
  /\ UNCHANGED <<ready, unread, pty_open, gate, env, signals, command, output, hist, owed>>

(* on_timers: an unfinished escape sequence has waited long enough.        *)
flush ==
  /\ pc = "timers"
  /\ held # <<>>
  /\ pc' = "flushed"
  /\ G!Timeout
  /\ UNCHANGED hist
  /\ UNCHANGED <<ready, unread, to_child, pty_open, env, signals, command, output, got, owed>>

flushed ==
  /\ pc = "flushed" /\ pc' = "poll"
  /\ apply
  /\ UNCHANGED <<ready, unread, pty_open, env, signals, command, output, owed>>

no_flush ==
  /\ pc = "timers" /\ pc' = "poll"
  /\ UNCHANGED <<ready, unread, to_child, pty_open, gate, env, signals, command, output, got, hist, owed>>

-------------------------------------------------------------------------------
(* Output and control.                                                     *)

(* Wrong: a terminal nobody has open is taken for empty.                   *)
read_child_closed ==
  \/ ~slave /\ pty_open' = FALSE /\ UNCHANGED output
  \/ slave /\ output > 0 /\ output' \in 0..output - 1 /\ UNCHANGED pty_open
  \/ slave /\ output = 0 /\ UNCHANGED <<pty_open, output>>

(* A pty with no one on the other side still yields what was written.      *)
read_child ==
  \/ output > 0 /\ output' \in 0..output - 1 /\ UNCHANGED pty_open
  \/ output = 0 /\ pty_open' = (pty_open /\ slave) /\ UNCHANGED output

(* What was read cannot be shown on a terminal that has gone away, which   *)
(* ends the session with an error.                                         *)
child_phase ==
  /\ pc = "child"
  /\ read_child
  /\ \/ pc' = PhaseAfter("child", ready)
     \/ hungup /\ output > 0 /\ pc' = "failed"
  /\ UNCHANGED <<ready, unread, to_child, gate, env, signals, command, got, hist, owed>>

(* serve goes on until no client waits.                                    *)
serve_one ==
  /\ pc = "control" /\ requests # <<>>
  /\ IF locked = (Head(requests) = "on") THEN UNCHANGED gate ELSE G!Switch
  /\ Guard(polled)
  /\ left' = IF locked /\ ~locked' THEN left \cup {k \in guarded : k > noticed} ELSE left
  /\ requests' = Tail(requests)
  /\ UNCHANGED <<loop, tty, hungup, slave, typed, events, signals, command, output, got, owed>>

served ==
  /\ Leave("control") /\ requests = <<>>
  /\ UNCHANGED <<ready, unread, to_child, pty_open, gate, env, signals, command, output, got, hist, owed>>

(* Wrong: one read is taken for all.                                       *)
drain_once ==
  /\ pc = "drain"
  /\ \/ pty_open /\ read_child
     \/ ~pty_open /\ UNCHANGED <<pty_open, output>>
  /\ pc' = "exited"
  /\ UNCHANGED <<ready, unread, to_child, gate, env, signals, command, got, hist, owed>>

(* drain_child_output, until nothing is there or the deadline has passed.  *)
drain ==
  /\ pc = "drain"
  /\ \/ pty_open /\ read_child /\ pc' = IF output > 0 THEN "drain" ELSE "exited"
     \/ ~pty_open /\ pc' = "exited" /\ UNCHANGED <<pty_open, output>>
     \/ pty_open /\ hungup /\ output > 0 /\ read_child /\ pc' = "failed"
     \/ pc' = "late" /\ UNCHANGED <<pty_open, output>>
  /\ UNCHANGED <<ready, unread, to_child, gate, env, signals, command, got, hist, owed>>

Loop ==
  \/ spawn \/ enable \/ finish
  \/ poll \/ read_signals \/ try_wait \/ read_stdin \/ stdin_retried \/ feed \/ fed \/ pollout
  \/ child_phase \/ serve_one \/ served \/ flush \/ flushed \/ no_flush \/ drain

-------------------------------------------------------------------------------
(* The environment.                                                        *)

(* on_signal: a full pipe drops the signal.                                *)
on_signal(s) ==
  /\ signals' = IF Len(signals) < MaxPipe THEN Append(signals, s) ELSE signals
  /\ owed' = owed \cup (Forwarded \cap {s})

UserTypes ==
  /\ Happens
  /\ ~hungup /\ typed < MaxTyped
  /\ typed' = typed + 1
  /\ tty' = Append(tty, typed')
  /\ guarded' = IF locked THEN guarded \cup {typed'} ELSE guarded
  /\ UNCHANGED <<polled, noticed, left, reopened>>
  /\ UNCHANGED <<loop, gate, hungup, requests, slave, signals, command, output, got, owed>>

(* A terminal that goes away sends SIGHUP too.                             *)
TerminalGoes ==
  /\ Happens
  /\ ~hungup /\ hungup' = TRUE
  /\ on_signal("HUP")
  /\ UNCHANGED <<loop, gate, tty, requests, slave, typed, command, output, got, hist>>

ClientAsks ==
  /\ Happens
  /\ \E r \in Request : requests' = Append(requests, r)
  /\ UNCHANGED <<loop, gate, tty, hungup, slave, typed, signals, command, output, got, hist, owed>>

(* Until raw mode is on, Ctrl+C is one of these signals.                   *)
SignalComes ==
  /\ Happens
  /\ \E s \in {"TERM", "WINCH"} : on_signal(s)
  /\ UNCHANGED <<loop, gate, tty, hungup, requests, slave, typed, command, output, got, hist>>

CommandWrites ==
  /\ Happens
  /\ slave
  /\ output' = output + 1
  /\ UNCHANGED <<loop, gate, tty, hungup, requests, slave, typed, signals, command, got, hist, owed>>

(* The command, or what it left running, closes the terminal.              *)
CommandCloses ==
  /\ Happens
  /\ slave /\ slave' = FALSE
  /\ UNCHANGED <<loop, gate, tty, hungup, requests, typed, signals, command, output, got, hist, owed>>

CommandReopens ==
  /\ Happens
  /\ Reopens /\ child = "running"
  /\ ~slave /\ slave' = TRUE
  /\ reopened' = (reopened \/ ~pty_open)
  /\ UNCHANGED <<guarded, polled, noticed, left>>
  /\ UNCHANGED <<loop, gate, tty, hungup, requests, typed, signals, command, output, got, owed>>

(* A process left in the background may keep the terminal.                 *)
CommandExits ==
  /\ ~Ended
  /\ child = "running" /\ child' = "zombie"
  /\ slave' \in {slave, FALSE}
  /\ on_signal("CHLD")
  /\ UNCHANGED <<loop, gate, tty, hungup, requests, typed, events, raw, master, output, got, hist>>

Environment ==
  \/ UserTypes \/ TerminalGoes \/ ClientAsks \/ SignalComes
  \/ CommandWrites \/ CommandCloses \/ CommandReopens \/ CommandExits

Init ==
  /\ pc = "start" /\ ready = {} /\ unread = 0
  /\ to_child = <<>> /\ pty_open = TRUE
  /\ signals = <<>>
  /\ G!Init
  /\ tty = <<>> /\ hungup = FALSE
  /\ requests = <<>>
  /\ child = "none" /\ raw = FALSE /\ master = FALSE
  /\ slave = FALSE /\ output = 0 /\ got = <<>>
  /\ typed = 0 /\ events = 0
  /\ guarded = {} /\ polled = 0 /\ noticed = 0 /\ left = {}
  /\ reopened = FALSE /\ owed = {}

Next == Loop \/ Environment

(* The loop does not stop; nobody has to do anything to it.                *)
Spec == Init /\ [][Next]_vars /\ WF_vars(Loop)

-------------------------------------------------------------------------------
(* Properties.                                                             *)

TypeOK ==
  /\ pc \in Range(Phases) \cup {"start", "spawned", "poll", "wait", "feed", "timers", "flushed",
                                "drain", "exited", "late", "hangup", "failed", "done"}
  /\ ready \subseteq Range(Phases)
  /\ unread \in 0..Len(tty)
  /\ to_child \in Seq(Key) /\ Len(to_child) <= MAX_PENDING_INPUT
  /\ pty_open \in BOOLEAN
  /\ signals \in Seq(Signal) /\ Len(signals) <= MaxPipe
  /\ locked \in BOOLEAN /\ held \in Seq(Key) /\ forward \in Seq(Key)
  /\ tty \in Seq(Key) /\ got \in Seq(Key)
  /\ child \in {"none", "running", "zombie", "reaped"}

(* A key typed while the session is locked never gets to the command, nor  *)
(* on its way to it, then or later: not through the queue, the pty or a    *)
(* held escape, and not because a client unlocks the session while the key *)
(* waits to be read.  Free are the keys after the phrase, those typed when *)
(* poll had returned to serve the client that unlocks, and, of those that  *)
(* waited then, what read_stdin left: what is beyond one read of READ_SIZE *)
(* bytes, or waits because the read has to be tried again (README.md:7-9,  *)
(* relay.rs:154-172, 190-203).                                             *)
NothingLeaks == Range(got \o to_child \o forward \o held) \cap (guarded \ left) = {}

(* "While keylock is locked, every key, Ctrl+C, mouse click and paste is   *)
(* dropped" (README.md:7-8): also what did not fit into one read, when a   *)
(* client unlocks after that read (relay.rs:160-169, 191-192).             *)
PasteDropped == Range(got) \cap guarded = {}

(* Input keeps its order from the keyboard to the command and arrives at   *)
(* most once, through partial writes, timeouts, overflow and every switch  *)
(* of the lock (relay.rs:199-236).                                         *)
InOrder ==
  LET way == got \o to_child \o forward \o held \o tty
  IN  \A i, j \in DOMAIN way : i < j => way[i] < way[j]

(* The process group is signalled only while its leader has not been       *)
(* waited for: its pid cannot belong to another process yet                *)
(* (relay.rs:289-316).                                                     *)
KillsOwnChild == [][pc = "signals" => child # "reaped"]_vars

Over == pc = "done" /\ ~raw /\ ~master

(* The session ends, and the terminal is restored, when the user's         *)
(* terminal has gone away: at the latest when what was typed before has    *)
(* been read, even if SIGHUP found the pipe full, nothing but the terminal *)
(* is ready, or the session had only begun (relay.rs:46-89, 159-161, 193). *)
HangUpEnds == hungup ~> Over

(* The session ends when the command has exited, even if SIGCHLD found the *)
(* pipe full: whatever is in it wakes the loop, which asks for the command *)
(* every time (relay.rs:313-315, 431-433).                                 *)
SessionEnds == child = "zombie" ~> Over

(* What the command writes is read before the session ends, as long as the *)
(* loop has not found the terminal closed: no other descriptor starves it, *)
(* and a terminal is not taken for closed while it still holds output      *)
(* (relay.rs:121-125, 154-172, 240-260).                                   *)
OutputRead == output > 0 /\ pty_open ~> output = 0 \/ Ended

(* At the end nothing that the command wrote is left behind, unless the    *)
(* deadline passed, or the command opened its terminal again after the     *)
(* loop had found it closed: pty_open is never set again, and what is      *)
(* written then is not read (relay.rs:121-125, 255, 262-268).              *)
LastOutput == pc = "exited" => output = 0 \/ reopened

(* A signal to end the command is passed on ("one pending wake-up is       *)
(* enough", relay.rs:432-433), unless the session ends before.             *)
SignalsPassed == owed # {} ~> owed = {} \/ Ended
===============================================================================
