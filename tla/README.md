# A TLA+ model of keylock

`keylock` runs a command in a pseudo-terminal and sits between it and the
user's terminal. While the session is locked no key reaches the command; output
always passes through. Locks are switched from inside (Ctrl+] `l`, and typing
the unlock phrase) or from another process (`keylock on` and `off`, over a Unix
socket).

This directory holds TLA+ modules translated from the Rust source, TLC
configurations that check small instances of them, and theorems that TLAPS
proves for every value of the constants. `PROJECT.json` names, for every
definition that stands for code, the lines it translates, and lists the runs,
mutants, findings, hazards and theorems.

    tlc -workers 2 -config gate.cfg MCGate        # a run
    tlapm GateProofs.tla                          # a proof module

## The system

| Part | State | Operations | Status |
|------|-------|------------|--------|
| input gate, `gate.rs` | lock, half-read escape sequence, pending Ctrl+], window of typed keys, in a paste or not | `feed`, `flush`, `set_locked` | modelled, proved |
| output filter, `title.rs` | where in an escape sequence the output is, unfinished OSC, last title | `filter` (`step`) | modelled, proved |
| relay loop, `relay.rs` | queues to the command and to the user, pty open or not, signal pipe, times of the hint | one iteration of `run_loop`: signals, input, write, output, control, timers, queued output; `on_signal`; the end of a session | modelled in two modules, proved |
| control socket, `control.rs` | a directory of sockets, and connections to them | `ensure_dir`, `bind`, `serve`, `send`, `list`, `Drop` | modelled, proved |
| pseudo-terminal, `pty.rs` | the terminal's saved mode | `spawn`, raw mode, window sizes | steps of `Relay`; window sizes are not modelled |
| command line, `cli.rs` | none | `parse` | assumptions on constants |
| `main.rs`, `lib.rs` | none | `run`, `request`, `ls`, exit codes | the processes of `Sessions`; exit codes are not modelled |

How they interact. The relay is one thread. `poll` tells it what is ready; it
hands bytes of the user to the gate, which returns bytes to forward and events
(`Lock`, `Unlock`, `DroppedInput`); it hands bytes of the command to the filter
together with the lock, and writes what the filter returns. It asks the filter
before it inserts titles of its own. Clients call `set_locked` through `serve`.
Signal handlers only write a byte into a pipe that `poll` watches. Around the
thread everything moves: the user types and pastes, the terminal cuts what it
sends into reads, the command writes, closes its terminal and exits, clients
and signals come. Sessions and clients are processes of their own; they meet
in the directory of sockets and nowhere else, and nothing locks it.

What is hard, and for which part:

* *gate*: reads, the 25 ms escape timeout and clients cut sequences anywhere;
  a window stands for everything typed; pastes look like keys.
* *filter*: it follows a grammar that the terminal parses on its own; output is
  malformed, cut and unbounded; bytes are withheld.
* *relay*: phases of an iteration act on what `poll` saw while the world goes
  on; queues and the pipe are bounded; writes are partial; end-of-file, exit
  and last output come in any order; titles are composed at one time and shown
  at another.
* *control*: several processes share a directory without a lock; sessions are
  killed and leave sockets; clients give up while their request is on its way.

What makes each part correct:

* *gate*: it is a keyboard lock (nothing forwarded while locked, everything in
  order and once while not); it unlocks by the phrase and by nothing else; a
  paste switches nothing.
* *filter*: apart from the lock mark the output is unchanged; when it says
  "ground", the terminal is between sequences.
* *relay*: no key typed under a lock reaches the command, whenever the lock is
  switched (but those that one read leaves, see `NothingLeaks`); the session ends with the command or with the user's terminal, and
  restores it; all output is read; the title tells the lock.
* *control*: a live session stays reachable under its name, only dead sockets
  are removed, and a request is carried out at most once by the session asked.

## Modules

    InputLock        abstract: what a keyboard lock promises
    Gate             gate.rs; implements InputLock
    GateHistory      Gate and the run of keys that its window stands for
    GatePaste        Gate and a terminal that knows what is pasted
    TitleFilter      title.rs
    Terminal         external: the parser of the user's terminal
    TitleTerminal    TitleFilter and Terminal side by side
    RelayDisplay     relay.rs: what the terminal shows; extends TitleTerminal
    Relay            relay.rs: input, output, signals, clients; uses InputLock
    Registry         abstract: live sessions, their names, locks and answers
    Sessions         control.rs and main.rs: one directory, many processes; implements Registry
    MC*              constants of the runs
    GateProofs, GateHistoryProofs, GatePasteProofs   theorems about the gate
    TitleProofs      theorems about the filter
    DisplayProofs    theorems about TitleTerminal and RelayDisplay
    RelayProofs      theorems about Relay
    SessionsProofs, RegistryProofs   theorems about Sessions; it implements Registry

**Gate.** A byte is a symbol, and a run of CSI parameters such as `200` is one
symbol. `Feed` enters the loop of `feed`, `FeedByte` is one turn of it
(`tokenize`, then `handle`), so that properties see every byte; `set_locked` and
`flush` need `Idle`, because the relay's thread is in none of them twice.
`handle_unlocked` and `handle_locked` have one disjunct per branch.
`MAX_SEQUENCE` counts symbols.

**InputLock.** Keys may be held back while the lock is off (`held`), and are
then handed over, doubled Ctrl+] as one, or taken as the lock key. `Gate`
implements it with `held <- prefix \o partial` (nothing while locked) and
`forward <- out.forward`. `Relay` uses it in place of the gate.

**GateHistory** adds `run`, all keys of a phrase that a locked gate took without
a break. **GatePaste** adds the terminal's queue, each byte with what it really
is. `Pace` and `Cuts` say what the user and time do: the passing run
has a user who waits for the timeout after Escape and sequences that arrive
whole (a lock change may still find a lone Escape that waits, and drops it); the
two violation runs give up one of these each. `CLICK` is a mouse report whose
raw bytes spell the phrase. Pasted text (`Pasted`) is made of keys, Ctrl+], ESC
with a character that ends the sequence (`EscapePair`, ESC ESC among them), arrow
keys, mouse reports and start markers. Two things it does not hold: the end
marker, which ends the paste for every program that reads it, and a sequence that
the end of the paste leaves unfinished, which would swallow the ESC of the end
marker as a typed Escape does. The terminal is relied on to keep both out.

**TitleFilter** has one action per state of `step`. A byte that the code reads
again in another state (`self.step` within `step`) is one step here too.
`written` is what the step wrote. The two bytes `0;` or `2;` are one symbol, so
an OSC that ends after the digit is not told from one that holds no title.

**TitleTerminal** writes the filter's output into `Terminal`, a parser after
ECMA-48 and xterm, not after this code. `Known` names the output for which the
filter claims to know where the terminal is; `Unknown` says what other output
does: it is not written ("excluded"), or written and the terminal is followed
no further ("unfollowed", so that the filter alone is checked on arbitrary
output), or followed all the same ("followed", the violation run). `Terminal`
and `apply` of `RelayDisplay` use recursive functions, which the prover can
unfold, where a fold would do for TLC.

**RelayDisplay** composes the filter, the terminal and the loop. The gate is
its lock and the event lists that one call can return (`Reports`: dropped keys,
then switches that alternate, up to `MaxReports` events; checked and proved of the
gate itself as `EventsTellState`). Time is two bits: `quiet` (`now <
next_flash`) and `flash_on` (`flash_until` is set; when it is, it equals
`next_flash`). Every iteration ends with `EndIteration`, which is `on_timers`
and `emit_queued` in one action.

**Sessions** has one action per system call that others can see, in the order
of the code: `Run`, then `Attempt` (room and `symlink_metadata`), `Probe`,
`RemoveStale`, `Bind`, `Listen` (both in `UnixListener::bind`), `Chmod`;
`serve_one`; `Unlink` and `Close` at the end; `Connect`, `WriteLine`,
`ReadLine` for `send`; `ReadDir`, `NextName` and `Purge` for `list`. `Kill` may
come anywhere and leaves the file. The directory `file` is a function from names
to whoever bound the socket; `listening` says whose sockets accept. A timeout is
a step that is always allowed: it stands for any delay. `Overlaps = FALSE` lets
no process begin a test of a name (`Attempt`, the refusal in `list`) while
another is between such a test and what it was made for (`Critical`); everything
else still interleaves, deaths in those places included.

**Registry** says what this is for: names of live sessions are unique, a request
is carried out by the session of that name, at most once, the answer is the lock
that it left, "no session" is said only when it is true. A session is registered
while its socket is there and accepts.

**Relay** has one action per phase and per system call that can find the world
changed. `poll` records what is ready; the environment steps between the
phases. `apply` and `write_to_child` are one action, `fed` or `flushed`, as
nothing can come between them. `Phases` is the order of the handlers in
`run_loop`. `spawn`, `enable` and `finish` are the start and the end of `run`,
with early returns. Keys are the numbers of their keystrokes, which makes order and
loss visible. One read takes `READ_SIZE` keys and leaves the rest where it is;
`stdin_retried` is the read that has to be tried again and takes none. The
history variables say what the properties need of the past: `guarded` the keys
the command must not get, `polled` the keys typed when `poll` returned, `noticed`
those of them that the read of this iteration takes, `left` the guarded keys
beyond it when a client unlocks, `reopened` that the command opened its terminal
after the loop had found it closed, `owed` the signals it has yet to get.

A client's unlock frees the keys typed after `poll` returned (they leave
`guarded`): to the loop they are as good as typed after it. `NothingLeaks` exempts
`left` besides: those keys do reach the command, as `relay_paste_rest` shows.
`pty_open` is never set again, so output
written after a reopening is not read, although "output always passes through"
(README.md:8-9): `OutputRead` has `pty_open` and `LastOutput` has `reopened` as an
explicit condition, and what is proved is what holds outside of them.

## Runs

| Run | Shows | Bounds |
|-----|-------|--------|
| `gate` | types; `PartialIncomplete`, `PrefixOnlyUnlocked`; the gate implements `InputLock`; the phrase unlocks, exactly; events tell the lock | 12 symbols, phrase of 2, reads of 3, sequences up to 5 symbols, runs of 3 keys |
| `gate_paste` | belief about pastes is true; pasted bytes, escape sequences among them, and mouse reports switch nothing; the phrase always unlocks | 6 bytes waiting: a whole paste of one key and more; sequences up to 7 symbols |
| `gate_paste_cut` | *violation*, see below | 4 bytes waiting |
| `gate_paste_escape` | *violation* | 6 bytes waiting |
| `title` | output unchanged but for one mark; the OSC buffer is bounded and empty outside an OSC; "ground" is safe; the last title is the terminal's | 13 kinds of bytes, `MAX_OSC` 2 |
| `title_intermediate` | *violation* | ESC ( B and text |
| `display` | own output comes between sequences only; title tells the lock, queue too; mark goes at exit; hint ends | 7 symbols (OSC and CSI), titles of up to two symbols, 11 symbols waiting, 4 events a call |
| `relay` | no leak but of `left`, order, last output, no kill after wait, the session ends after an exit and after a hangup, output is read | queue of 2, pipe of 2 read one at a time, 3 keys read two at a time, 4 events of the environment besides the exit |
| `relay_signal_dropped` | *violation* | pipe of 2, 4 events |
| `relay_paste_rest` | *violation* | 2 keys read one at a time, 3 events |
| `sessions` | names; a running session is reachable; only dead sockets go, and all of them; starts and clients end; the sockets implement `Registry` | 2 sessions, 1 client that locks one of them or lists; names of up to 6 characters, room for 2 or 3; one dead socket, one of another program |
| `sessions_overlap` | *violation* | the same |

Why the bounds are enough. The gate's and the filter's state machines depend on
a byte's class only. Of the classes that `sequence_complete` tells apart, `gate`
has CSI, OSC and two-byte sequences and `gate_paste` has X10 reports; the bytes
after ESC that start an SS3, DCS, APC or PM sequence are in no run and covered
by the proofs only (the last three are treated like an OSC that only ST ends).
In `title` only the lead of a four-byte character is missing, and one byte
stands for `P`, `_`, `^` and `X`. The limits are reached (a sequence of 5
symbols, an OSC of 2) and are the only use of a length besides the phrase's,
which is long enough to be interrupted. What lies beyond (limits, alphabets,
phrases that overlap themselves) is proved for all values.

In `display` any one call may queue what it has to when nothing waits (a title
for each event); on top of what waits, as much as makes 11 symbols with it, two
titles. The bound keeps the loop from taking more input and from nothing else. A
call of four events reports dropped keys, an unlock, a lock and an unlock: each
pair of neighbours that a longer one can have.

In `relay` four events and an exit reach every pair of events around every
phase, a full pipe, an overflowing queue, and a session in which output, close,
reopening and exit follow each other; a read of two leaves one of three keys.
`CHECK_DEADLOCK FALSE` is given where processes end (`relay*`, `display`,
`sessions*`).

In `sessions` two sessions and a client are the least that meet: one that lives,
one that starts or has died, one that looks. A name of two or three characters
is shortened for a suffix, leaves no room for one, and is made from a command's
name; the second session takes over a dead one's name, evades a live one, finds
it free again.

Fairness. `Relay`: weak fairness of the loop as a whole, since one thread
goes on as long as it has something to do; the environment has none. What the
loop does in an iteration is fixed by `poll` and by `Phases`, so no fairness
among handlers is assumed: that none starves is what `OutputRead` checks.
`Sessions`: weak fairness of every client and of every session that starts,
each a process that goes on to its next system call; reads and writes have
timeouts (`CLIENT_TIMEOUT`), so none of them waits for ever. None for a running
session: it may be stopped or busy, and `ClientEnds` must hold all the same.
`RelayDisplay`: an iteration that has begun ends (`GoesOn`), the timeout of
`poll` expires (`Timeout`), time passes (`Elapse`); nothing makes the user type,
a client ask or the command write. `HintEnds` supposes that keys stop being
dropped, and that again and again the loop is in `poll` while the command is not
within a sequence: to be so once and then stay there in silence is enough. The
timeout is then the only thing that ends the hint: its mutant, a loop that leaves
`flash_until` out of `poll`'s timeout (relay.rs:182), stays in `poll` for ever.

Every property of a passing run has a mutant in the module of the code it is
about (an operator whose comment starts with "Wrong"), which breaks it.

## What the violation runs show

* `gate_paste_cut`: the lock is switched, or 25 ms pass, in the middle of the
  marker that ends a paste. `in_paste` stays set and the phrase cannot unlock
  any more ("type `unlock`", README.md:43).
* `gate_paste_escape`: Escape right before a paste swallows the ESC of its
  marker, and a pasted phrase unlocks (the test at gate.rs:298 has it that a
  pasted phrase does nothing).
* `title_intermediate`: after `ESC (` the filter says ground; a title inserted
  there breaks the sequence (title.rs:1-3: "safely insert").
* `relay_signal_dropped`: "one pending wake-up is enough" (relay.rs:432-433)
  holds for SIGCHLD and not for a signal to be passed on.
* `relay_paste_rest`: `read_stdin` reads once, at most 4096 bytes
  (relay.rs:191-192), and `serve_control` comes later in the same iteration
  (relay.rs:168). What did not fit was typed or pasted under the lock, a client
  unlocks, and the next iteration forwards it ("while the session is locked, every
  key, Ctrl+C, mouse click and paste is dropped", README.md:7-8).
* `sessions_overlap`: `UnixListener::bind` binds and then listens; between the
  two `list` is refused, takes the session for dead, and removes its socket when
  it listens already ("nobody is listening", control.rs:289-290;
  `list_never_removes_a_live_socket`, control.rs:507). With `Overlaps = TRUE`,
  `Reachable` and `ImplementsRegistry` fail in the same window: a second session
  removes the socket that the first has just bound. A start may then also fail,
  because the name was taken after it was seen free. `StartsIfRoom` allows that
  with overlaps: its first part, that such a name was taken by another session,
  holds with any (`SessionsStart`); that no start
  fails so is said for `~Overlaps`. The passing run says what holds when this
  window is not hit.

## Proofs

Every safety invariant, every action property and both refinements that a
passing run checks are also theorems, for every value of the constants that
satisfies the named assumptions (`GateAssumption`, `HistoryAssumption`,
`PasteAssumption`, `TitleAssumption`, `TerminalAssumption`, `DisplayAssumption`,
`RelayAssumption`, `SessionsAssumption`, `DirectoryAssumption`), which TLC
evaluates in the runs. The bounds of the runs (`MaxRun`, `MaxTty`, `MaxQueue`,
`MaxReports`, `MaxTyped`, `MaxEvents`) and the sizes of a read (`READ_SIZE`,
`SignalRead`) are arbitrary numbers there. Three groups of theorems
need a condition that the matching violation run gives up: `GatePasteProofs`
`Pace /\ ~Cuts`, of `SessionsProofs` `SessionsReachable` and `DeadRemovedOnly`,
and `RegistryProofs`, `~Overlaps`, `DisplayProofs` that `Unknown` is not "followed"
(the filter's theorems) or is "excluded" (the loop's).

* `GateProofs`. The inductive invariant `IInv` is the conjunction of `TypeOK`,
  `PartialIncomplete`, `PrefixOnlyUnlocked` and `TypedOnlyLocked`. None of them
  but the second stands alone: that a window of the phrase's length can
  be shifted needs its bound, that a pending Ctrl+] is not forwarded by a locked
  gate needs that none is pending there. `HandleKeeps` says what one token does;
  `NextIInv` has a step per action. `GateImplementsLock` maps each step to a
  step of `InputLock` or a stutter; `UnlockedDecides` and `LockedDecides` map
  the two halves of `handle`. It uses the invariant, as a locked gate with a
  pending Ctrl+] would lose it in the mapping. `GateEventsTellState` rests on
  what one token adds to the events of a call (`HandleTells`).
* `GateHistoryProofs`. `HInv` relates the window to the run: its length is the
  smaller of the run's and the phrase's, and the run ends with it. `WindowMoves`
  is the lemma about sequences behind it. `PhraseIsExact` follows, since a window
  that equals the phrase is the end of the run, and no shorter run ends in the
  phrase (`PhraseNotSeenYet`).
* `GatePasteProofs`. `PasteInv` adds to the gate's `IInv` what the terminal's
  queue is made of (`Queue`: the rest of a unit, then whole units, each in a
  paste or out of one as the one before leaves it), that the gate has collected
  exactly what was read of the unit at its head (`Reading`), that it knows the
  mode that unit was sent in (`Belief`), and what its window is (`Window`).
  There is a lemma for each kind of unit and place in it; `Sequences` are the
  units of several bytes, which the gate completes at their last byte and nowhere
  before, pasted ones included.
* `TitleProofs`. `IInv` is `TypeOK` and `OscBounded`. That a stale OSC is never
  written needs the second: only then may `ESC ]` start with an empty buffer.
  `StepKeeps` has a step per state of the filter, with one lemma each for the
  bytes that are read again (`GroundWrites`, `EscWrites`) and for `finish_osc`.
* `DisplayProofs`. `TerminalAfter` is a recursion over output, so its laws
  (`ReadsOne`, `ReadsOn`) need induction. The prover takes no induction rule
  whose parameter is an operator; `UpTo` and `SeqInduction` are rules about sets
  instead, from the well-foundedness of the numbers, and `TraceExists` shows
  that the recursive function exists. `Fits` relates the filter's state to the
  terminal's parser: equal outside of sequences and in characters, looser inside,
  as ESC and OSCs are withheld and CAN ends a sequence that the filter takes to
  go on. `StepFits` keeps it, with a lemma per state. For the loop, `DInv` adds
  `Truthful` (the queue, read by any terminal between sequences, leaves it there
  with a title that tells the lock; a hint only while locked), `Plain` (the
  command's title has no mark) and `Shows` (an empty queue means that the title
  is right). A queue that is `Sound` may lie in the middle of a call, until
  `state_changed` has queued another title; `AppliesReports` goes through the
  calls.
* `RelayProofs`. `IInv` is `TypeOK` with `Keys` (keystrokes are numbered as they
  are typed, guarded ones among them), `Way` (what reached the command, the queue
  to it, what the gate hands over, what it holds and what was not read are each
  sorted, and each before the next), `Secret` (no guarded key is past the gate,
  and none is offered to an unlocked one, those of `left` apart), `Noticed` (the
  keys up to `noticed` are at the head of what waits, within one read, until that
  read, and none of them waits afterwards) and `Ending` (what is known at the end of a session).
  `NothingLeaks` is part of it, `InOrder` follows from `Way`.
* `SessionsProofs`. `IInv` is `TypeOK` with `Shape` (which step of a process goes
  with which values), `NamesGiven`, `Owners` (who is named by a socket, and who
  listens), `Lists` and `Cleaning` (the progress of `list` through what it saw)
  and `Connections` (backlogs). It holds with any overlaps, and gives
  `ListCleans`. `Overtaken` (a name found free and since taken belongs to another
  session) does so too, as only `Bind` puts a socket into the directory; with it
  `StartsIfRoom` is proved for both values of `Overlaps`. `Undisturbed` adds what `~Overlaps` is for: at most one process is
  between a test and its outcome (`Exclusive`), so that a name found dead is
  still dead when it is removed, one found free still free when it is bound, and
  whoever is past `Bind` owns its name.
* `RegistryProofs`. `RInv` adds to both where names come from (`Origins`), what a
  client was told (`Told`), and that a request that waits is its client's only
  one, waits at the session it asked for and was not carried out (`Pending`).
  Every step is then a step of `Registry` or a stutter.

Two properties changed when their proof was tried. `InsertsBetween` used to tell
keylock's own output from the command's by the filter's unchanged variables;
repeated bytes of a long character leave them unchanged as well, in an alphabet
larger than the run's. It now goes by the loop's phase, which only the command's
output leaves alone. And `TerminalAssumption` states what the alphabet of the run
satisfied silently: final, intermediate, continuation and lead bytes are
different, as they are in ECMA-48 and UTF-8.

Only model-checked: liveness under fairness, which is out of the prover's reach
(`HintEnds`, `SessionEnds`, `HangUpEnds`, `OutputRead`, `StartEnds`,
`ClientEnds`).

## Not modelled

`cli.rs` is a function from arguments to options and keeps no state. Of
`control.rs`, `resolve_dir` (which variable names the directory), the pid and
command in an answer, the reply to a request of no known word (control.rs:218;
keylock's own clients send none), a failing read or write on a connection in
`serve_one` (control.rs:212-221; the request is then not carried out, or its
answer lost, as with a client that gives up), and errors of `connect` other than
a missing file and a refusal (control.rs:249; the client ends with an error, and
`list` passes over the name, as over a session that does not answer); of `main.rs`, messages, columns and exit codes. Window
sizes (SIGWINCH is read and passed over) and the panic hook of `pty.rs`. Errors
of system calls other than would-block, interruption, end-of-file, EIO, a
start-up that fails and a user's terminal that has gone away: an error of the
others ends `run` as these do. The user's terminal is assumed to take output at
once, and a listening socket to take connections. In `RelayDisplay` the end of a
session is the command's exit; the hangup, which writes nothing, is in `Relay`.
Real durations: the models say what comes before what, not how long it takes.

## Plan

Done: gate, abstract lock, paste, filter, terminal, display, relay loop with its
start and end, sessions and their registry; proofs of all their safety
properties. Next:

1. `Relay` implements what a user of the lock sees, for every bound: the command
   gets the keys that an `InputLock` of its own would hand over.
2. The hangup end in `RelayDisplay`; `Relay` with the real `Gate` in place of
   `InputLock`, justified by `GateImplementsLock`.
3. Proofs with weaker conditions where a violation run shows that the condition
   is more than needed: which overlaps of processes are harmless.
