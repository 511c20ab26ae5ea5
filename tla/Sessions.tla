-------------------------------- MODULE Sessions --------------------------------
(***************************************************************************)
(* The control sockets of src/src/control.rs: one directory, the sessions  *)
(* that bind a socket in it, and the commands `on`, `off`, `status` and    *)
(* `ls` (src/src/main.rs) that look for them there.                        *)
(*                                                                         *)
(* Every process runs once.  A step is one system call, so that processes  *)
(* meet between any two of them; a session may be killed at any point.     *)
(* The directory is a function from names to the process that bound the    *)
(* socket; a name is a sequence of characters, of `.sock` stripped.        *)
(***************************************************************************)
EXTENDS Integers, SequencesExt, FiniteSetsExt

CONSTANTS
  Session,    \* processes `keylock -- command`
  Client,     \* processes `keylock on`, `off`, `status` or `ls`
  Plain,      \* the characters a name may hold, "." apart
  Options,    \* what sessions are started with: [given, text], see base_name
  Requests,   \* what clients are started for: [name, line], line "ls" for ls
  Leftover,   \* names of the dead sockets that a directory holds at first
  Foreign,    \* names of the other programs' sockets, which listen
  Spaces,     \* bytes that the directory may leave for a name in a socket path
  MAX_NAME,   \* longest name (64 in the code)
  Default,    \* the name of last resort, "session" in the code
  Overlaps    \* FALSE: processes do not come between a test and its outcome

ASSUME SessionsAssumption ==
  /\ Overlaps \in BOOLEAN
  /\ MAX_NAME \in Nat /\ MAX_NAME >= 4
  /\ Spaces \subseteq Int
  /\ Default \in Seq(Plain) /\ Len(Default) \in 1..MAX_NAME
  /\ {"-", "_", "1", "2", "3", "4", "5", "6", "7", "8", "9"} \subseteq Plain
  /\ "." \notin Plain
  /\ Options \subseteq [given : BOOLEAN, text : Seq(STRING)]
  /\ Requests \subseteq [name : Seq(STRING), line : {"lock", "unlock", "status", "ls"}]

VARIABLES
  dir,        \* the directory: "absent", "private" or "refused"
  file,       \* its sockets: who bound the one of each name
  listening,  \* the processes whose socket accepts connections
  room,       \* name_room of the directory
  pc,         \* what each process does next
  base,       \* the name that each session was started with
  attempt,    \* the attempt of its bind
  name,       \* the name of that attempt
  lock,       \* its lock
  backlog,    \* its connections, each with its process and the line sent
  request,    \* what each client was started for
  target,     \* the name that a client is asking
  conn,       \* the session it is connected to
  reply,      \* the line it was sent back, "" for none
  answer,     \* what `on`, `off` or `status` says, "" for nothing yet
  todo,       \* the names that list has still to ask
  stale,      \* history: the dead sockets that list saw
  performed   \* history: the clients whose request was carried out

socketvars  == <<file, listening>>
sessionvars == <<base, attempt, name>>
clientvars  == <<target, conn, reply, answer, todo>>
history     == <<stale, performed>>
fixed       == <<room, request>>
given       == <<dir, fixed>>
vars == <<socketvars, given, pc, sessionvars, lock, backlog, clientvars, history>>

DEAD    == "dead"      \* a session that was killed before
FOREIGN == "foreign"   \* another program, which listens
NONE    == "none"

-------------------------------------------------------------------------------
(* Names.                                                                  *)

NameChars == Plain \cup {"."}

valid_name(n) ==
  /\ n # <<>>
  /\ Len(n) <= MAX_NAME
  /\ Head(n) # "."
  /\ Range(n) \subseteq NameChars

(* Processes are not confused, and the sockets of other programs have      *)
(* names that keylock never creates.                                       *)
ASSUME DirectoryAssumption ==
  /\ Session \cap Client = {}
  /\ {DEAD, FOREIGN, NONE} \cap (Session \cup Client) = {}
  /\ Leftover \cup Foreign \subseteq Seq(NameChars)
  /\ \A n \in Foreign : ~valid_name(n)

name_room(space) == Min({IF space > 0 THEN space ELSE 0, MAX_NAME})

truncate(n, max) == SubSeq(n, 1, Min({max, Len(n)}))

trim_dots(n) ==
  LET first == SelectInSeq(n, LAMBDA char : char # ".")
  IN  IF first = 0 THEN <<>> ELSE SubSeq(n, first, Len(n))

(* The file name of the command as a session name.  Four characters are    *)
(* left for a suffix.                                                      *)
default_name(command) ==
  LET clean == [i \in DOMAIN command |->
                  IF command[i] \in NameChars THEN command[i] ELSE "_"]
      short == truncate(trim_dots(clean), MAX_NAME - 4)
  IN  IF short = <<>> THEN Default ELSE short

base_of(opt) == IF opt.given THEN opt.text ELSE default_name(opt.text)

Digit == <<"1", "2", "3", "4", "5", "6", "7", "8", "9">>

(* Bound: the attempts that the model follows, those of one digit.         *)
MAX_ATTEMPT == Len(Digit)

(* The suffix of an attempt, and the name it makes for a session: as much  *)
(* of the base as leaves room for it.                                      *)
suffix(k) == IF k = 1 THEN <<>> ELSE <<"-", Digit[k]>>

(* Wrong: the room is measured without the suffix.                         *)
keep_all(k) == room

keep(k) == room - Len(suffix(k))

name_of(s) == truncate(base[s], keep(attempt[s])) \o suffix(attempt[s])

-------------------------------------------------------------------------------
(* The directory and its sockets.                                          *)

Live(n) == n \in DOMAIN file /\ file[n] \in listening

Without(n) == [m \in DOMAIN file \ {n} |-> file[m]]

With(n, s) == [m \in DOMAIN file \cup {n} |-> IF m = n THEN s ELSE file[m]]

Go(p, where) == pc' = [pc EXCEPT ![p] = where]

(* The client is in list: for ls, or because there is no such session.     *)
Listing(c) == request[c].line = "ls" \/ answer[c] = "no session"

(* Between a test of a name and what the test was made for.                *)
Critical(p) == pc[p] \in {"probe", "remove", "bind", "bound", "chmod", "purge"}

Alone(p) == Overlaps \/ \A q \in (Session \cup Client) \ {p} : ~Critical(q)

-------------------------------------------------------------------------------
(* A session: main's run, Listener::bind and the end of the listener.      *)

ensure_dir(d) == IF d = "absent" THEN "private" ELSE d

Run(s) ==
  /\ pc[s] = "idle"
  /\ \E opt \in Options :
       IF opt.given /\ ~valid_name(opt.text)
       THEN Go(s, "usage") /\ UNCHANGED <<dir, base>>
       ELSE /\ dir' = ensure_dir(dir)
            /\ Go(s, IF dir = "refused" THEN "usage" ELSE "begin")
            /\ base' = [base EXCEPT ![s] = base_of(opt)]
  /\ UNCHANGED <<socketvars, fixed, attempt, name, lock, backlog, clientvars, history>>

(* Wrong: the attempt is not counted.                                      *)
same_attempt(k) == k

next_attempt(k) == k + 1

(* The head of bind's loop: is there room, is there a socket already?      *)
Attempt(s) ==
  /\ pc[s] = "begin"
  /\ attempt[s] <= MAX_ATTEMPT
  /\ Alone(s)
  /\ attempt' = [attempt EXCEPT ![s] = next_attempt(@)]
  /\ \/ /\ keep(attempt[s]) <= 0
        /\ Go(s, "no_room")
        /\ UNCHANGED name
     \/ /\ keep(attempt[s]) > 0
        /\ name' = [name EXCEPT ![s] = name_of(s)]
        /\ Go(s, IF name_of(s) \in DOMAIN file THEN "probe" ELSE "bind")
  /\ UNCHANGED <<socketvars, given, base, lock, backlog, clientvars, history>>

(* Connecting tells whether the socket is live.  The connection is closed  *)
(* at once, and the session there will find it empty.                      *)
Probe(s) ==
  /\ pc[s] = "probe"
  /\ \/ /\ Live(name[s])
        /\ Go(s, "begin")
        /\ backlog' = IF file[name[s]] \in Session
                      THEN [backlog EXCEPT ![file[name[s]]] = Append(@, [from |-> s, line |-> ""])]
                      ELSE backlog
     \/ /\ ~Live(name[s])
        /\ Go(s, "remove")
        /\ UNCHANGED backlog
  /\ UNCHANGED <<socketvars, given, sessionvars, lock, clientvars, history>>

(* Wrong: the dead socket is left there.                                   *)
RemoveNothing(s) ==
  /\ pc[s] = "remove"
  /\ Go(s, "bind")
  /\ UNCHANGED <<socketvars, given, sessionvars, lock, backlog, clientvars, history>>

RemoveStale(s) ==
  /\ pc[s] = "remove"
  /\ file' = Without(name[s])
  /\ Go(s, "bind")
  /\ UNCHANGED <<listening, given, sessionvars, lock, backlog, clientvars, history>>

(* bind(2) creates the socket, which refuses connections until listen(2).  *)
Bind(s) ==
  /\ pc[s] = "bind"
  /\ \/ /\ name[s] \in DOMAIN file
        /\ Go(s, "in_use")
        /\ UNCHANGED file
     \/ /\ name[s] \notin DOMAIN file
        /\ Go(s, "bound")
        /\ file' = With(name[s], s)
  /\ UNCHANGED <<listening, given, sessionvars, lock, backlog, clientvars, history>>

Listen(s) ==
  /\ pc[s] = "bound"
  /\ listening' = listening \cup {s}
  /\ Go(s, "chmod")
  /\ UNCHANGED <<file, given, sessionvars, lock, backlog, clientvars, history>>

(* set_permissions by path: it fails when the socket is gone by then.      *)
Chmod(s) ==
  /\ pc[s] = "chmod"
  /\ \/ /\ name[s] \in DOMAIN file
        /\ Go(s, "up")
        /\ UNCHANGED <<listening, backlog>>
     \/ /\ name[s] \notin DOMAIN file
        /\ Go(s, "gone")
        /\ listening' = listening \ {s}
        /\ backlog' = [backlog EXCEPT ![s] = <<>>]
  /\ UNCHANGED <<file, given, sessionvars, lock, clientvars, history>>

(* Ctrl+] L or the phrase, typed by its user.                              *)
Switch(s) ==
  /\ pc[s] = "up"
  /\ lock' = [lock EXCEPT ![s] = ~@]
  /\ UNCHANGED <<socketvars, given, pc, sessionvars, backlog, clientvars, history>>

LockAfter(line, locked) ==
  CASE line = "lock" -> TRUE [] line = "unlock" -> FALSE [] OTHER -> locked

state_line(locked) == IF locked THEN "locked" ELSE "unlocked"

(* Wrong: the answer is made before the request is carried out.            *)
answer_before(locked, line) == state_line(locked)

answer_after(locked, line) == state_line(LockAfter(line, locked))

(* serve_one for the first connection that waits.  A line that has not     *)
(* come yet is waited for, up to SERVER_TIMEOUT; a line that has come is   *)
(* obeyed, whether or not its client still waits for the answer.           *)
serve_one(s) ==
  /\ pc[s] = "up"
  /\ backlog[s] # <<>>
  /\ backlog' = [backlog EXCEPT ![s] = Tail(@)]
  /\ LET c == Head(backlog[s]).from
         line == Head(backlog[s]).line
     IN \/ /\ line = ""
           /\ UNCHANGED <<lock, reply, performed>>
        \/ /\ line # ""
           /\ lock' = [lock EXCEPT ![s] = LockAfter(line, @)]
           /\ reply' = [reply EXCEPT ![c] =
                          IF conn[c] = s THEN answer_after(lock[s], line) ELSE @]
           /\ performed' = IF Listing(c) THEN performed
                           ELSE performed \cup {c}
  /\ UNCHANGED <<socketvars, given, pc, sessionvars, target, conn, answer, todo, stale>>

(* relay::run is over, or failed.                                          *)
Leave(s) ==
  /\ pc[s] = "up"
  /\ Go(s, "closing")
  /\ UNCHANGED <<socketvars, given, sessionvars, lock, backlog, clientvars, history>>

(* Drop for Listener: the path goes first, then the socket.                *)
Unlink(s) ==
  /\ pc[s] = "closing"
  /\ file' = Without(name[s])
  /\ Go(s, "closed")
  /\ UNCHANGED <<listening, given, sessionvars, lock, backlog, clientvars, history>>

(* A process that ends leaves nothing behind but what is in the directory. *)
Close(s) ==
  /\ listening' = listening \ {s}
  /\ backlog' = [backlog EXCEPT ![s] = <<>>]
  /\ base' = [base EXCEPT ![s] = <<>>]
  /\ attempt' = [attempt EXCEPT ![s] = 1]
  /\ name' = [name EXCEPT ![s] = <<>>]
  /\ lock' = [lock EXCEPT ![s] = FALSE]
  /\ Go(s, "ended")
  /\ UNCHANGED <<file, given, clientvars, history>>

(* SIGKILL, or a panic with abort: the socket's file stays.                *)
Kill(s) ==
  /\ pc[s] \in {"begin", "probe", "remove", "bind", "bound", "chmod", "up", "closing", "closed"}
  /\ Close(s)

-------------------------------------------------------------------------------
(* A client: send, list, and main's request.                               *)

(* Wrong: list takes every failure for a dead session.                     *)
IoPurge(c) ==
  /\ conn' = [conn EXCEPT ![c] = NONE]
  /\ reply' = [reply EXCEPT ![c] = ""]
  /\ Go(c, IF Listing(c) THEN "purge" ELSE "done")
  /\ answer' = IF Listing(c) THEN answer ELSE [answer EXCEPT ![c] = "error"]

(* send returns, without an answer or with one.                            *)
Io(c) ==
  /\ conn' = [conn EXCEPT ![c] = NONE]
  /\ reply' = [reply EXCEPT ![c] = ""]
  /\ Go(c, IF Listing(c) THEN "next" ELSE "done")
  /\ answer' = IF Listing(c) THEN answer ELSE [answer EXCEPT ![c] = "error"]

Answered(c) ==
  /\ conn' = [conn EXCEPT ![c] = NONE]
  /\ reply' = [reply EXCEPT ![c] = ""]
  /\ Go(c, IF Listing(c) THEN "next" ELSE "done")
  /\ answer' = IF Listing(c) THEN answer ELSE [answer EXCEPT ![c] = reply[c]]

(* Without a session `on`, `off` and `status` list those there are.        *)
NoSession(c) ==
  \/ /\ Listing(c)
     /\ Alone(c)
     /\ Go(c, "purge")
     /\ UNCHANGED answer
  \/ /\ ~Listing(c)
     /\ Go(c, "readdir")
     /\ answer' = [answer EXCEPT ![c] = "no session"]

Connect(c) ==
  /\ pc[c] = "ask"
  /\ LET n == target[c] IN
     \/ /\ valid_name(n) /\ Live(n)
        /\ conn' = [conn EXCEPT ![c] = file[n]]
        /\ backlog' = [backlog EXCEPT ![file[n]] = Append(@, [from |-> c, line |-> ""])]
        /\ Go(c, "connected")
        /\ UNCHANGED answer
     \/ /\ ~(valid_name(n) /\ Live(n))
        /\ NoSession(c)
        /\ UNCHANGED <<conn, backlog>>
  /\ UNCHANGED <<socketvars, given, sessionvars, lock, target, reply, todo, history>>

line_of(c) == IF Listing(c) THEN "status" ELSE request[c].line

(* Where the connection of a client waits in the backlog, 0 for nowhere.   *)
Place(c) == SelectInSeq(backlog[conn[c]], LAMBDA entry : entry.from = c)

WriteLine(c) ==
  /\ pc[c] = "connected"
  /\ \/ /\ Place(c) > 0
        /\ backlog' = [backlog EXCEPT ![conn[c]][Place(c)].line = line_of(c)]
        /\ Go(c, "waiting")
        /\ UNCHANGED <<conn, reply, answer>>
     \/ /\ Place(c) = 0            \* the session has dropped the connection
        /\ Io(c)
        /\ UNCHANGED backlog
  /\ UNCHANGED <<socketvars, given, sessionvars, lock, target, todo, history>>

(* Wrong: the client has no timeout.                                       *)
ReadLineForever(c) ==
  /\ pc[c] = "waiting"
  /\ reply[c] # ""
  /\ Answered(c)
  /\ UNCHANGED <<socketvars, given, sessionvars, lock, backlog, target, todo, history>>

(* The answer, or none: CLIENT_TIMEOUT is over, or the session is gone.    *)
ReadLine(c) ==
  /\ pc[c] = "waiting"
  /\ IF reply[c] # "" THEN Answered(c) ELSE Io(c)
  /\ UNCHANGED <<socketvars, given, sessionvars, lock, backlog, target, todo, history>>

Dead(p) == p \notin listening \cup {q \in Session : pc[q] = "bound"}

(* Wrong: names that send refuses are asked too.                           *)
names_all == DOMAIN file

(* keylock never creates the others; list leaves them alone.               *)
names == {n \in DOMAIN file : valid_name(n)}

ReadDir(c) ==
  /\ pc[c] = "readdir"
  /\ todo' = [todo EXCEPT ![c] = names]
  /\ stale' = [stale EXCEPT ![c] = {<<n, file[n]>> : n \in {m \in names : Dead(file[m])}}]
  /\ Go(c, "next")
  /\ UNCHANGED <<socketvars, given, sessionvars, lock, backlog, target, conn, reply, answer, performed>>

(* list asks in the order of the names, which makes no difference here.    *)
NextName(c) ==
  /\ pc[c] = "next"
  /\ \/ /\ todo[c] = {}
        /\ Go(c, "done")
        /\ UNCHANGED <<target, todo>>
     \/ \E n \in todo[c] :
          /\ todo' = [todo EXCEPT ![c] = @ \ {n}]
          /\ target' = [target EXCEPT ![c] = n]
          /\ Go(c, "ask")
  /\ UNCHANGED <<socketvars, given, sessionvars, lock, backlog, conn, reply, answer, history>>

(* Wrong: the socket is left there.                                        *)
Purged_not(n) == file

Purged(n) == Without(n)

Purge(c) ==
  /\ pc[c] = "purge"
  /\ file' = Purged(target[c])
  /\ Go(c, "next")
  /\ UNCHANGED <<listening, given, sessionvars, lock, backlog, clientvars, history>>

-------------------------------------------------------------------------------
Init ==
  /\ room \in {name_room(space) : space \in Spaces}
  /\ dir \in {"absent", "private", "refused"}
  /\ file = IF dir = "absent" THEN << >>
            ELSE [n \in Leftover \cup Foreign |-> IF n \in Leftover THEN DEAD ELSE FOREIGN]
  /\ listening = {FOREIGN}
  /\ request \in [Client -> Requests]
  /\ pc = [p \in Session \cup Client |->
              IF p \in Session THEN "idle"
              ELSE IF request[p].line = "ls" THEN "readdir" ELSE "ask"]
  /\ base = [s \in Session |-> <<>>]
  /\ attempt = [s \in Session |-> 1]
  /\ name = [s \in Session |-> <<>>]
  /\ lock = [s \in Session |-> FALSE]   \* with --locked, Switch comes first
  /\ backlog = [s \in Session |-> <<>>]
  /\ target = [c \in Client |-> request[c].name]
  /\ conn = [c \in Client |-> NONE]
  /\ reply = [c \in Client |-> ""]
  /\ answer = [c \in Client |-> ""]
  /\ todo = [c \in Client |-> {}]
  /\ stale = [c \in Client |-> {}]
  /\ performed = {}

Starting(s) ==
  \/ Attempt(s) \/ Probe(s) \/ RemoveStale(s) \/ Bind(s) \/ Listen(s) \/ Chmod(s)

Asking(c) ==
  \/ Connect(c) \/ WriteLine(c) \/ ReadLine(c) \/ ReadDir(c) \/ NextName(c) \/ Purge(c)

Next ==
  \/ \E s \in Session :
       \/ Run(s) \/ Starting(s) \/ Switch(s) \/ serve_one(s) \/ Leave(s)
       \/ Unlink(s) \/ (pc[s] = "closed" /\ Close(s)) \/ Kill(s)
  \/ \E c \in Client : Asking(c)

(* A process that runs goes on to its next system call, and none of these  *)
(* blocks for ever: a client's reads and writes have a timeout.            *)
Fairness ==
  /\ \A s \in Session : WF_vars(Starting(s))
  /\ \A c \in Client : WF_vars(Asking(c))

Spec == Init /\ [][Next]_vars /\ Fairness

-------------------------------------------------------------------------------
(* Properties.                                                             *)

Failed == {"usage", "no_room", "in_use", "gone"}

TypeOK ==
  /\ dir \in {"absent", "private", "refused"}
  /\ DOMAIN file \subseteq Seq(NameChars)
  /\ Range(file) \subseteq Session \cup {DEAD, FOREIGN}
  /\ listening \subseteq Session \cup {FOREIGN}
  /\ room \in 0..MAX_NAME
  /\ \A s \in Session :
       /\ pc[s] \in Failed \cup {"idle", "begin", "probe", "remove", "bind", "bound", "chmod",
                                 "up", "closing", "closed", "ended"}
       /\ name[s] # <<>> => valid_name(name[s]) /\ Len(name[s]) <= room
       /\ backlog[s] \in Seq([from : Session \cup Client, line : {"", "lock", "unlock", "status"}])
  /\ lock \in [Session -> BOOLEAN]
  /\ \A c \in Client :
       /\ pc[c] \in {"ask", "connected", "waiting", "readdir", "next", "purge", "done"}
       /\ (conn[c] \in Session) <=> pc[c] \in {"connected", "waiting"}
       /\ reply[c] \in {"", "locked", "unlocked"}
       /\ reply[c] # "" => pc[c] = "waiting"
  /\ answer \in [Client -> {"", "locked", "unlocked", "no session", "error"}]

(* A session that runs is found under its name until it ends: its socket   *)
(* is there and is its own, so no two have the same name, whoever starts,  *)
(* dies, lists or gives up meanwhile, as long as starts and removals do    *)
(* not overlap (control.rs:157-192, 230-234, 268-298).                     *)
Reachable ==
  \A s \in Session : pc[s] = "up" => name[s] \in DOMAIN file /\ file[name[s]] = s

(* What stops a start at bind is a session that took the name since the    *)
(* test: never a dead socket from before, the name of another program or   *)
(* its own.  While processes do not overlap nothing does, nor is its new   *)
(* socket gone before it runs (control.rs:176-192).                        *)
StartsIfRoom ==
  \A s \in Session :
    /\ pc[s] = "bind" /\ name[s] \in DOMAIN file => file[name[s]] \in Session \ {s}
    /\ ~Overlaps => pc[s] \notin {"in_use", "gone"}

(* Nobody removes the socket of a process that listens, but itself; that   *)
(* of another program, under a name that keylock never creates, is left    *)
(* alone (control.rs:176-181, 232, 285-293).                               *)
Removed(n) == n \in DOMAIN file /\ (n \notin DOMAIN file' \/ file'[n] # file[n])

OnlyDeadRemoved ==
  [][\A n \in DOMAIN file :
       Removed(n) /\ Live(n) => file[n] \in Session /\ pc[file[n]] = "closing"]_vars

(* The same for list alone, as its test has it (control.rs:507-515).           *)
ListSparesLive ==
  [][\A n \in DOMAIN file :
       Removed(n) /\ (\E c \in Client : pc[c] = "purge" /\ pc'[c] # "purge") => ~Live(n)]_vars

(* When list is over, the sockets that were dead when it began are gone,   *)
(* though sessions on its way gave no answer (control.rs:286-295).         *)
ListCleans ==
  \A c \in Client : pc[c] = "done" =>
    \A d \in stale[c] : d[1] \notin DOMAIN file \/ file[d[1]] # d[2]

(* Starts come to an end: the search for a free name does.                 *)
StartEnds ==
  <>[](\A s \in Session :
         pc[s] \notin {"begin", "probe", "remove", "bind", "bound", "chmod"})

(* So does a client, whatever the sessions it asks do with its connection. *)
ClientEnds == <>(\A c \in Client : pc[c] = "done")

(* All names that a session may get.                                       *)
Names ==
  {r.name : r \in Requests} \cup
  {truncate(base_of(opt), name_room(space) - Len(suffix(k))) \o suffix(k) :
     opt \in Options, space \in Spaces, k \in 1..MAX_ATTEMPT}

(* The sockets implement the registry of sessions.                         *)
Registered == INSTANCE Registry WITH
  Name   <- Names,
  reg    <- [n \in {m \in DOMAIN file : Live(m) /\ file[m] \in Session} |-> [session |-> file[n], locked |-> lock[file[n]]]],
  answer <- [c \in Client |-> IF Listing(c) THEN answer[c] ELSE IF answer[c] = "" THEN reply[c] ELSE answer[c]]

ImplementsRegistry == Registered!Spec
===============================================================================
