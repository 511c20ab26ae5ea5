----------------------------- MODULE RegistryProofs -----------------------------
(***************************************************************************)
(* The sockets implement the registry of sessions, while processes do not  *)
(* come between a test of a socket and what the test was made for.         *)
(***************************************************************************)
EXTENDS SessionsProofs

(* The names that Names lists are those that sessions get.                 *)
Origins ==
  /\ room \in {name_room(space) : space \in Spaces}
  /\ \A s \in Session :
       /\ pc[s] \in {"begin", "probe"} => base[s] \in {base_of(opt) : opt \in Options}
       /\ pc[s] \in Named => name[s] \in Names

(* What a client that asks for a session was told, and when.               *)
Told ==
  \A c \in Client :
    /\ c \in performed => ~Listing(c) /\ pc[c] \in {"waiting", "done"}
    /\ ~Listing(c) /\ c \notin performed => reply[c] = "" /\ answer[c] \in {"", "error"}
    /\ ~Listing(c) => (answer[c] = "" <=> pc[c] # "done")

(* The client c waits in the backlog of s.                                 *)
WaitsIn(c, s) == \E i \in 1..Len(backlog[s]) : backlog[s][i].from = c

(* A request that waits is its client's only one, was sent to the session  *)
(* that the client asked for, and was not carried out before.              *)
Pending ==
  \A s \in Session :
    /\ \A c \in Client :
         WaitsIn(c, s) /\ ~Listing(c) =>
           /\ c \notin performed
           /\ name[s] = request[c].name
           /\ pc[c] \in {"connected", "waiting"} => conn[c] = s
           /\ \A q \in Session : WaitsIn(c, q) => q = s
    /\ \A i \in 1..Len(backlog[s]), c \in Client :
         backlog[s][i].from = c => backlog[s][i].line \in {"", line_of(c)}

RInv == IInv /\ Undisturbed /\ Origins /\ Told /\ Pending

(* At the start no name is taken and no client has been told anything.     *)
LEMMA InitOrigins == Init => Origins /\ Told /\ Pending
<1>. SUFFICES ASSUME Init PROVE Origins /\ Told /\ Pending
  OBVIOUS
<1>1. /\ \A s \in Session : pc[s] = "idle" /\ backlog[s] = <<>>
      /\ \A c \in Client : /\ pc[c] = IF request[c].line = "ls" THEN "readdir" ELSE "ask"
                           /\ answer[c] = "" /\ reply[c] = ""
      /\ performed = {}
      /\ room \in {name_room(space) : space \in Spaces}
  BY ProcessFacts DEF Init
<1>2. Origins
  BY <1>1 DEF Origins, Named, Serving
<1>3. Told
  BY <1>1 DEF Told, Listing
<1>4. \A s \in Session : Len(backlog[s]) = 0
  BY <1>1, EmptySeq
<1>5. Pending
  <2>1. \A s \in Session : ~\E i \in 1..Len(backlog[s]) : TRUE
    BY <1>4
  <2>. QED BY <2>1, Zenon DEF Pending, WaitsIn
<1>. QED BY <1>2, <1>3, <1>5

(* The name of an attempt is one that Names lists.                         *)
LEMMA NameOfOrigin ==
  ASSUME NEW s \in Session, room \in {name_room(space) : space \in Spaces},
         base[s] \in {base_of(opt) : opt \in Options}, attempt[s] \in 1..MAX_ATTEMPT
  PROVE  name_of(s) \in Names
<1>. DEFINE Made(opt, space, k) == truncate(base_of(opt), name_room(space) - Len(suffix(k))) \o suffix(k)
            All == {Made(opt, space, k) : opt \in Options, space \in Spaces, k \in 1..MAX_ATTEMPT}
<1>1. PICK space \in Spaces : room = name_room(space)
  OBVIOUS
<1>2. PICK opt \in Options : base[s] = base_of(opt)
  OBVIOUS
<1>3. name_of(s) = Made(opt, space, attempt[s])
  BY <1>1, <1>2 DEF name_of, keep
<1>4. Names = {r.name : r \in Requests} \cup All
  BY DEF Names
<1>. HIDE DEF Made
<1>5. name_of(s) \in All
  BY <1>3
<1>. HIDE DEF All
<1>. QED BY <1>4, <1>5

(* Every step keeps where the names come from.                             *)
LEMMA OriginsKept ==
  ASSUME IInv, Origins, Next
  PROVE  Origins'
<1>1. /\ pc \in [Session \cup Client -> Stages \cup Steps]
      /\ name \in [Session -> Seq(NameChars)] /\ base \in [Session -> Seq(NameChars)]
      /\ attempt \in [Session -> 1..MAX_ATTEMPT + 1]
  BY DEF IInv, Shape
<1>2. UNCHANGED room
  BY DEF Next, Run, Starting, Attempt, Probe, RemoveStale, Bind, Listen, Chmod, Switch, serve_one, Leave,
         Unlink, Kill, Close, Asking, Connect, WriteLine, ReadLine, ReadDir, NextName, Purge,
         given, fixed
<1>3. ASSUME NEW s \in Session, NEW q \in Session,
             \/ Run(s) \/ Starting(s) \/ Switch(s) \/ serve_one(s) \/ Leave(s)
             \/ Unlink(s) \/ (pc[s] = "closed" /\ Close(s)) \/ Kill(s)
      PROVE  /\ pc'[q] \in {"begin", "probe"} => base'[q] \in {base_of(opt) : opt \in Options}
             /\ pc'[q] \in Named => name'[q] \in Names
  <2>1. CASE q # s
    <3>1. pc'[q] = pc[q] /\ base'[q] = base[q] /\ name'[q] = name[q]
      BY <1>1, <1>3, <2>1 DEF Run, Starting, Attempt, Probe, RemoveStale, Bind, Listen, Chmod, Switch, serve_one,
         Leave, Unlink, Kill, Close, Go, sessionvars
    <3>. QED BY <3>1 DEF Origins
  <2>2. CASE q = s /\ Run(s)
    <3>1. \/ pc'[s] = "usage"
          \/ pc'[s] = "begin" /\ \E opt \in Options : base'[s] = base_of(opt)
      BY <1>1, <2>2 DEF Run, Go
    <3>. QED BY <2>2, <3>1 DEF Named, Serving
  <2>3. CASE q = s /\ Attempt(s)
    <3>1. /\ pc[s] = "begin" /\ UNCHANGED base
          /\ \/ pc'[s] = "no_room"
             \/ pc'[s] \in {"probe", "bind"} /\ name'[s] = name_of(s)
      BY <1>1, <2>3 DEF Attempt, Go
    <3>2. attempt[s] \in 1..MAX_ATTEMPT
      BY <1>1, <2>3, DigitFacts DEF Attempt
    <3>3. name_of(s) \in Names
      BY <3>1, <3>2, NameOfOrigin DEF Origins
    <3>. QED BY <2>3, <3>1, <3>3 DEF Origins, Named, Serving
  <2>4. CASE q = s /\ (Probe(s) \/ RemoveStale(s) \/ Bind(s) \/ Listen(s) \/ Chmod(s) \/ Switch(s)
                        \/ serve_one(s) \/ Leave(s) \/ Unlink(s))
    <3>1. /\ UNCHANGED <<base, name>>
          /\ pc'[s] \in {"begin", "probe"} => pc[s] \in {"begin", "probe"}
      BY <1>1, <2>4 DEF Probe, RemoveStale, Bind, Listen, Chmod, Switch, serve_one, Leave, Unlink, Go, sessionvars
    <3>2. pc'[s] \in Named => pc[s] \in Named
      BY <1>1, <2>4 DEF Probe, RemoveStale, Bind, Listen, Chmod, Switch, serve_one, Leave, Unlink, Go,
                        Named, Serving
    <3>. QED BY <2>4, <3>1, <3>2 DEF Origins
  <2>5. CASE q = s /\ Close(s)
    <3>1. pc'[s] = "ended"
      BY <1>1, <2>5 DEF Close, Go
    <3>. QED BY <2>5, <3>1 DEF Named, Serving
  <2>. QED BY <1>3, <2>1, <2>2, <2>3, <2>4, <2>5 DEF Starting, Kill
<1>4. ASSUME NEW c \in Client, Asking(c)
      PROVE  \A q \in Session : pc'[q] = pc[q] /\ base'[q] = base[q] /\ name'[q] = name[q]
  BY <1>1, <1>4, ProcessFacts
  DEF Asking, Connect, NoSession, WriteLine, Io, ReadLine, Answered, ReadDir, NextName, Purge, Go, sessionvars
<1>. QED BY <1>2, <1>3, <1>4 DEF Origins, Next

-------------------------------------------------------------------------------
(* Requests and answers.                                                   *)

(* A sequence that has elements is not empty.                              *)
LEMMA NotEmpty ==
  ASSUME NEW seq, NEW i \in 1..Len(seq)
  PROVE  seq # <<>>
BY EmptySeq

(* A step that no client notices.  Sessions may have left their backlog,   *)
(* and others may have probed them.                                        *)
LEMMA Unnoticed ==
  ASSUME Told, Pending, UNCHANGED <<request, conn, reply, answer, performed>>,
         \A c \in Client : pc'[c] = pc[c],
         \A s \in Session :
           /\ backlog'[s] = <<>> \/ name'[s] = name[s]
           /\ \A i \in 1..Len(backlog'[s]) :
                \/ \E j \in 1..Len(backlog[s]) : backlog'[s][i] = backlog[s][j]
                \/ backlog'[s][i].from \notin Client /\ backlog'[s][i].line = ""
  PROVE  Told' /\ Pending'
<1>1. \A c \in Client : Listing(c)' = Listing(c)
  BY DEF Listing
<1>2. Told'
  BY <1>1 DEF Told
<1>3. \A c \in Client, s \in Session : WaitsIn(c, s)' => WaitsIn(c, s) /\ name'[s] = name[s]
  <2>1. SUFFICES ASSUME NEW c \in Client, NEW s \in Session, NEW i \in 1..Len(backlog'[s]),
                        backlog'[s][i].from = c
                 PROVE  /\ \E j \in 1..Len(backlog[s]) : backlog[s][j].from = c
                        /\ name'[s] = name[s]
    BY DEF WaitsIn
  <2>2. \E j \in 1..Len(backlog[s]) : backlog[s][j].from = c
    BY <2>1
  <2>3. backlog'[s] # <<>>
    BY NotEmpty
  <2>. QED BY <2>2, <2>3
<1>4. ASSUME NEW s \in Session, NEW c \in Client, WaitsIn(c, s)', ~Listing(c)'
      PROVE  /\ c \notin performed'
             /\ name'[s] = request'[c].name
             /\ pc'[c] \in {"connected", "waiting"} => conn'[c] = s
             /\ \A q \in Session : WaitsIn(c, q)' => q = s
  BY <1>1, <1>3, <1>4 DEF Pending
<1>5. ASSUME NEW s \in Session, NEW i \in 1..Len(backlog'[s]), NEW c \in Client, backlog'[s][i].from = c
      PROVE  backlog'[s][i].line \in {"", line_of(c)'}
  <2>1. PICK j \in 1..Len(backlog[s]) : backlog'[s][i] = backlog[s][j]
    BY <1>5
  <2>2. backlog[s][j].line \in {"", line_of(c)}
    BY <1>5, <2>1 DEF Pending
  <2>3. line_of(c)' = line_of(c)
    BY <1>1 DEF line_of
  <2>. QED BY <2>1, <2>2, <2>3
<1>. QED BY <1>2, <1>4, <1>5 DEF Pending

(* What a session does without its clients keeps what they have been told. *)
LEMMA SessionTold ==
  ASSUME IInv, Told, Pending, NEW s \in Session,
         \/ Run(s) \/ Starting(s) \/ Switch(s) \/ Leave(s)
         \/ Unlink(s) \/ (pc[s] = "closed" /\ Close(s)) \/ Kill(s)
  PROVE  Told' /\ Pending'
<1>1. /\ pc \in [Session \cup Client -> Stages \cup Steps]
      /\ name \in [Session -> Seq(NameChars)]
      /\ backlog \in [Session -> Seq(Entry)]
  BY DEF IInv, Shape
<1>2. /\ UNCHANGED <<request, conn, reply, answer, performed>>
      /\ \A c \in Client : pc'[c] = pc[c]
  <2>1. UNCHANGED <<request, conn, reply, answer, performed>>
    BY DEF Run, Starting, Attempt, Probe, RemoveStale, Bind, Listen, Chmod, Switch, Leave, Unlink, Kill,
           Close, given, fixed, clientvars, history
  <2>2. pc' = pc \/ \E where : pc' = [pc EXCEPT ![s] = where]
    BY DEF Run, Starting, Attempt, Probe, RemoveStale, Bind, Listen, Chmod, Switch, Leave, Unlink, Kill,
           Close, Go
  <2>. QED BY <1>1, <2>1, <2>2, ProcessFacts
<1>3. \A q \in Session : backlog'[q] = <<>> \/ name'[q] = name[q]
  <2>1. CASE Attempt(s)
    <3>1. backlog[s] = <<>> /\ UNCHANGED backlog
      BY <2>1 DEF Attempt, IInv, Owners, Connections, Serving
    <3>2. \A q \in Session \ {s} : name'[q] = name[q]
      BY <1>1, <2>1 DEF Attempt
    <3>. QED BY <3>1, <3>2
  <2>2. CASE Close(s)
    BY <1>1, <2>2 DEF Close
  <2>3. CASE ~Attempt(s) /\ ~Close(s)
    BY <2>3 DEF Run, Starting, Probe, RemoveStale, Bind, Listen, Chmod, Switch, Leave, Unlink, Kill, sessionvars
  <2>. QED BY <2>1, <2>2, <2>3
<1>4. ASSUME NEW q \in Session, NEW i \in 1..Len(backlog'[q])
      PROVE  \/ \E j \in 1..Len(backlog[q]) : backlog'[q][i] = backlog[q][j]
             \/ backlog'[q][i].from \notin Client /\ backlog'[q][i].line = ""
  <2>. DEFINE entry == [from |-> s, line |-> ""]
  <2>1. \/ UNCHANGED backlog
        \/ backlog' = [backlog EXCEPT ![s] = <<>>]
        \/ /\ file[name[s]] \in Session
           /\ backlog' = [backlog EXCEPT ![file[name[s]]] = Append(@, entry)]
    BY DEF Run, Starting, Attempt, Probe, RemoveStale, Bind, Listen, Chmod, Switch, Leave, Unlink, Kill, Close
  <2>2. entry \in Entry /\ entry.from \notin Client /\ entry.line = ""
    BY ProcessFacts DEF Entry, Line
  <2>3. backlog[q] \in Seq(Entry)
    BY <1>1
  <2>. HIDE DEF entry
  <2>4. CASE backlog'[q] = backlog[q]
    BY <2>4
  <2>5. CASE backlog'[q] = <<>>
    BY <2>5, NotEmpty
  <2>6. CASE backlog'[q] = Append(backlog[q], entry)
    <3>. DEFINE new == backlog'[q]
    <3>1. new = Append(backlog[q], entry) /\ i \in 1..Len(new)
      BY <2>6
    <3>. HIDE DEF new
    <3>2. /\ Len(backlog[q]) \in Nat
          /\ Len(new) \in {Len(backlog[q]), Len(backlog[q]) + 1}
          /\ \A j \in 1..Len(backlog[q]) : new[j] = backlog[q][j]
          /\ \A j \in 1..Len(new) : j \notin 1..Len(backlog[q]) => new[j] = entry
      <4>1. backlog[q] \in Seq(Entry) /\ entry \in Entry
            /\ (new = backlog[q] \/ new = Append(backlog[q], entry))
        BY <2>2, <2>3, <3>1
      <4>. QED BY <4>1, MaybeAppended
    <3>3. new[i] = entry \/ (i \in 1..Len(backlog[q]) /\ new[i] = backlog[q][i])
      BY <3>1, <3>2, Zenon
    <3>. QED BY <2>2, <3>3 DEF new
  <2>. QED BY <1>1, <2>1, <2>4, <2>5, <2>6
<1>. QED BY <1>2, <1>3, <1>4, Unnoticed

(* A step of one client: nothing changes for the others.                   *)
LEMMA OneClient ==
  ASSUME Told, Pending, NEW c \in Client, UNCHANGED <<request, performed, name>>,
         \A d \in Client \ {c} :
           /\ pc'[d] = pc[d] /\ conn'[d] = conn[d] /\ answer'[d] = answer[d] /\ reply'[d] = reply[d]
           /\ \A s \in Session : WaitsIn(d, s)' => WaitsIn(d, s)
           /\ \A s \in Session : \A i \in 1..Len(backlog'[s]) : backlog'[s][i].from = d =>
                \E j \in 1..Len(backlog[s]) : backlog'[s][i] = backlog[s][j],
         c \in performed => ~Listing(c)' /\ pc'[c] \in {"waiting", "done"},
         ~Listing(c)' /\ c \notin performed => reply'[c] = "" /\ answer'[c] \in {"", "error"},
         ~Listing(c)' => (answer'[c] = "" <=> pc'[c] # "done"),
         \A s \in Session :
           /\ WaitsIn(c, s)' /\ ~Listing(c)' =>
                /\ c \notin performed
                /\ name[s] = request[c].name
                /\ pc'[c] \in {"connected", "waiting"} => conn'[c] = s
                /\ \A q \in Session : WaitsIn(c, q)' => q = s
           /\ \A i \in 1..Len(backlog'[s]) :
                backlog'[s][i].from = c => backlog'[s][i].line \in {"", line_of(c)'}
  PROVE  Told' /\ Pending'
<1>1. \A d \in Client \ {c} : Listing(d)' = Listing(d)
  BY DEF Listing
<1>2. Told'
  <2>1. SUFFICES ASSUME NEW d \in Client
                 PROVE  /\ d \in performed => ~Listing(d)' /\ pc'[d] \in {"waiting", "done"}
                        /\ ~Listing(d)' /\ d \notin performed =>
                             reply'[d] = "" /\ answer'[d] \in {"", "error"}
                        /\ ~Listing(d)' => (answer'[d] = "" <=> pc'[d] # "done")
    BY DEF Told
  <2>2. CASE d = c
    BY <2>2
  <2>3. CASE d # c
    <3>1. /\ d \in performed => ~Listing(d) /\ pc[d] \in {"waiting", "done"}
          /\ ~Listing(d) /\ d \notin performed => reply[d] = "" /\ answer[d] \in {"", "error"}
          /\ ~Listing(d) => (answer[d] = "" <=> pc[d] # "done")
      BY DEF Told
    <3>2. /\ pc'[d] = pc[d] /\ answer'[d] = answer[d] /\ reply'[d] = reply[d]
          /\ Listing(d)' = Listing(d)
      BY <1>1, <2>3
    <3>. QED BY <3>1, <3>2
  <2>. QED BY <2>2, <2>3
<1>3. ASSUME NEW s \in Session, NEW d \in Client, WaitsIn(d, s)', ~Listing(d)'
      PROVE  /\ d \notin performed'
             /\ name'[s] = request'[d].name
             /\ pc'[d] \in {"connected", "waiting"} => conn'[d] = s
             /\ \A q \in Session : WaitsIn(d, q)' => q = s
  <2>1. CASE d = c
    BY <1>3, <2>1
  <2>2. CASE d # c
    <3>1. WaitsIn(d, s) /\ ~Listing(d) /\ \A q \in Session : WaitsIn(d, q)' => WaitsIn(d, q)
      BY <1>1, <1>3, <2>2
    <3>2. /\ d \notin performed
          /\ name[s] = request[d].name
          /\ pc[d] \in {"connected", "waiting"} => conn[d] = s
          /\ \A q \in Session : WaitsIn(d, q) => q = s
      BY <3>1 DEF Pending
    <3>. QED BY <2>2, <3>1, <3>2
  <2>. QED BY <2>1, <2>2
<1>4. ASSUME NEW s \in Session, NEW i \in 1..Len(backlog'[s]), NEW d \in Client, backlog'[s][i].from = d
      PROVE  backlog'[s][i].line \in {"", line_of(d)'}
  <2>1. CASE d = c
    BY <1>4, <2>1
  <2>2. CASE d # c
    <3>1. PICK j \in 1..Len(backlog[s]) : backlog'[s][i] = backlog[s][j]
      BY <1>4, <2>2
    <3>2. backlog[s][j].line \in {"", line_of(d)}
      BY <1>4, <3>1 DEF Pending
    <3>3. line_of(d)' = line_of(d)
      BY <1>1, <2>2 DEF line_of
    <3>. QED BY <3>1, <3>2, <3>3
  <2>. QED BY <2>1, <2>2
<1>. QED BY <1>2, <1>3, <1>4 DEF Pending

(* The same when its connections stay as they are.                         *)
LEMMA OneClientOnly ==
  ASSUME Told, Pending, NEW c \in Client, UNCHANGED <<request, performed, name, backlog>>,
         \A d \in Client \ {c} :
           pc'[d] = pc[d] /\ conn'[d] = conn[d] /\ answer'[d] = answer[d] /\ reply'[d] = reply[d],
         Listing(c)' = Listing(c),
         ~Listing(c) =>
           /\ c \in performed => pc'[c] \in {"waiting", "done"}
           /\ c \notin performed => reply'[c] = "" /\ answer'[c] \in {"", "error"}
           /\ (answer'[c] = "" <=> pc'[c] # "done")
           /\ pc'[c] \notin {"connected", "waiting"}
  PROVE  Told' /\ Pending'
<1>1. \A d \in Client, s \in Session : WaitsIn(d, s)' = WaitsIn(d, s)
  BY DEF WaitsIn
<1>2. line_of(c)' = line_of(c)
  BY DEF line_of
<1>3. \A s \in Session :
        /\ WaitsIn(c, s)' /\ ~Listing(c)' =>
             /\ c \notin performed
             /\ name[s] = request[c].name
             /\ pc'[c] \in {"connected", "waiting"} => conn'[c] = s
             /\ \A q \in Session : WaitsIn(c, q)' => q = s
        /\ \A i \in 1..Len(backlog'[s]) :
             backlog'[s][i].from = c => backlog'[s][i].line \in {"", line_of(c)'}
  <2>1. ASSUME NEW s \in Session, WaitsIn(c, s)', ~Listing(c)'
        PROVE  /\ c \notin performed
               /\ name[s] = request[c].name
               /\ pc'[c] \in {"connected", "waiting"} => conn'[c] = s
               /\ \A q \in Session : WaitsIn(c, q)' => q = s
    BY <1>1, <2>1 DEF Pending
  <2>2. ASSUME NEW s \in Session, NEW i \in 1..Len(backlog'[s]), backlog'[s][i].from = c
        PROVE  backlog'[s][i].line \in {"", line_of(c)'}
    <3>1. backlog[s][i].line \in {"", line_of(c)}
      BY <2>2 DEF Pending
    <3>. QED BY <1>2, <3>1
  <2>. QED BY <2>1, <2>2
<1>4. \A d \in Client \ {c} :
        /\ \A s \in Session : WaitsIn(d, s)' => WaitsIn(d, s)
        /\ \A s \in Session : \A i \in 1..Len(backlog'[s]) : backlog'[s][i].from = d =>
             \E j \in 1..Len(backlog[s]) : backlog'[s][i] = backlog[s][j]
  BY <1>1
<1>5. c \in performed => ~Listing(c)' /\ pc'[c] \in {"waiting", "done"}
  BY DEF Told
<1>. QED BY <1>3, <1>4, <1>5, OneClient

(* A client that has not asked has no connection.                          *)
LEMMA NotWaiting ==
  ASSUME IInv, NEW c \in Client, pc[c] = "ask", ~Listing(c), NEW s \in Session
  PROVE  ~WaitsIn(c, s)
<1>. SUFFICES ASSUME NEW i \in 1..Len(backlog[s]), backlog[s][i].from = c PROVE FALSE
  BY DEF WaitsIn
<1>1. Connection(s, i)
  BY DEF IInv, Connections
<1>. QED BY <1>1 DEF Connection, Asked

(* What becomes of a client that looks for a session.                      *)
LEMMA ConnectFacts ==
  ASSUME IInv, NEW c \in Client, Connect(c)
  PROVE  /\ pc[c] = "ask"
         /\ UNCHANGED <<file, listening, room, request, base, name, lock, target, reply, performed>>
         /\ \A d \in Client \ {c} :
              pc'[d] = pc[d] /\ conn'[d] = conn[d] /\ answer'[d] = answer[d]
         /\ \A s \in Session : pc'[s] = pc[s]
         /\ \/ \E s \in Session :
                 /\ s \in listening /\ name[s] = target[c]
                 /\ backlog' = [backlog EXCEPT ![s] = Append(@, [from |-> c, line |-> ""])]
                 /\ pc'[c] = "connected" /\ conn'[c] = s /\ UNCHANGED answer
            \/ /\ ~(valid_name(target[c]) /\ Live(target[c]))
               /\ Listing(c) /\ pc'[c] = "purge" /\ UNCHANGED <<answer, backlog>>
            \/ /\ ~(valid_name(target[c]) /\ Live(target[c]))
               /\ ~Listing(c) /\ pc'[c] = "readdir" /\ answer'[c] = "no session" /\ UNCHANGED backlog
<1>. DEFINE t == file[target[c]]
<1>1. /\ pc \in [Session \cup Client -> Stages \cup Steps]
      /\ conn \in [Client -> Session \cup {NONE}]
      /\ answer \in [Client -> {"", "locked", "unlocked", "no session", "error"}]
  BY DEF IInv, Shape, TypeOK
<1>2. /\ pc[c] = "ask"
      /\ UNCHANGED <<file, listening, room, request, base, name, lock, target, reply, performed>>
  BY DEF Connect, socketvars, given, fixed, sessionvars, history
<1>3. \/ /\ valid_name(target[c]) /\ Live(target[c])
         /\ conn' = [conn EXCEPT ![c] = t]
         /\ backlog' = [backlog EXCEPT ![t] = Append(@, [from |-> c, line |-> ""])]
         /\ Go(c, "connected") /\ UNCHANGED answer
      \/ /\ ~(valid_name(target[c]) /\ Live(target[c]))
         /\ Listing(c) /\ Go(c, "purge") /\ UNCHANGED <<answer, conn, backlog>>
      \/ /\ ~(valid_name(target[c]) /\ Live(target[c]))
         /\ ~Listing(c) /\ Go(c, "readdir")
         /\ answer' = [answer EXCEPT ![c] = "no session"]
         /\ UNCHANGED <<conn, backlog>>
  BY DEF Connect, NoSession
<1>4. ASSUME valid_name(target[c]), Live(target[c])
      PROVE  t \in Session /\ t \in listening /\ name[t] = target[c]
  <2>1. target[c] \in DOMAIN file /\ t \in listening
    BY <1>4 DEF Live
  <2>2. t \in Session
    BY <1>4, <2>1 DEF IInv, Owners, TypeOK
  <2>. QED BY <2>1, <2>2 DEF IInv, Owners, Serving
<1>. HIDE DEF t
<1>5. CASE /\ valid_name(target[c]) /\ Live(target[c])
           /\ conn' = [conn EXCEPT ![c] = t]
           /\ backlog' = [backlog EXCEPT ![t] = Append(@, [from |-> c, line |-> ""])]
           /\ Go(c, "connected") /\ UNCHANGED answer
  <2>1. /\ pc'[c] = "connected" /\ conn'[c] = t
        /\ \A d \in Client \ {c} : pc'[d] = pc[d] /\ conn'[d] = conn[d] /\ answer'[d] = answer[d]
        /\ \A s \in Session : pc'[s] = pc[s]
    BY <1>1, <1>5, ProcessFacts DEF Go
  <2>. QED BY <1>2, <1>4, <1>5, <2>1
<1>6. CASE /\ ~(valid_name(target[c]) /\ Live(target[c]))
           /\ Listing(c) /\ Go(c, "purge") /\ UNCHANGED <<answer, conn, backlog>>
  <2>1. /\ pc'[c] = "purge"
        /\ \A d \in Client \ {c} : pc'[d] = pc[d] /\ conn'[d] = conn[d] /\ answer'[d] = answer[d]
        /\ \A s \in Session : pc'[s] = pc[s]
    BY <1>1, <1>6, ProcessFacts DEF Go
  <2>. QED BY <1>2, <1>3, <1>4, <1>6, <2>1
<1>7. CASE /\ ~(valid_name(target[c]) /\ Live(target[c]))
           /\ ~Listing(c) /\ Go(c, "readdir")
           /\ answer' = [answer EXCEPT ![c] = "no session"]
           /\ UNCHANGED <<conn, backlog>>
  <2>1. /\ pc'[c] = "readdir" /\ answer'[c] = "no session"
        /\ \A d \in Client \ {c} : pc'[d] = pc[d] /\ conn'[d] = conn[d] /\ answer'[d] = answer[d]
        /\ \A s \in Session : pc'[s] = pc[s]
    BY <1>1, <1>7, ProcessFacts DEF Go
  <2>. QED BY <1>2, <1>7, <2>1
<1>. QED BY <1>3, <1>5, <1>6, <1>7

(* A client that connects keeps it.                                        *)
LEMMA ConnectTold ==
  ASSUME IInv, Told, Pending, NEW c \in Client, Connect(c)
  PROVE  Told' /\ Pending'
<1>1. /\ pc[c] = "ask"
      /\ UNCHANGED <<file, listening, room, request, base, name, lock, target, reply, performed>>
      /\ \A d \in Client \ {c} :
           pc'[d] = pc[d] /\ conn'[d] = conn[d] /\ answer'[d] = answer[d] /\ reply'[d] = reply[d]
  BY ConnectFacts
<1>2. c \notin performed
  BY <1>1 DEF Told
<1>3. reply'[c] = ""
  BY <1>1 DEF IInv, TypeOK
<1>4. CASE Listing(c) /\ UNCHANGED <<answer, backlog>>
  BY <1>1, <1>4, OneClientOnly DEF Listing
<1>5. CASE ~Listing(c) /\ pc'[c] = "readdir" /\ answer'[c] = "no session" /\ UNCHANGED backlog
  <2>1. Listing(c)'
    BY <1>5 DEF Listing
  <2>2. \A d \in Client, s \in Session : WaitsIn(d, s)' = WaitsIn(d, s)
    BY <1>5 DEF WaitsIn
  <2>3. \A s \in Session : \A i \in 1..Len(backlog'[s]) : backlog'[s][i].from # c
    BY <1>1, <1>5, NotWaiting DEF WaitsIn
  <2>4. \A d \in Client \ {c} :
          /\ \A s \in Session : WaitsIn(d, s)' => WaitsIn(d, s)
          /\ \A s \in Session : \A i \in 1..Len(backlog'[s]) : backlog'[s][i].from = d =>
               \E j \in 1..Len(backlog[s]) : backlog'[s][i] = backlog[s][j]
    BY <1>5, <2>2
  <2>. QED BY <1>1, <1>2, <2>1, <2>3, <2>4, OneClient
<1>6. ASSUME NEW s \in Session, s \in listening, name[s] = target[c],
             backlog' = [backlog EXCEPT ![s] = Append(@, [from |-> c, line |-> ""])],
             pc'[c] = "connected", conn'[c] = s, UNCHANGED answer
      PROVE  Told' /\ Pending'
  <2>. DEFINE entry == [from |-> c, line |-> ""]
  <2>1. /\ backlog \in [Session -> Seq(Entry)]
        /\ entry \in Entry /\ entry.from = c /\ entry.line = ""
    BY DEF IInv, Shape, Entry, Line
  <2>2. backlog' = [backlog EXCEPT ![s] = Append(@, entry)]
    BY <1>6
  <2>. HIDE DEF entry
  <2>3. ASSUME NEW q \in Session
        PROVE  /\ Len(backlog[q]) \in Nat
               /\ Len(backlog'[q]) \in {Len(backlog[q]), Len(backlog[q]) + 1}
               /\ \A j \in 1..Len(backlog[q]) : backlog'[q][j] = backlog[q][j]
               /\ \A j \in 1..Len(backlog'[q]) : j \notin 1..Len(backlog[q]) => backlog'[q][j] = entry
    <3>1. /\ backlog[q] \in Seq(Entry) /\ entry \in Entry
          /\ backlog'[q] = backlog[q] \/ backlog'[q] = Append(backlog[q], entry)
      BY <2>1, <2>2
    <3>. QED BY <3>1, MaybeAppended
  <2>4. \A q \in Session \ {s} : backlog'[q] = backlog[q]
    BY <2>1, <2>2
  <2>5. Listing(c)' = Listing(c)
    BY <1>1, <1>6 DEF Listing
  <2>6. ASSUME NEW d \in Client \ {c}
        PROVE  /\ \A q \in Session : WaitsIn(d, q)' => WaitsIn(d, q)
               /\ \A q \in Session : \A i \in 1..Len(backlog'[q]) : backlog'[q][i].from = d =>
                    \E j \in 1..Len(backlog[q]) : backlog'[q][i] = backlog[q][j]
    <3>1. \A q \in Session : \A i \in 1..Len(backlog'[q]) : backlog'[q][i].from = d =>
            i \in 1..Len(backlog[q]) /\ backlog'[q][i] = backlog[q][i]
      BY <2>1, <2>3
    <3>. QED BY <3>1 DEF WaitsIn
  <2>7. ASSUME NEW q \in Session, NEW i \in 1..Len(backlog'[q]), backlog'[q][i].from = c
        PROVE  backlog'[q][i].line \in {"", line_of(c)'}
    <3>1. CASE i \in 1..Len(backlog[q])
      <4>1. backlog[q][i].line \in {"", line_of(c)}
        <5>1. backlog[q][i].from = c
          BY <2>3, <2>7, <3>1
        <5>2. \A j \in 1..Len(backlog[q]) :
                backlog[q][j].from = c => backlog[q][j].line \in {"", line_of(c)}
          BY DEF Pending
        <5>. QED BY <3>1, <5>1, <5>2
      <4>2. line_of(c)' = line_of(c)
        BY <1>1, <2>5 DEF line_of
      <4>. QED BY <2>3, <3>1, <4>1, <4>2
    <3>2. CASE i \notin 1..Len(backlog[q])
      BY <2>1, <2>3, <3>2
    <3>. QED BY <3>1, <3>2
  <2>8. ASSUME NEW q \in Session, WaitsIn(c, q)', ~Listing(c)'
        PROVE  q = s
    <3>1. ~WaitsIn(c, q)
      BY <1>1, <2>5, <2>8, NotWaiting
    <3>. QED BY <2>4, <2>8, <3>1 DEF WaitsIn
  <2>9. ~Listing(c) => name[s] = request[c].name /\ (answer'[c] = "" <=> pc'[c] # "done")
                       /\ answer'[c] = ""
    BY <1>1, <1>6 DEF IInv, Lists, Told
  <2>10. \A q \in Session :
           /\ WaitsIn(c, q)' /\ ~Listing(c)' =>
                /\ c \notin performed
                /\ name[q] = request[c].name
                /\ pc'[c] \in {"connected", "waiting"} => conn'[c] = q
                /\ \A r \in Session : WaitsIn(c, r)' => r = q
           /\ \A i \in 1..Len(backlog'[q]) :
                backlog'[q][i].from = c => backlog'[q][i].line \in {"", line_of(c)'}
    BY <1>2, <1>6, <2>5, <2>7, <2>8, <2>9
  <2>. QED BY <1>1, <1>2, <1>3, <2>5, <2>6, <2>9, <2>10, OneClient
<1>7. \/ \E s \in Session :
           /\ s \in listening /\ name[s] = target[c]
           /\ backlog' = [backlog EXCEPT ![s] = Append(@, [from |-> c, line |-> ""])]
           /\ pc'[c] = "connected" /\ conn'[c] = s /\ UNCHANGED answer
      \/ Listing(c) /\ UNCHANGED <<answer, backlog>>
      \/ ~Listing(c) /\ pc'[c] = "readdir" /\ answer'[c] = "no session" /\ UNCHANGED backlog
  BY ConnectFacts
<1>. QED BY <1>4, <1>5, <1>6, <1>7, Zenon

(* A client that has sent its line, or failed to, keeps it.                *)
LEMMA SendTold ==
  ASSUME IInv, Told, Pending, NEW c \in Client, pc[c] \in {"connected", "waiting"},
         (Io(c) /\ reply[c] = "") \/ (Answered(c) /\ reply[c] # ""),
         UNCHANGED <<name, backlog, request, performed>>
  PROVE  Told' /\ Pending'
<1>1. /\ pc \in [Session \cup Client -> Stages \cup Steps]
      /\ conn \in [Client -> Session \cup {NONE}]
      /\ reply \in [Client -> {"", "locked", "unlocked"}]
      /\ answer \in [Client -> {"", "locked", "unlocked", "no session", "error"}]
  BY DEF IInv, Shape, TypeOK
<1>2. \A d \in Client \ {c} :
        pc'[d] = pc[d] /\ conn'[d] = conn[d] /\ answer'[d] = answer[d] /\ reply'[d] = reply[d]
  BY <1>1 DEF Io, Answered, Go
<1>3. CASE Listing(c)
  <2>1. UNCHANGED answer
    BY <1>3 DEF Io, Answered
  <2>2. Listing(c)' = Listing(c)
    BY <2>1 DEF Listing
  <2>. QED BY <1>2, <1>3, <2>2, OneClientOnly
<1>4. CASE ~Listing(c)
  <2>1. /\ pc'[c] = "done" /\ reply'[c] = ""
        /\ \/ answer'[c] = "error" /\ reply[c] = ""
           \/ answer'[c] = reply[c] /\ reply[c] # ""
    BY <1>1, <1>4 DEF Io, Answered, Go
  <2>2. answer'[c] \notin {"", "no session"}
    BY <1>1, <2>1
  <2>3. Listing(c)' = Listing(c)
    BY <1>4, <2>2 DEF Listing
  <2>4. c \notin performed => answer'[c] = "error"
    BY <1>4, <2>1 DEF Told
  <2>. QED BY <1>2, <2>1, <2>2, <2>3, <2>4, OneClientOnly
<1>. QED BY <1>3, <1>4

(* A client that writes its line keeps it.                                 *)
LEMMA WriteTold ==
  ASSUME IInv, Told, Pending, NEW c \in Client, WriteLine(c)
  PROVE  Told' /\ Pending'
<1>1. /\ pc[c] = "connected" /\ reply[c] = ""
      /\ UNCHANGED <<name, request, performed>>
  BY DEF WriteLine, sessionvars, given, fixed, history, IInv, TypeOK
<1>2. CASE Place(c) = 0
  <2>1. Io(c) /\ UNCHANGED backlog
    BY <1>2 DEF WriteLine
  <2>. QED BY <1>1, <2>1, SendTold
<1>3. CASE Place(c) > 0
  <2>0. PICK s \in Session : \E k \in 1..Len(backlog[s]) :
          /\ conn[c] = s /\ backlog[s][k].from = c
          /\ backlog' \in [Session -> Seq(Entry)]
          /\ \A q \in Session \ {s} : backlog'[q] = backlog[q]
          /\ Len(backlog'[s]) = Len(backlog[s])
          /\ \A i \in 1..Len(backlog[s]) \ {k} : backlog'[s][i] = backlog[s][i]
          /\ backlog'[s][k].from = c /\ backlog'[s][k].line = line_of(c)
          /\ line_of(c) \in Line /\ line_of(c) # ""
    BY <1>3, WriteFacts
  <2>1. PICK k \in 1..Len(backlog[s]) :
          /\ conn[c] = s /\ backlog[s][k].from = c
          /\ backlog' \in [Session -> Seq(Entry)]
          /\ \A q \in Session \ {s} : backlog'[q] = backlog[q]
          /\ Len(backlog'[s]) = Len(backlog[s])
          /\ \A i \in 1..Len(backlog[s]) \ {k} : backlog'[s][i] = backlog[s][i]
          /\ backlog'[s][k].from = c /\ backlog'[s][k].line = line_of(c)
          /\ line_of(c) \in Line /\ line_of(c) # ""
    BY <2>0
  <2>2. /\ \A d \in Client \ {c} : pc'[d] = pc[d]
        /\ pc'[c] = "waiting"
        /\ UNCHANGED <<conn, reply, answer>>
    <3>1. pc \in [Session \cup Client -> Stages \cup Steps]
      BY DEF IInv, Shape
    <3>. QED BY <1>3, <3>1 DEF WriteLine, Go
  <2>3. \A d \in Client : Listing(d)' = Listing(d) /\ line_of(d)' = line_of(d)
    BY <1>1, <2>2 DEF Listing, line_of
  <2>4. /\ \A q \in Session \ {s} : backlog'[q] = backlog[q]
        /\ Len(backlog'[s]) = Len(backlog[s])
        /\ \A i \in 1..Len(backlog[s]) \ {k} : backlog'[s][i] = backlog[s][i]
        /\ backlog'[s][k].from = c /\ backlog'[s][k].line = line_of(c)
    BY <2>1
  <2>5. ASSUME NEW q \in Session
        PROVE  /\ Len(backlog'[q]) = Len(backlog[q])
               /\ \A i \in 1..Len(backlog[q]) :
                    /\ backlog'[q][i].from = backlog[q][i].from
                    /\ backlog'[q][i] = backlog[q][i]
                       \/ (backlog[q][i].from = c /\ backlog'[q][i].line = line_of(c))
    <3>1. CASE q = s
      <4>1. ASSUME NEW i \in 1..Len(backlog[s])
            PROVE  /\ backlog'[s][i].from = backlog[s][i].from
                   /\ backlog'[s][i] = backlog[s][i]
                      \/ (backlog[s][i].from = c /\ backlog'[s][i].line = line_of(c))
        BY <2>1, <2>4
      <4>. QED BY <2>4, <3>1, <4>1
    <3>2. CASE q # s
      BY <2>4, <3>2
    <3>. QED BY <3>1, <3>2
  <2>6. \A d \in Client, q \in Session : WaitsIn(d, q)' => WaitsIn(d, q)
    BY <2>5 DEF WaitsIn
  <2>7. ASSUME NEW d \in Client \ {c}
        PROVE  \A q \in Session : \A i \in 1..Len(backlog'[q]) : backlog'[q][i].from = d =>
                 \E j \in 1..Len(backlog[q]) : backlog'[q][i] = backlog[q][j]
    BY <2>5
  <2>8. ASSUME NEW q \in Session, NEW i \in 1..Len(backlog'[q]), backlog'[q][i].from = c
        PROVE  backlog'[q][i].line \in {"", line_of(c)'}
    <3>1. \A j \in 1..Len(backlog[q]) :
            backlog[q][j].from = c => backlog[q][j].line \in {"", line_of(c)}
      BY DEF Pending
    <3>. QED BY <2>3, <2>5, <2>8, <3>1
  <2>9. ASSUME NEW q \in Session, WaitsIn(c, q)', ~Listing(c)'
        PROVE  /\ c \notin performed
               /\ name[q] = request[c].name
               /\ pc'[c] \in {"connected", "waiting"} => conn'[c] = q
               /\ \A r \in Session : WaitsIn(c, r)' => r = q
    BY <1>1, <2>2, <2>3, <2>6, <2>9 DEF Pending
  <2>10. /\ c \in performed => ~Listing(c)' /\ pc'[c] \in {"waiting", "done"}
         /\ ~Listing(c)' /\ c \notin performed => reply'[c] = "" /\ answer'[c] \in {"", "error"}
         /\ ~Listing(c)' => (answer'[c] = "" <=> pc'[c] # "done")
    BY <1>1, <2>2, <2>3 DEF Told
  <2>. QED BY <1>1, <2>2, <2>6, <2>7, <2>8, <2>9, <2>10, OneClient
<1>4. Place(c) > 0 \/ Place(c) = 0
  BY DEF WriteLine
<1>. QED BY <1>2, <1>3, <1>4

(* Every step of a client keeps it.                                        *)
LEMMA AskingTold ==
  ASSUME IInv, Told, Pending, NEW c \in Client, Asking(c)
  PROVE  Told' /\ Pending'
<1>1. CASE ReadLine(c)
  <2>1. /\ pc[c] = "waiting" /\ UNCHANGED <<name, backlog, request, performed>>
        /\ (Io(c) /\ reply[c] = "") \/ (Answered(c) /\ reply[c] # "")
    BY <1>1 DEF ReadLine, sessionvars, given, fixed, history
  <2>. QED BY <2>1, SendTold
<1>2. CASE ReadDir(c) \/ NextName(c) \/ Purge(c)
  <2>1. /\ UNCHANGED <<request, performed, name, backlog, conn, answer, reply>>
        /\ pc[c] \in {"readdir", "next", "purge"}
    BY <1>2 DEF ReadDir, NextName, Purge, sessionvars, clientvars, given, fixed, history
  <2>2. \A d \in Client \ {c} : pc'[d] = pc[d]
    <3>1. pc \in [Session \cup Client -> Stages \cup Steps]
      BY DEF IInv, Shape
    <3>2. \E where : pc' = [pc EXCEPT ![c] = where]
      BY <1>2 DEF ReadDir, NextName, Purge, Go
    <3>. QED BY <3>1, <3>2
  <2>3. Listing(c) /\ Listing(c)' = Listing(c)
    BY <2>1 DEF IInv, Lists, Listing
  <2>. QED BY <2>1, <2>2, <2>3, OneClientOnly
<1>. QED BY <1>1, <1>2, ConnectTold, WriteTold DEF Asking

(* The connection that is served goes, the others move up.                 *)
LEMMA TailFacts ==
  ASSUME IInv, NEW s \in Session, serve_one(s)
  PROVE  /\ pc[s] = "up" /\ backlog[s] \in Seq(Entry) /\ Len(backlog[s]) \in Nat \ {0}
         /\ Head(backlog[s]) = backlog[s][1] /\ backlog[s][1] \in Entry
         /\ \A q \in Session \ {s} : backlog'[q] = backlog[q]
         /\ Len(backlog'[s]) = Len(backlog[s]) - 1
         /\ \A i \in 1..Len(backlog'[s]) :
              i + 1 \in 1..Len(backlog[s]) /\ backlog'[s][i] = backlog[s][i + 1]
<1>1. /\ pc[s] = "up" /\ backlog[s] # <<>>
      /\ backlog' = [backlog EXCEPT ![s] = Tail(backlog[s])]
  BY DEF serve_one
<1>2. backlog \in [Session -> Seq(Entry)]
  BY DEF IInv, Shape
<1>3. backlog[s] \in Seq(Entry) /\ Len(backlog[s]) \in Nat \ {0}
  BY <1>1, <1>2, EmptySeq
<1>4. /\ Head(backlog[s]) = backlog[s][1]
      /\ Len(Tail(backlog[s])) = Len(backlog[s]) - 1
      /\ \A i \in 1..Len(backlog[s]) - 1 : Tail(backlog[s])[i] = backlog[s][i + 1]
  BY <1>1, <1>3, HeadTailProperties
<1>5. 1 \in 1..Len(backlog[s])
  BY <1>3
<1>6. backlog[s][1] \in Entry
  BY <1>3, <1>5, ElementOfSeq
<1>7. /\ \A q \in Session \ {s} : backlog'[q] = backlog[q]
      /\ backlog'[s] = Tail(backlog[s])
  BY <1>1, <1>2
<1>8. Len(backlog'[s]) = Len(backlog[s]) - 1
  BY <1>4, <1>7
<1>9. ASSUME NEW i \in 1..Len(backlog'[s])
      PROVE  i + 1 \in 1..Len(backlog[s]) /\ backlog'[s][i] = backlog[s][i + 1]
  <2>1. i \in 1..Len(backlog[s]) - 1
    BY <1>8
  <2>. QED BY <1>3, <1>4, <1>7, <2>1
<1>. QED BY <1>1, <1>3, <1>4, <1>6, <1>7, <1>8, <1>9

(* The connection that is served next has its line.                        *)
Asks(s) == backlog[s][1].line # ""

(* A request that is served: what its client asked, and has not had.       *)
LEMMA ServedFacts ==
  ASSUME IInv, Told, Pending, NEW s \in Session, serve_one(s), Asks(s)
  PROVE  \E c \in Client :
           /\ backlog[s][1].from = c /\ backlog[s][1].line = line_of(c)
           /\ conn[c] = s => pc[c] = "waiting"
           /\ ~Listing(c) =>
                /\ c \notin performed /\ reply[c] = "" /\ answer[c] \in {"", "error"}
                /\ answer[c] = "" => conn[c] = s
                /\ name[s] = request[c].name
                /\ pc[c] \in {"waiting", "done"}
           /\ \A i \in 2..Len(backlog[s]) : backlog[s][i].from # c
<1>1. /\ backlog[s] \in Seq(Entry) /\ Len(backlog[s]) \in Nat \ {0}
      /\ 1 \in 1..Len(backlog[s])
  <2>1. /\ backlog[s] \in Seq(Entry) /\ Len(backlog[s]) \in Nat \ {0}
    BY TailFacts
  <2>. QED BY <2>1
<1>2. Connection(s, 1)
  BY <1>1 DEF IInv, Connections
<1>3. PICK c \in Client : backlog[s][1].from = c
  <2>1. backlog[s][1].from \in Client
    BY <1>2, Zenon DEF Connection, Asks
  <2>. QED BY <2>1, Zenon
<1>4. /\ Asked(c, s)
      /\ conn[c] = s => pc[c] = "waiting"
      /\ \A i \in 1..Len(backlog[s]) : backlog[s][i].from = c => i = 1
  BY <1>1, <1>2, <1>3, Zenon DEF Connection, Asks
<1>5. \A i \in 2..Len(backlog[s]) : backlog[s][i].from # c
  <2>1. \A i \in 2..Len(backlog[s]) : i \in 1..Len(backlog[s]) /\ i # 1
    BY <1>1
  <2>. QED BY <1>4, <2>1, Zenon
<1>6. backlog[s][1].line = line_of(c)
  <2>1. \A i \in 1..Len(backlog[s]) :
          backlog[s][i].from = c => backlog[s][i].line \in {"", line_of(c)}
    BY DEF Pending
  <2>2. backlog[s][1].line # ""
    BY DEF Asks
  <2>. QED BY <1>1, <1>3, <2>1, <2>2, Zenon
<1>7. ASSUME ~Listing(c)
      PROVE  /\ c \notin performed /\ reply[c] = "" /\ answer[c] \in {"", "error"}
             /\ answer[c] = "" => conn[c] = s
             /\ name[s] = request[c].name
             /\ pc[c] \in {"waiting", "done"}
  <2>1. WaitsIn(c, s)
    BY <1>1, <1>3 DEF WaitsIn
  <2>2. /\ c \notin performed /\ name[s] = request[c].name
        /\ pc[c] \in {"connected", "waiting"} => conn[c] = s
    BY <1>7, <2>1 DEF Pending
  <2>3. /\ reply[c] = "" /\ answer[c] \in {"", "error"}
        /\ answer[c] = "" <=> pc[c] # "done"
    BY <1>7, <2>2 DEF Told
  <2>4. pc[c] \in {"connected", "waiting", "done"}
    BY <1>4, <1>7 DEF Asked
  <2>. QED BY <1>4, <2>2, <2>3, <2>4
<1>. QED BY <1>1, <1>3, <1>4, <1>5, <1>6, <1>7

(* A session that serves a client performs what it tells.                  *)
LEMMA ServeTold ==
  ASSUME IInv, Told, Pending, NEW s \in Session, serve_one(s)
  PROVE  Told' /\ Pending'
<1>1. /\ backlog[s] \in Seq(Entry) /\ Len(backlog[s]) \in Nat \ {0}
      /\ \A q \in Session \ {s} : backlog'[q] = backlog[q]
      /\ Len(backlog'[s]) = Len(backlog[s]) - 1
      /\ \A i \in 1..Len(backlog'[s]) :
           i + 1 \in 1..Len(backlog[s]) /\ backlog'[s][i] = backlog[s][i + 1]
  BY TailFacts
<1>0. 1 \in 1..Len(backlog[s])
  BY <1>1
<1>2. UNCHANGED <<request, name, pc, conn, answer>>
  BY DEF serve_one, given, fixed, sessionvars
<1>3. ASSUME NEW q \in Session, NEW i \in 1..Len(backlog'[q])
      PROVE  \E j \in 1..Len(backlog[q]) : backlog'[q][i] = backlog[q][j]
  <2>1. CASE q = s
    BY <1>1, <2>1
  <2>2. CASE q # s
    BY <1>1, <2>2
  <2>. QED BY <2>1, <2>2
<1>4. CASE UNCHANGED <<reply, performed>>
  BY <1>2, <1>3, <1>4, Unnoticed
<1>5. CASE Asks(s)
  <2>1. PICK c \in Client :
           /\ backlog[s][1].from = c /\ backlog[s][1].line = line_of(c)
           /\ conn[c] = s => pc[c] = "waiting"
           /\ ~Listing(c) =>
                /\ c \notin performed /\ reply[c] = "" /\ answer[c] \in {"", "error"}
                /\ answer[c] = "" => conn[c] = s
                /\ name[s] = request[c].name
                /\ pc[c] \in {"waiting", "done"}
           /\ \A i \in 2..Len(backlog[s]) : backlog[s][i].from # c
    BY <1>5, ServedFacts
  <2>2. /\ \A d \in Client \ {c} : reply'[d] = reply[d]
        /\ performed' = IF Listing(c) THEN performed ELSE performed \cup {c}
    <3>1. reply \in [Client -> {"", "locked", "unlocked"}]
      BY DEF IInv, Shape
    <3>2. Head(backlog[s]) = backlog[s][1]
      BY TailFacts
    <3>3. /\ \E w : reply' = [reply EXCEPT ![c] = w]
          /\ performed' = IF Listing(c) THEN performed ELSE performed \cup {c}
      <4>1. Head(backlog[s]).from = c /\ Head(backlog[s]).line # ""
        BY <1>5, <2>1, <3>2, Zenon DEF Asks
      <4>. QED BY <4>1, Zenon DEF serve_one
    <3>. QED BY <3>1, <3>3
  <2>3. \A d \in Client : Listing(d)' = Listing(d) /\ line_of(d)' = line_of(d)
    BY <1>2 DEF Listing, line_of
  <2>4. \A d \in Client, q \in Session : WaitsIn(d, q)' => WaitsIn(d, q)
    BY <1>3 DEF WaitsIn
  <2>5. ~Listing(c) => \A q \in Session : ~WaitsIn(c, q)'
    <3>1. SUFFICES ASSUME ~Listing(c), NEW q \in Session, NEW i \in 1..Len(backlog'[q]),
                          backlog'[q][i].from = c
                   PROVE  FALSE
      BY DEF WaitsIn
    <3>2. WaitsIn(c, q)
      BY <1>3, <3>1 DEF WaitsIn
    <3>3. WaitsIn(c, s)
      <4>1. 1 \in 1..Len(backlog[s]) /\ backlog[s][1].from = c
        BY <1>0, <2>1, Zenon
      <4>. QED BY <4>1 DEF WaitsIn
    <3>4. q = s
      BY <3>1, <3>2, <3>3 DEF Pending
    <3>5. i + 1 \in 2..Len(backlog[s]) /\ backlog[s][i + 1].from = c
      BY <1>1, <3>1, <3>4
    <3>. QED BY <2>1, <3>5
  <2>6. Told'
    <3>1. SUFFICES ASSUME NEW d \in Client
                   PROVE  /\ d \in performed' => ~Listing(d) /\ pc[d] \in {"waiting", "done"}
                          /\ ~Listing(d) /\ d \notin performed' =>
                               reply'[d] = "" /\ answer[d] \in {"", "error"}
                          /\ ~Listing(d) => (answer[d] = "" <=> pc[d] # "done")
      BY <1>2, <2>3 DEF Told
    <3>2. /\ d \in performed => ~Listing(d) /\ pc[d] \in {"waiting", "done"}
          /\ ~Listing(d) /\ d \notin performed => reply[d] = "" /\ answer[d] \in {"", "error"}
          /\ ~Listing(d) => (answer[d] = "" <=> pc[d] # "done")
      BY DEF Told
    <3>3. CASE d = c
      BY <2>1, <2>2, <3>2, <3>3
    <3>4. CASE d # c
      BY <2>2, <3>2, <3>4
    <3>. QED BY <3>3, <3>4
  <2>7. Pending'
    <3>1. ASSUME NEW q \in Session, NEW d \in Client, WaitsIn(d, q)', ~Listing(d)'
          PROVE  /\ d \notin performed'
                 /\ name'[q] = request'[d].name
                 /\ pc'[d] \in {"connected", "waiting"} => conn'[d] = q
                 /\ \A r \in Session : WaitsIn(d, r)' => r = q
      <4>1. d # c
        BY <2>3, <2>5, <3>1
      <4>. QED BY <1>2, <2>2, <2>3, <2>4, <3>1, <4>1 DEF Pending
    <3>2. ASSUME NEW q \in Session, NEW i \in 1..Len(backlog'[q]), NEW d \in Client,
                 backlog'[q][i].from = d
          PROVE  backlog'[q][i].line \in {"", line_of(d)'}
      <4>1. PICK j \in 1..Len(backlog[q]) : backlog'[q][i] = backlog[q][j]
        BY <1>3
      <4>2. \A k \in 1..Len(backlog[q]) :
              backlog[q][k].from = d => backlog[q][k].line \in {"", line_of(d)}
        BY DEF Pending
      <4>. QED BY <2>3, <3>2, <4>1, <4>2
    <3>. QED BY <3>1, <3>2 DEF Pending
  <2>. QED BY <2>6, <2>7
<1>6. \/ UNCHANGED <<reply, performed>>
      \/ Asks(s)
  <2>1. Head(backlog[s]) = backlog[s][1]
    BY TailFacts
  <2>. QED BY <2>1 DEF serve_one, Asks
<1>. QED BY <1>4, <1>5, <1>6

(* The whole of the invariant.                                             *)
LEMMA InitRInv == Init => RInv
BY InitIInv, InitUndisturbed, InitOrigins DEF RInv

(* Every step keeps the invariant.                                         *)
LEMMA NextRInv == ~Overlaps /\ RInv /\ [Next]_vars => RInv'
<1>. SUFFICES ASSUME ~Overlaps, RInv, [Next]_vars PROVE RInv'
  OBVIOUS
<1>1. IInv /\ Undisturbed /\ Origins /\ Told /\ Pending
  BY DEF RInv
<1>2. IInv' /\ Undisturbed'
  BY <1>1, NextIInv, NextUndisturbed
<1>3. CASE UNCHANGED vars
  <2>1. UNCHANGED <<room, request, pc, base, name, backlog, conn, reply, answer, performed>>
    BY <1>3 DEF vars, given, fixed, sessionvars, clientvars, history
  <2>2. Origins'
    BY <1>1, <2>1 DEF Origins
  <2>4. Told' /\ Pending'
    BY <1>1, <2>1, Unnoticed
  <2>. QED BY <1>2, <2>2, <2>4 DEF RInv
<1>4. CASE Next
  <2>1. Origins'
    BY <1>1, <1>4, OriginsKept
  <2>2. Told' /\ Pending'
    BY <1>1, <1>4, SessionTold, ServeTold, AskingTold DEF Next
  <2>. QED BY <1>2, <2>1, <2>2 DEF RInv
<1>. QED BY <1>3, <1>4

-------------------------------------------------------------------------------
(* The registry that the sockets make.                                     *)
Registering == {"chmod", "up", "closing"}

reg_bar ==
  [n \in {m \in DOMAIN file : Live(m) /\ file[m] \in Session} |->
     [session |-> file[n], locked |-> lock[file[n]]]]

told(c) == IF Listing(c) THEN answer[c] ELSE IF answer[c] = "" THEN reply[c] ELSE answer[c]

answer_bar == [c \in Client |-> told(c)]

(* It holds the sessions that listen under a name, each with its lock.     *)
RegFacts ==
  /\ reg_bar = [n \in DOMAIN reg_bar |-> reg_bar[n]]
  /\ \A s \in Session : pc[s] \in Registering =>
       /\ name[s] \in DOMAIN reg_bar /\ valid_name(name[s])
       /\ reg_bar[name[s]] = [session |-> s, locked |-> lock[s]]
  /\ \A n \in DOMAIN reg_bar : \E s \in Session : pc[s] \in Registering /\ name[s] = n

(* The invariant tells which names the registry holds, and for whom.       *)
LEMMA RegistryIs == IInv /\ Undisturbed => RegFacts
<1>. SUFFICES ASSUME IInv, Undisturbed PROVE RegFacts
  OBVIOUS
<1>. DEFINE D == {m \in DOMAIN file : Live(m) /\ file[m] \in Session}
<1>1. /\ DOMAIN reg_bar = D
      /\ \A n \in D : reg_bar[n] = [session |-> file[n], locked |-> lock[file[n]]]
      /\ reg_bar = [n \in DOMAIN reg_bar |-> reg_bar[n]]
  BY DEF reg_bar
<1>2. ASSUME NEW s \in Session, pc[s] \in Registering
      PROVE  name[s] \in D /\ valid_name(name[s]) /\ file[name[s]] = s
  <2>1. pc[s] \in Bound /\ pc[s] \in Serving /\ pc[s] \in Named
    BY <1>2 DEF Registering, Bound, Serving, Named
  <2>2. s \in listening
    BY <2>1 DEF IInv, Owners
  <2>3. name[s] \in DOMAIN file /\ file[name[s]] = s
    BY <2>1 DEF Undisturbed
  <2>4. name[s] # <<>>
    BY <2>1 DEF IInv, NamesGiven
  <2>5. valid_name(name[s])
    BY <2>4 DEF IInv, TypeOK
  <2>. QED BY <2>2, <2>3, <2>5 DEF Live
<1>3. ASSUME NEW n \in D
      PROVE  \E s \in Session : pc[s] \in Registering /\ name[s] = n
  <2>1. file[n] \in listening /\ file[n] \in Session /\ n \in DOMAIN file
    BY <1>3 DEF Live
  <2>2. pc[file[n]] \in Serving
    BY <2>1 DEF IInv, Owners
  <2>3. pc[file[n]] \in Bound /\ name[file[n]] = n
    BY <2>1, <2>2 DEF IInv, Owners, Serving
  <2>4. pc[file[n]] \in Registering
    BY <2>2, <2>3 DEF Registering, Bound, Serving
  <2>. QED BY <2>1, <2>3, <2>4
<1>. HIDE DEF D
<1>. QED BY <1>1, <1>2, <1>3 DEF RegFacts

(* The same of the next state.                                             *)
LEMMA RegistryWillBe == IInv' /\ Undisturbed' => RegFacts'
BY RegistryIs, PTL

(* Whoever listened does, as before.                                       *)
LEMMA RegistryStays ==
  ASSUME RegFacts, RegFacts',
         \A s \in Session :
           /\ pc'[s] \in Registering <=> pc[s] \in Registering
           /\ pc[s] \in Registering => name'[s] = name[s] /\ lock'[s] = lock[s]
  PROVE  reg_bar' = reg_bar
<1>1. ASSUME NEW n \in DOMAIN reg_bar
      PROVE  n \in DOMAIN reg_bar' /\ reg_bar'[n] = reg_bar[n]
  <2>1. PICK q \in Session : pc[q] \in Registering /\ name[q] = n
    BY DEF RegFacts
  <2>2. pc'[q] \in Registering /\ name'[q] = n /\ lock'[q] = lock[q]
    BY <2>1
  <2>3. reg_bar[n] = [session |-> q, locked |-> lock[q]]
    BY <2>1, Zenon DEF RegFacts
  <2>4. n \in DOMAIN reg_bar' /\ reg_bar'[n] = [session |-> q, locked |-> lock'[q]]
    BY <2>2, Zenon DEF RegFacts
  <2>. QED BY <2>2, <2>3, <2>4
<1>2. ASSUME NEW n \in DOMAIN reg_bar'
      PROVE  n \in DOMAIN reg_bar
  <2>1. PICK q \in Session : pc'[q] \in Registering /\ name'[q] = n
    BY DEF RegFacts
  <2>2. pc[q] \in Registering /\ name[q] = n
    BY <2>1
  <2>. QED BY <2>2, Zenon DEF RegFacts
<1>3. DOMAIN reg_bar' = DOMAIN reg_bar
  BY <1>1, <1>2
<1>. QED BY <1>1, <1>3 DEF RegFacts

(* A session that comes to listen is registered under its name.            *)
LEMMA RegistryOpens ==
  ASSUME RegFacts, RegFacts', NEW s \in Session,
         pc[s] \notin Registering, pc'[s] \in Registering,
         \A q \in Session : pc[q] \in Registering => name[q] # name'[s],
         \A q \in Session \ {s} :
           /\ pc'[q] \in Registering <=> pc[q] \in Registering
           /\ pc[q] \in Registering => name'[q] = name[q] /\ lock'[q] = lock[q]
  PROVE  /\ \A n \in DOMAIN reg_bar : reg_bar[n].session # s
         /\ name'[s] \in DOMAIN reg_bar' /\ name'[s] \notin DOMAIN reg_bar
         /\ reg_bar' = Registered!With(reg_bar, name'[s], [session |-> s, locked |-> lock'[s]])
<1>1. \A n \in DOMAIN reg_bar : reg_bar[n].session # s /\ n # name'[s]
  <2>1. SUFFICES ASSUME NEW n \in DOMAIN reg_bar
                 PROVE  reg_bar[n].session # s /\ n # name'[s]
    OBVIOUS
  <2>2. PICK q \in Session : pc[q] \in Registering /\ name[q] = n
    BY DEF RegFacts
  <2>3. reg_bar[n] = [session |-> q, locked |-> lock[q]]
    BY <2>2 DEF RegFacts
  <2>4. reg_bar[n].session = q
    BY <2>3
  <2>. QED BY <2>2, <2>4
<1>2. name'[s] \in DOMAIN reg_bar' /\ reg_bar'[name'[s]] = [session |-> s, locked |-> lock'[s]]
  BY DEF RegFacts
<1>3. ASSUME NEW n \in DOMAIN reg_bar
      PROVE  n \in DOMAIN reg_bar' /\ reg_bar'[n] = reg_bar[n]
  <2>1. PICK q \in Session : pc[q] \in Registering /\ name[q] = n
    BY DEF RegFacts
  <2>2. q # s
    BY <2>1
  <2>3. pc'[q] \in Registering /\ name'[q] = n /\ lock'[q] = lock[q]
    BY <2>1, <2>2
  <2>4. reg_bar[n] = [session |-> q, locked |-> lock[q]]
    BY <2>1, Zenon DEF RegFacts
  <2>5. n \in DOMAIN reg_bar' /\ reg_bar'[n] = [session |-> q, locked |-> lock'[q]]
    BY <2>3, Zenon DEF RegFacts
  <2>. QED BY <2>3, <2>4, <2>5
<1>4. ASSUME NEW n \in DOMAIN reg_bar', n # name'[s]
      PROVE  n \in DOMAIN reg_bar
  <2>1. PICK q \in Session : pc'[q] \in Registering /\ name'[q] = n
    BY DEF RegFacts
  <2>2. q # s
    BY <1>4, <2>1
  <2>. QED BY <2>1, <2>2 DEF RegFacts
<1>5. DOMAIN reg_bar' = DOMAIN reg_bar \cup {name'[s]}
  BY <1>2, <1>3, <1>4
<1>6. reg_bar' = [n \in DOMAIN reg_bar' |-> reg_bar'[n]]
  BY DEF RegFacts
<1>. QED BY <1>1, <1>2, <1>3, <1>5, <1>6 DEF Registered!With

(* One that ceases to is not any longer.                                   *)
LEMMA RegistryLeft ==
  ASSUME RegFacts, RegFacts', NEW s \in Session,
         pc[s] \in Registering, pc'[s] \notin Registering,
         \A q \in Session \ {s} :
           /\ pc'[q] \in Registering <=> pc[q] \in Registering
           /\ pc[q] \in Registering =>
                name[q] # name[s] /\ name'[q] = name[q] /\ lock'[q] = lock[q]
  PROVE  /\ name[s] \in DOMAIN reg_bar
         /\ reg_bar' = Registered!Without(reg_bar, {name[s]})
<1>1. name[s] \in DOMAIN reg_bar
  BY DEF RegFacts
<1>2. ASSUME NEW n \in DOMAIN reg_bar, n # name[s]
      PROVE  n \in DOMAIN reg_bar' /\ reg_bar'[n] = reg_bar[n]
  <2>1. PICK q \in Session : pc[q] \in Registering /\ name[q] = n
    BY DEF RegFacts
  <2>2. q # s
    BY <1>2, <2>1
  <2>3. pc'[q] \in Registering /\ name'[q] = n /\ lock'[q] = lock[q]
    BY <2>1, <2>2
  <2>4. reg_bar[n] = [session |-> q, locked |-> lock[q]]
    BY <2>1, Zenon DEF RegFacts
  <2>5. n \in DOMAIN reg_bar' /\ reg_bar'[n] = [session |-> q, locked |-> lock'[q]]
    BY <2>3, Zenon DEF RegFacts
  <2>. QED BY <2>3, <2>4, <2>5
<1>3. ASSUME NEW n \in DOMAIN reg_bar'
      PROVE  n \in DOMAIN reg_bar /\ n # name[s]
  <2>1. PICK q \in Session : pc'[q] \in Registering /\ name'[q] = n
    BY DEF RegFacts
  <2>2. q # s
    BY <2>1
  <2>. QED BY <2>1, <2>2 DEF RegFacts
<1>4. DOMAIN reg_bar' = DOMAIN reg_bar \ {name[s]}
  BY <1>2, <1>3
<1>5. reg_bar' = [n \in DOMAIN reg_bar' |-> reg_bar'[n]]
  BY DEF RegFacts
<1>. QED BY <1>1, <1>2, <1>4, <1>5 DEF Registered!Without

(* The lock of one changes.                                                *)
LEMMA RegistryLocks ==
  ASSUME RegFacts, RegFacts', NEW s \in Session, NEW value,
         pc[s] \in Registering, lock'[s] = value,
         \A q \in Session :
           /\ pc'[q] \in Registering <=> pc[q] \in Registering
           /\ pc[q] \in Registering => name'[q] = name[q]
           /\ pc[q] \in Registering /\ q # s => name[q] # name[s] /\ lock'[q] = lock[q]
  PROVE  /\ name[s] \in DOMAIN reg_bar /\ reg_bar[name[s]].locked = lock[s]
         /\ reg_bar' = [reg_bar EXCEPT ![name[s]].locked = value]
         /\ reg_bar'[name[s]].locked = value
<1>1. /\ name[s] \in DOMAIN reg_bar
      /\ reg_bar[name[s]] = [session |-> s, locked |-> lock[s]]
      /\ reg_bar'[name[s]] = [session |-> s, locked |-> value]
  BY DEF RegFacts
<1>2. ASSUME NEW n \in DOMAIN reg_bar, n # name[s]
      PROVE  n \in DOMAIN reg_bar' /\ reg_bar'[n] = reg_bar[n]
  <2>1. PICK q \in Session : pc[q] \in Registering /\ name[q] = n
    BY DEF RegFacts
  <2>2. q # s
    BY <1>2, <2>1
  <2>3. pc'[q] \in Registering /\ name'[q] = n /\ lock'[q] = lock[q]
    BY <2>1, <2>2
  <2>4. reg_bar[n] = [session |-> q, locked |-> lock[q]]
    BY <2>1, Zenon DEF RegFacts
  <2>5. n \in DOMAIN reg_bar' /\ reg_bar'[n] = [session |-> q, locked |-> lock'[q]]
    BY <2>3, Zenon DEF RegFacts
  <2>. QED BY <2>3, <2>4, <2>5
<1>3. name[s] \in DOMAIN reg_bar'
  BY DEF RegFacts
<1>4. ASSUME NEW n \in DOMAIN reg_bar'
      PROVE  n \in DOMAIN reg_bar
  <2>1. PICK q \in Session : pc'[q] \in Registering /\ name'[q] = n
    BY DEF RegFacts
  <2>2. pc[q] \in Registering /\ name[q] = n
    BY <2>1
  <2>. QED BY <2>2, Zenon DEF RegFacts
<1>5. DOMAIN reg_bar' = DOMAIN reg_bar
  BY <1>2, <1>3, <1>4
<1>6. /\ reg_bar' = [n \in DOMAIN reg_bar' |-> reg_bar'[n]]
      /\ reg_bar = [n \in DOMAIN reg_bar |-> reg_bar[n]]
  BY DEF RegFacts
<1>7. [reg_bar[name[s]] EXCEPT !.locked = value] = [session |-> s, locked |-> value]
  BY <1>1
<1>8. reg_bar' = [reg_bar EXCEPT ![name[s]].locked = value]
  BY <1>1, <1>2, <1>5, <1>6, <1>7
<1>. QED BY <1>1, <1>8

-------------------------------------------------------------------------------
(* Every step is one of the registry, or none.                             *)

(* The variables of the registry.                                          *)
LEMMA RegistryVars ==
  UNCHANGED <<reg_bar, request, performed, answer_bar>> => UNCHANGED Registered!vars
BY DEF Registered!vars, reg_bar, answer_bar, told

(* What a client was told depends on its own variables.                    *)
LEMMA ToldSame ==
  ASSUME \A c \in Client : told(c)' = told(c)
  PROVE  answer_bar' = answer_bar
BY DEF answer_bar

(* What is left of the registry's actions when clients stand by.           *)
LEMMA DoesOpen ==
  ASSUME NEW s \in Session, \A n \in DOMAIN reg_bar : reg_bar[n].session # s,
         NEW n \in DOMAIN reg_bar' \cap Names, n \notin DOMAIN reg_bar, NEW value \in BOOLEAN,
         reg_bar' = Registered!With(reg_bar, n, [session |-> s, locked |-> value]),
         UNCHANGED <<request, performed, answer_bar>>
  PROVE  Registered!Next
<1>1. Registered!Open(s)
  BY DEF Registered!Open, reg_bar, answer_bar, told
<1>. QED BY <1>1 DEF Registered!Next

(* A session that leaves the registry is a step of it.                     *)
LEMMA DoesLeave ==
  ASSUME NEW n \in DOMAIN reg_bar, reg_bar' = Registered!Without(reg_bar, {n}),
         UNCHANGED <<request, performed, answer_bar>>
  PROVE  Registered!Next
<1>1. Registered!Leave(n)
  BY DEF Registered!Leave, reg_bar, answer_bar, told
<1>. QED BY <1>1 DEF Registered!Next, reg_bar

(* A user who switches a session's lock is a step of it.                   *)
LEMMA DoesSwitch ==
  ASSUME NEW n \in DOMAIN reg_bar, reg_bar' = [reg_bar EXCEPT ![n].locked = ~@],
         UNCHANGED <<request, performed, answer_bar>>
  PROVE  Registered!Next
<1>1. Registered!Switch(n)
  BY DEF Registered!Switch, reg_bar, answer_bar, told
<1>. QED BY <1>1 DEF Registered!Next, reg_bar

(* A step of a session, other than an answer.                              *)
LEMMA SessionImplements ==
  ASSUME RInv, RInv', NEW s \in Session,
         \/ Run(s) \/ Starting(s) \/ Switch(s) \/ Leave(s)
         \/ Unlink(s) \/ (pc[s] = "closed" /\ Close(s)) \/ Kill(s)
  PROVE  Registered!Next \/ UNCHANGED Registered!vars
<1>1. RegFacts /\ RegFacts' /\ Undisturbed
  BY RegistryIs, RegistryWillBe DEF RInv
<1>2. /\ pc \in [Session \cup Client -> Stages \cup Steps]
      /\ name \in [Session -> Seq(NameChars)] /\ lock \in [Session -> BOOLEAN]
      /\ lock' \in [Session -> BOOLEAN]
  BY DEF RInv, IInv, Shape, TypeOK
<1>3. \A q \in Session \ {s} : pc'[q] = pc[q] /\ name'[q] = name[q] /\ lock'[q] = lock[q]
  BY <1>2 DEF Run, Starting, Attempt, Probe, RemoveStale, Bind, Listen, Chmod, Switch, Leave, Unlink, Kill,
     Close, Go, sessionvars
<1>4. UNCHANGED <<request, performed, answer, reply>>
  BY DEF Run, Starting, Attempt, Probe, RemoveStale, Bind, Listen, Chmod, Switch, Leave, Unlink, Kill,
     Close, given, fixed, clientvars, history
<1>5. answer_bar' = answer_bar
  <2>1. \A c \in Client : told(c)' = told(c)
    BY <1>4 DEF told, Listing
  <2>. QED BY <2>1, ToldSame
<1>6. \A q \in Session \ {s} :
        pc[s] \in Bound /\ pc[q] \in Registering => name[q] # name[s]
  BY <1>1, OneOwner DEF Registering, Bound
<1>7. CASE Switch(s)
  <2>1. /\ pc[s] \in Registering /\ lock'[s] = ~lock[s]
        /\ pc' = pc /\ name' = name
    BY <1>2, <1>7 DEF Switch, Registering, sessionvars
  <2>2. pc[s] \in Bound
    BY <2>1 DEF Registering, Bound
  <2>3. /\ name[s] \in DOMAIN reg_bar /\ reg_bar[name[s]].locked = lock[s]
        /\ reg_bar' = [reg_bar EXCEPT ![name[s]].locked = ~lock[s]]
    BY <1>1, <1>3, <1>6, <2>1, <2>2, RegistryLocks
  <2>4. reg_bar' = [reg_bar EXCEPT ![name[s]].locked = ~@]
    BY <2>3, Zenon
  <2>. QED BY <1>4, <1>5, <2>3, <2>4, DoesSwitch
<1>8. CASE Listen(s)
  <2>1. pc[s] = "bound" /\ pc'[s] = "chmod" /\ name' = name
    BY <1>2, <1>8 DEF Listen, Go, sessionvars
  <2>2. pc[s] \in Bound /\ pc[s] \in Named /\ pc[s] \notin Registering /\ pc'[s] \in Registering
    BY <2>1 DEF Bound, Named, Registering
  <2>3. name'[s] \in Names
    BY <2>1, <2>2 DEF RInv, Origins
  <2>4. /\ \A n \in DOMAIN reg_bar : reg_bar[n].session # s
        /\ name'[s] \in DOMAIN reg_bar' /\ name'[s] \notin DOMAIN reg_bar
        /\ reg_bar' = Registered!With(reg_bar, name'[s], [session |-> s, locked |-> lock'[s]])
    BY <1>1, <1>3, <1>6, <2>1, <2>2, RegistryOpens
  <2>5. lock'[s] \in BOOLEAN
    BY <1>2
  <2>. QED BY <1>4, <1>5, <2>3, <2>4, <2>5, DoesOpen
<1>9. CASE pc[s] \in Registering /\ pc'[s] \notin Registering
  <2>1. pc[s] \in Bound
    BY <1>9 DEF Registering, Bound
  <2>2. /\ name[s] \in DOMAIN reg_bar
        /\ reg_bar' = Registered!Without(reg_bar, {name[s]})
    BY <1>1, <1>3, <1>6, <1>9, <2>1, RegistryLeft
  <2>. QED BY <1>4, <1>5, <2>2, DoesLeave
<1>10. CASE /\ pc'[s] \in Registering <=> pc[s] \in Registering
            /\ pc[s] \in Registering => name'[s] = name[s] /\ lock'[s] = lock[s]
  <2>1. reg_bar' = reg_bar
    BY <1>1, <1>3, <1>10, RegistryStays
  <2>. QED BY <1>4, <1>5, <2>1, RegistryVars
<1>11. \/ Switch(s) \/ Listen(s)
       \/ pc[s] \in Registering /\ pc'[s] \notin Registering
       \/ /\ pc'[s] \in Registering <=> pc[s] \in Registering
          /\ pc[s] \in Registering => name'[s] = name[s] /\ lock'[s] = lock[s]
  BY <1>2 DEF Run, Starting, Attempt, Probe, RemoveStale, Bind, Chmod, Leave, Unlink, Kill, Close, Go,
     sessionvars, Registering
<1>. QED BY <1>7, <1>8, <1>9, <1>10, <1>11

(* A request that a session carries out, or a connection that it drops.    *)
LEMMA ServeImplements ==
  ASSUME RInv, RInv', NEW s \in Session, serve_one(s)
  PROVE  Registered!Next \/ UNCHANGED Registered!vars
<1>1. IInv /\ Told /\ Pending /\ Undisturbed /\ RegFacts /\ RegFacts'
  BY RegistryIs, RegistryWillBe DEF RInv
<1>2. /\ lock \in [Session -> BOOLEAN] /\ reply \in [Client -> {"", "locked", "unlocked"}]
  BY DEF RInv, IInv, Shape, TypeOK
<1>3. UNCHANGED <<pc, name, conn, request, answer>> /\ pc[s] = "up"
  BY DEF serve_one, given, fixed, sessionvars
<1>4. pc[s] \in Registering /\ pc[s] \in Bound
  BY <1>3 DEF Registering, Bound
<1>5. \A q \in Session : pc[q] \in Registering /\ q # s => name[q] # name[s]
  BY <1>1, <1>4, OneOwner DEF Registering, Bound
<1>6. Head(backlog[s]) = backlog[s][1]
  BY <1>1, TailFacts
<1>7. \A d \in Client : Listing(d)' = Listing(d)
  BY <1>3 DEF Listing
<1>8. ASSUME UNCHANGED <<lock, performed>>, \A d \in Client : ~Listing(d) => reply'[d] = reply[d]
      PROVE  UNCHANGED Registered!vars
  <2>1. \A d \in Client : told(d)' = told(d)
    BY <1>3, <1>7, <1>8 DEF told
  <2>2. reg_bar' = reg_bar
    BY <1>1, <1>3, <1>8, RegistryStays
  <2>. QED BY <1>3, <1>8, <2>1, <2>2, ToldSame, RegistryVars
<1>9. CASE ~Asks(s)
  <2>1. UNCHANGED <<lock, reply, performed>>
    BY <1>6, <1>9 DEF serve_one, Asks
  <2>. QED BY <1>8, <2>1
<1>10. CASE Asks(s)
  <2>1. PICK c \in Client :
           /\ backlog[s][1].from = c /\ backlog[s][1].line = line_of(c)
           /\ conn[c] = s => pc[c] = "waiting"
           /\ ~Listing(c) =>
                /\ c \notin performed /\ reply[c] = "" /\ answer[c] \in {"", "error"}
                /\ answer[c] = "" => conn[c] = s
                /\ name[s] = request[c].name
                /\ pc[c] \in {"waiting", "done"}
           /\ \A i \in 2..Len(backlog[s]) : backlog[s][i].from # c
    BY <1>1, <1>10, ServedFacts
  <2>2. /\ lock' = [lock EXCEPT ![s] = LockAfter(line_of(c), lock[s])]
        /\ reply' = [reply EXCEPT ![c] =
                       IF conn[c] = s THEN answer_after(lock[s], line_of(c)) ELSE reply[c]]
        /\ performed' = IF Listing(c) THEN performed ELSE performed \cup {c}
    BY <1>6, <1>10, <2>1 DEF serve_one, Asks
  <2>. DEFINE value == LockAfter(line_of(c), lock[s])
  <2>3. /\ lock'[s] = value
        /\ \A q \in Session \ {s} : lock'[q] = lock[q]
        /\ \A d \in Client \ {c} : reply'[d] = reply[d]
        /\ reply'[c] = IF conn[c] = s THEN state_line(value) ELSE reply[c]
    BY <1>2, <2>2 DEF answer_after
  <2>4. CASE Listing(c)
    <3>1. value = lock[s]
      BY <2>4 DEF line_of, LockAfter
    <3>2. lock' = lock
      BY <1>2, <2>2, <3>1
    <3>3. performed' = performed
      BY <2>2, <2>4
    <3>. QED BY <1>8, <2>3, <2>4, <3>2, <3>3
  <2>5. CASE ~Listing(c)
    <3>. HIDE DEF value
    <3>1. /\ name[s] \in DOMAIN reg_bar /\ reg_bar[name[s]].locked = lock[s]
          /\ reg_bar' = [reg_bar EXCEPT ![name[s]].locked = value]
          /\ reg_bar'[name[s]].locked = value
      BY <1>1, <1>3, <1>4, <1>5, <2>3, RegistryLocks
    <3>2. /\ request[c].name \in DOMAIN reg_bar /\ c \notin performed
          /\ request[c].line # "ls" /\ performed' = performed \cup {c}
      BY <2>1, <2>2, <2>5, <3>1 DEF Listing
    <3>3. reg_bar' = [reg_bar EXCEPT ![request[c].name].locked =
                        CASE request[c].line = "lock" -> TRUE
                          [] request[c].line = "unlock" -> FALSE
                          [] OTHER -> @]
      <4>1. value = CASE request[c].line = "lock" -> TRUE
                      [] request[c].line = "unlock" -> FALSE
                      [] OTHER -> reg_bar[request[c].name].locked
        BY <2>1, <2>5, <3>1 DEF value, LockAfter, line_of
      <4>2. name[s] = request[c].name
        BY <2>1, <2>5
      <4>. QED BY <3>1, <4>1, <4>2, Zenon
    <3>4. /\ told(c) = answer[c] /\ answer[c] \in {"", "error"}
          /\ told(c)' = IF answer[c] = "" THEN state_line(value) ELSE answer[c]
          /\ \A d \in Client \ {c} : told(d)' = told(d)
      BY <1>3, <1>7, <2>1, <2>3, <2>5 DEF told
    <3>5. answer_bar[c] \in {"", "error"}
      BY <3>4 DEF answer_bar
    <3>6. answer_bar' = [answer_bar EXCEPT ![c] =
              IF @ = "" THEN Registered!State(reg_bar'[request[c].name].locked) ELSE @]
      <4>1. Registered!State(reg_bar'[request[c].name].locked) = state_line(value)
        BY <2>1, <2>5, <3>1 DEF Registered!State, state_line
      <4>2. answer_bar[c] = answer[c]
        BY <3>4 DEF answer_bar
      <4>3. answer_bar' = [answer_bar EXCEPT ![c] =
               IF answer_bar[c] = "" THEN state_line(value) ELSE answer_bar[c]]
        BY <3>4, <4>2 DEF answer_bar
      <4>. QED BY <4>1, <4>3, Zenon
    <3>7. Registered!Perform(c)
      BY <1>3, <3>2, <3>3, <3>5, <3>6 DEF Registered!Perform, reg_bar, answer_bar, told
    <3>. QED BY <3>7 DEF Registered!Next
  <2>. QED BY <2>4, <2>5
<1>. QED BY <1>9, <1>10

(* A step of a client tells it something new, or not.                      *)
LEMMA AskingImplements ==
  ASSUME RInv, RInv', NEW c \in Client, Asking(c)
  PROVE  Registered!Next \/ UNCHANGED Registered!vars
<1>1. IInv /\ Told /\ RegFacts /\ RegFacts'
  BY RegistryIs, RegistryWillBe DEF RInv
<1>2. /\ pc \in [Session \cup Client -> Stages \cup Steps]
      /\ reply \in [Client -> {"", "locked", "unlocked"}]
      /\ answer \in [Client -> {"", "locked", "unlocked", "no session", "error"}]
  BY DEF RInv, IInv, Shape, TypeOK
<1>3. UNCHANGED <<lock, name, request, performed>>
  BY DEF Asking, Connect, WriteLine, ReadLine, ReadDir, NextName, Purge, sessionvars, given, fixed, history
<1>4. \A s \in Session : pc'[s] = pc[s]
  <2>1. \E where : pc' = [pc EXCEPT ![c] = where]
    BY DEF Asking, Connect, NoSession, WriteLine, Io, ReadLine, Answered, ReadDir, NextName, Purge, Go
  <2>. QED BY <1>2, <2>1, ProcessFacts
<1>5. reg_bar' = reg_bar
  BY <1>1, <1>3, <1>4, RegistryStays
<1>6. /\ reply' = reply \/ reply' = [reply EXCEPT ![c] = ""]
      /\ answer' = answer \/ \E what : answer' = [answer EXCEPT ![c] = what]
  BY DEF Asking, Connect, NoSession, WriteLine, Io, ReadLine, Answered, ReadDir, NextName, Purge, clientvars
<1>7. \A d \in Client \ {c} : reply'[d] = reply[d] /\ answer'[d] = answer[d]
  BY <1>2, <1>6
<1>8. \A d \in Client \ {c} : told(d)' = told(d)
  BY <1>3, <1>7 DEF told, Listing
<1>9. CASE told(c)' = told(c)
  <2>1. answer_bar' = answer_bar
    BY <1>8, <1>9, ToldSame
  <2>. QED BY <1>3, <1>5, <2>1, RegistryVars
<1>10. CASE told(c) = "" /\ told(c)' = "error"
  <2>1. answer_bar[c] = "" /\ answer_bar' = [answer_bar EXCEPT ![c] = "error"]
    BY <1>8, <1>10 DEF answer_bar
  <2>2. Registered!GiveUp(c)
    BY <1>3, <1>5, <2>1 DEF Registered!GiveUp, reg_bar, answer_bar, told
  <2>. QED BY <2>2 DEF Registered!Next
<1>11. CASE /\ told(c) = "" /\ told(c)' = "no session"
            /\ c \notin performed /\ request[c].name \notin DOMAIN reg_bar
  <2>1. answer_bar[c] = "" /\ answer_bar' = [answer_bar EXCEPT ![c] = "no session"]
    BY <1>8, <1>11 DEF answer_bar
  <2>2. Registered!Refuse(c)
    BY <1>3, <1>5, <1>11, <2>1 DEF Registered!Refuse, reg_bar, answer_bar, told
  <2>. QED BY <2>2 DEF Registered!Next
<1>12. CASE answer'[c] = answer[c] /\ (Listing(c) \/ reply'[c] = reply[c])
  <2>1. told(c)' = told(c)
    BY <1>3, <1>12 DEF told, Listing
  <2>. QED BY <1>9, <2>1
<1>13. CASE ~Listing(c) /\ (Io(c) \/ Answered(c)) /\ pc[c] \in {"connected", "waiting"}
            /\ (Io(c) => reply[c] = "") /\ (Answered(c) => reply[c] # "")
  <2>1. answer[c] = ""
    BY <1>1, <1>13 DEF Told
  <2>2. answer'[c] = IF reply[c] = "" THEN "error" ELSE reply[c]
    BY <1>2, <1>13 DEF Io, Answered
  <2>3. ~Listing(c)'
    BY <1>2, <1>3, <1>13, <2>2 DEF Listing
  <2>4. told(c) = reply[c] /\ told(c)' = answer'[c]
    BY <1>2, <1>13, <2>1, <2>2, <2>3 DEF told
  <2>. QED BY <1>9, <1>10, <2>2, <2>4
<1>14. CASE Connect(c)
  <2>1. CASE answer' = answer /\ reply' = reply
    BY <1>12, <2>1
  <2>2. CASE answer' # answer
    <3>1. /\ ~(valid_name(target[c]) /\ Live(target[c]))
          /\ ~Listing(c) /\ answer' = [answer EXCEPT ![c] = "no session"]
          /\ pc[c] = "ask"
      BY <1>14, <2>2 DEF Connect, NoSession
    <3>2. target[c] = request[c].name
      BY <1>1, <3>1 DEF IInv, Lists
    <3>3. answer[c] = "" /\ c \notin performed
      BY <1>1, <3>1 DEF Told
    <3>4. reply[c] = ""
      BY <1>1, <3>1, <3>3 DEF Told
    <3>5. told(c) = "" /\ told(c)' = "no session"
      BY <1>2, <3>1, <3>3, <3>4 DEF told, Listing
    <3>6. request[c].name \notin DOMAIN reg_bar
      <4>1. ASSUME request[c].name \in DOMAIN reg_bar
            PROVE  FALSE
        <5>1. PICK s \in Session : pc[s] \in Registering /\ name[s] = request[c].name
          BY <1>1, <4>1 DEF RegFacts
        <5>2. valid_name(request[c].name)
          BY <1>1, <5>1 DEF RegFacts
        <5>3. Live(request[c].name)
          BY <4>1 DEF reg_bar
        <5>. QED BY <3>1, <3>2, <5>2, <5>3
      <4>. QED BY <4>1
    <3>. QED BY <1>11, <3>3, <3>5, <3>6
  <2>3. reply' = reply
    BY <1>14 DEF Connect
  <2>. QED BY <2>1, <2>2, <2>3
<1>15. CASE WriteLine(c)
  <2>1. CASE UNCHANGED <<reply, answer>>
    BY <1>12, <2>1
  <2>2. CASE Io(c)
    <3>1. pc[c] = "connected" /\ reply[c] = ""
      BY <1>1, <1>2, <1>15 DEF WriteLine, IInv, TypeOK
    <3>2. ~Answered(c) \/ Listing(c)
      BY <1>2, <2>2, <3>1 DEF Io, Answered
    <3>3. Listing(c) => answer'[c] = answer[c]
      BY <2>2 DEF Io
    <3>. QED BY <1>12, <1>13, <2>2, <3>1, <3>2, <3>3
  <2>. QED BY <1>15, <2>1, <2>2 DEF WriteLine
<1>16. CASE ReadLine(c)
  <2>1. pc[c] = "waiting" /\ (IF reply[c] # "" THEN Answered(c) ELSE Io(c))
    BY <1>16 DEF ReadLine
  <2>2. Listing(c) => answer'[c] = answer[c]
    BY <2>1 DEF Io, Answered
  <2>3. ~Listing(c) => (Io(c) => reply[c] = "") /\ (Answered(c) => reply[c] # "")
    BY <1>2, <2>1 DEF Io, Answered
  <2>. QED BY <1>12, <1>13, <2>1, <2>2, <2>3
<1>17. CASE ReadDir(c) \/ NextName(c) \/ Purge(c)
  <2>1. UNCHANGED <<reply, answer>>
    BY <1>17 DEF ReadDir, NextName, Purge, clientvars
  <2>. QED BY <1>12, <2>1
<1>. QED BY <1>14, <1>15, <1>16, <1>17 DEF Asking

(* Every step is a step of the registry, or none.                          *)
LEMMA NextImplementsRegistry ==
  RInv /\ RInv' /\ [Next]_vars => [Registered!Next]_(Registered!vars)
<1>. SUFFICES ASSUME RInv, RInv', [Next]_vars
              PROVE  Registered!Next \/ UNCHANGED Registered!vars
  OBVIOUS
<1>1. CASE UNCHANGED vars
  <2>1. UNCHANGED <<file, listening, lock, request, performed, answer, reply>>
    BY <1>1 DEF vars, socketvars, given, fixed, clientvars, history
  <2>. QED BY <2>1 DEF Registered!vars, Live, Listing
<1>2. CASE Next
  BY <1>2, SessionImplements, ServeImplements, AskingImplements DEF Next
<1>. QED BY <1>1, <1>2

(* The start is the registry's.                                            *)
LEMMA InitImplementsRegistry == Init => Registered!Init
<1>. SUFFICES ASSUME Init PROVE Registered!Init
  OBVIOUS
<1>1. RegFacts
  BY InitIInv, InitUndisturbed, RegistryIs
<1>2. \A s \in Session : pc[s] \notin Registering
  BY ProcessFacts DEF Init, Registering
<1>3. DOMAIN reg_bar = {} /\ reg_bar = [n \in DOMAIN reg_bar |-> reg_bar[n]]
  BY <1>1, <1>2 DEF RegFacts
<1>4. reg_bar = << >>
  BY <1>3
<1>5. request \in [Client -> [name : Names, line : {"lock", "unlock", "status", "ls"}]]
  <2>1. \A r \in Requests :
          /\ r = [name |-> r.name, line |-> r.line] /\ r.name \in Names
          /\ r.line \in {"lock", "unlock", "status", "ls"}
    <3>1. {r.name : r \in Requests} \subseteq Names
      BY DEF Names
    <3>2. Requests \subseteq [name : Seq(STRING), line : {"lock", "unlock", "status", "ls"}]
      BY SessionsAssumption
    <3>. QED BY <3>1, <3>2
  <2>2. Requests \subseteq [name : Names, line : {"lock", "unlock", "status", "ls"}]
    BY <2>1
  <2>3. request \in [Client -> Requests]
    BY DEF Init
  <2>. QED BY <2>2, <2>3
<1>6. performed = {}
  BY DEF Init
<1>7. answer_bar = [c \in Client |-> ""]
  <2>1. \A c \in Client : answer[c] = "" /\ reply[c] = ""
    BY DEF Init
  <2>2. \A c \in Client : told(c) = ""
    BY <2>1 DEF told
  <2>. QED BY <2>2 DEF answer_bar
<1>. QED BY <1>4, <1>5, <1>6, <1>7 DEF Registered!Init, reg_bar, answer_bar, told

(* The sockets implement the registry of sessions, while processes do not  *)
(* overlap: whatever is killed or timed out, a live session has a name     *)
(* that no other has, a request is carried out by the session of that      *)
(* name, once at most, its answer is the lock that it left, and "no        *)
(* session" is said only when there is none (control.rs:157-298,           *)
(* main.rs:86-111).                                                        *)
THEOREM SessionsImplementRegistry ==
  ASSUME ~Overlaps
  PROVE  Spec => ImplementsRegistry
<1>1. RInv /\ [Next]_vars => RInv'
  BY NextRInv
<1>. QED
  BY <1>1, InitRInv, InitImplementsRegistry, NextImplementsRegistry, PTL
  DEF Spec, ImplementsRegistry, Registered!Spec
===============================================================================
