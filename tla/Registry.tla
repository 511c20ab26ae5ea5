-------------------------------- MODULE Registry --------------------------------
(***************************************************************************)
(* What keylock promises of its sessions to `keylock on`, `off` and        *)
(* `status`, without sockets, files or timeouts: a live session has a name *)
(* that no other live session has; a request is carried out by the session *)
(* of that name, once at most, and the answer is the lock that it left;    *)
(* "no session" is said only when no live session has the name.            *)
(***************************************************************************)
EXTENDS Integers

CONSTANTS
  Session, Client,
  Name         \* the names that sessions can have, and what ls asks for

VARIABLES
  reg,         \* the live sessions: from names to a session and its lock
  request,     \* what each client asks: a name and a request
  performed,   \* the clients whose request was carried out
  answer       \* what each client was told, "" for nothing yet

vars == <<reg, request, performed, answer>>

State(locked) == IF locked THEN "locked" ELSE "unlocked"

Init ==
  /\ reg = << >>
  /\ request \in [Client -> [name : Name, line : {"lock", "unlock", "status", "ls"}]]
  /\ performed = {}
  /\ answer = [c \in Client |-> ""]

Without(f, names) == [n \in DOMAIN f \ names |-> f[n]]

With(f, n, entry) == [m \in DOMAIN f \cup {n} |-> IF m = n THEN entry ELSE f[m]]

Open(s) ==
  /\ \A n \in DOMAIN reg : reg[n].session # s
  /\ \E n \in DOMAIN reg' \cap Name, locked \in BOOLEAN :
       /\ n \notin DOMAIN reg
       /\ reg' = With(reg, n, [session |-> s, locked |-> locked])
  /\ UNCHANGED <<request, performed, answer>>

Leave(n) ==
  /\ reg' = Without(reg, {n})
  /\ UNCHANGED <<request, performed, answer>>

(* Its user types Ctrl+] L or the phrase.                                  *)
Switch(n) ==
  /\ reg' = [reg EXCEPT ![n].locked = ~@]
  /\ UNCHANGED <<request, performed, answer>>

(* A client that has given up is told nothing more, but its request may    *)
(* still be carried out.                                                   *)
Perform(c) ==
  LET n == request[c].name IN
  /\ n \in DOMAIN reg
  /\ request[c].line # "ls"
  /\ c \notin performed
  /\ answer[c] \in {"", "error"}
  /\ performed' = performed \cup {c}
  /\ reg' = [reg EXCEPT ![n].locked =
                CASE request[c].line = "lock" -> TRUE
                  [] request[c].line = "unlock" -> FALSE
                  [] OTHER -> @]
  /\ answer' = [answer EXCEPT ![c] = IF @ = "" THEN State(reg'[n].locked) ELSE @]
  /\ UNCHANGED request

Refuse(c) ==
  /\ answer[c] = ""
  /\ request[c].name \notin DOMAIN reg
  /\ c \notin performed
  /\ answer' = [answer EXCEPT ![c] = "no session"]
  /\ UNCHANGED <<reg, request, performed>>

GiveUp(c) ==
  /\ answer[c] = ""
  /\ answer' = [answer EXCEPT ![c] = "error"]
  /\ UNCHANGED <<reg, request, performed>>

Next ==
  \/ \E s \in Session : Open(s)
  \/ \E n \in DOMAIN reg : Leave(n) \/ Switch(n)
  \/ \E c \in Client : Perform(c) \/ Refuse(c) \/ GiveUp(c)

Spec == Init /\ [][Next]_vars
===============================================================================
