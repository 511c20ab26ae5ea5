------------------------------- MODULE InputLock -------------------------------
(***************************************************************************)
(* What keylock promises of a keyboard lock, without escape sequences,     *)
(* phrases or pastes: while the lock is off every byte typed is handed     *)
(* over, in order and once, possibly a little later; the lock takes no     *)
(* byte except the lock key, and while it is on nothing is handed over.    *)
(***************************************************************************)
EXTENDS Integers, Sequences

CONSTANTS
  Byte,      \* the bytes of the keyboard
  LockKey,   \* byte strings of the first half of the lock key, Ctrl+]
  LockFinish \* byte strings of its second half, L

VARIABLES
  locked,    \* the lock
  held,      \* bytes typed and not handed over yet
  forward    \* bytes handed over by the call in progress or the last one

vars == <<locked, held, forward>>

Init ==
  /\ locked \in BOOLEAN
  /\ held = <<>>
  /\ forward = <<>>

(* One more byte may have to wait for those after it.                      *)
Hold(h, f) ==
  /\ held' = h
  /\ forward' = f
  /\ UNCHANGED locked

HandOver(h, f) ==
  /\ held' = <<>>
  /\ forward' = f \o h
  /\ UNCHANGED locked

(* A doubled Ctrl+] is how the user sends one.                             *)
HandOverOne(h, f) ==
  \E p \in LockKey :
    /\ \E q \in LockKey : h = p \o q
    /\ held' = <<>>
    /\ forward' = f \o p
    /\ UNCHANGED locked

Lock(h, f) ==
  /\ \E p \in LockKey, q \in LockFinish : h = p \o q
  /\ locked' = TRUE
  /\ held' = <<>>
  /\ forward' = f

Decide(h, f) == Hold(h, f) \/ HandOver(h, f) \/ HandOverOne(h, f) \/ Lock(h, f)

(* A call begins with nothing handed over.                                 *)
Begin == forward' = <<>> /\ UNCHANGED <<locked, held>>

Type(b) ==
  \/ ~locked /\ Decide(Append(held, b), forward)
  \/ locked /\ locked' \in BOOLEAN /\ UNCHANGED <<held, forward>>

(* Bytes are not held for ever: what was held is decided without more.     *)
Timeout ==
  \/ ~locked /\ Decide(held, <<>>)
  \/ locked /\ forward' = <<>> /\ UNCHANGED <<locked, held>>

(* The lock switched from outside.  What was held is lost, not leaked.     *)
Switch ==
  /\ locked' = ~locked
  /\ held' = <<>>
  /\ forward' = <<>>

Next == Begin \/ (\E b \in Byte : Type(b)) \/ Timeout \/ Switch

Spec == Init /\ [][Next]_vars
===============================================================================
