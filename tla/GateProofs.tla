------------------------------ MODULE GateProofs ------------------------------
(***************************************************************************)
(* Theorems about Gate for every alphabet, phrase, read size and limit.    *)
(***************************************************************************)
EXTENDS Gate, SequenceTheorems, TLAPS

Output == [forward : Seq(Byte), events : Seq(Event)]

(* The constants, as the proofs use them.                                  *)
LEMMA ConstantFacts ==
  /\ ESC \in Byte /\ ESC \notin Printable
  /\ Hotkey \in BOOLEAN
  /\ Phrase \in Seq(Printable)
  /\ MAX_SEQUENCE \in Nat /\ MAX_SEQUENCE >= 4
  /\ READ_SIZE \in Nat \ {0}
BY GateAssumption

-------------------------------------------------------------------------------
(* An Output stays one when bytes are forwarded or an event is added.      *)
LEMMA OutputType ==
  ASSUME NEW o \in Output
  PROVE  /\ NoOutput \in Output
         /\ \A bytes \in Seq(Byte) :
              /\ Forward(o, bytes) \in Output
              /\ Forward(o, bytes).forward = o.forward \o bytes
              /\ Forward(o, bytes).events = o.events
         /\ \A event \in Event :
              /\ Report(o, event) \in Output
              /\ Report(o, event).forward = o.forward
              /\ Report(o, event).events = Append(o.events, event)
<1>1. NoOutput \in Output
  BY EmptySeq DEF NoOutput, Output
<1>2. ASSUME NEW bytes \in Seq(Byte)
      PROVE  /\ Forward(o, bytes) \in Output
             /\ Forward(o, bytes).forward = o.forward \o bytes
             /\ Forward(o, bytes).events = o.events
  <2>1. o.forward \o bytes \in Seq(Byte)
    BY ConcatProperties DEF Output
  <2>. QED BY <2>1 DEF Forward, Output
<1>3. ASSUME NEW event \in Event
      PROVE  /\ Report(o, event) \in Output
             /\ Report(o, event).forward = o.forward
             /\ Report(o, event).events = Append(o.events, event)
  <2>1. Append(o.events, event) \in Seq(Event)
    BY AppendProperties DEF Output
  <2>. QED BY <2>1 DEF Report, Output
<1>. QED BY <1>1, <1>2, <1>3

(* Dropping keeps the output's type and what is forwarded.                 *)
LEMMA DroppedType ==
  ASSUME NEW o \in Output, NEW token
  PROVE  Dropped(token, o) \in Output /\ Dropped(token, o).forward = o.forward
<1>1. "DroppedInput" \in Event
  BY DEF Event
<1>. QED BY <1>1, OutputType DEF Dropped

(* One more key: the window keeps its type and never outgrows the phrase.  *)
LEMMA RememberType ==
  ASSUME TypeOK, NEW byte \in Printable, Phrase # <<>>,
         Len(typed) <= Len(Phrase)
  PROVE  /\ Remember(byte) \in Seq(Printable)
         /\ Len(Remember(byte)) <= Len(Phrase)
         /\ Remember(byte) # <<>>
<1>. DEFINE kept == IF Len(typed) = Len(Phrase) THEN Tail(typed) ELSE typed
<1>1. /\ typed \in Seq(Printable) /\ Len(typed) \in Nat
      /\ Len(Phrase) \in Nat \ {0}
  BY ConstantFacts, EmptySeq, LenProperties DEF TypeOK
<1>2. kept \in Seq(Printable) /\ Len(kept) < Len(Phrase)
  BY <1>1, EmptySeq, HeadTailProperties
<1>3. Remember(byte) = Append(kept, byte)
  BY DEF Remember
<1>. HIDE DEF kept
<1>. QED BY <1>1, <1>2, <1>3, AppendProperties, LenProperties

-------------------------------------------------------------------------------
(* The inductive invariant: what Gate's other invariants say, and that the *)
(* window is within the phrase even before its first key.                  *)
IInv ==
  /\ TypeOK
  /\ PartialIncomplete
  /\ PrefixOnlyUnlocked
  /\ TypedOnlyLocked

(* What one token may do to the state.                                     *)
LEMMA HandleKeeps ==
  ASSUME IInv, NEW token \in Seq(Byte), token # <<>>, NEW o \in Output,
         handle(token, o)
  PROVE  /\ locked' \in BOOLEAN
         /\ prefix' \in Seq(Byte)
         /\ typed' \in Seq(Printable)
         /\ in_paste' \in BOOLEAN
         /\ out' \in Output
         /\ PrefixOnlyUnlocked'
         /\ TypedOnlyLocked'
<1>. USE DEF IInv, TypeOK
<1>1. in_paste' \in BOOLEAN
  BY DEF handle
<1>2. "Lock" \in Event /\ "Unlock" \in Event
  BY DEF Event
<1>3. CASE locked /\ handle_locked(token, o)
  <2>1. Dropped(token, o) \in Output
    BY DroppedType
  <2>2. Report(Dropped(token, o), "Unlock") \in Output
    BY <1>2, <2>1, OutputType
  <2>3. prefix = <<>> /\ prefix' = <<>>
    BY <1>3 DEF handle_locked, PrefixOnlyUnlocked
  <2>4. IsPhraseKey(token) => token[1] \in Printable
    BY DEF IsPhraseKey
  <2>5. Phrase # <<>> => Len(typed) <= Len(Phrase)
    BY ConstantFacts, EmptySeq, LenProperties DEF TypedOnlyLocked
  <2>6. <<>> \in Seq(Printable)
    BY EmptySeq
  <2>7. typed' \in Seq(Printable) /\ TypedOnlyLocked'
    BY <1>3, <2>4, <2>5, <2>6, RememberType DEF handle_locked, TypedOnlyLocked
  <2>8. locked' \in BOOLEAN /\ out' \in Output
    BY <1>3, <2>1, <2>2 DEF handle_locked
  <2>. QED BY <1>1, <2>3, <2>7, <2>8 DEF PrefixOnlyUnlocked
<1>4. CASE ~locked /\ handle_unlocked(token, o)
  <2>1. typed = <<>> /\ typed' = <<>>
    BY <1>4 DEF handle_unlocked, TypedOnlyLocked
  <2>2. /\ prefix' \in {<<>>, prefix, token}
        /\ prefix' # <<>> => ~locked' /\ Hotkey /\ IsCtrlBracket(prefix')
    BY <1>4 DEF handle_unlocked, PrefixOnlyUnlocked
  <2>3. prefix \o token \in Seq(Byte)
    BY ConcatProperties
  <2>4. locked' \in BOOLEAN /\ out' \in Output
    BY <1>2, <1>4, <2>3, OutputType DEF handle_unlocked
  <2>5. <<>> \in Seq(Byte) /\ <<>> \in Seq(Printable)
    BY EmptySeq
  <2>. QED BY <1>1, <2>1, <2>2, <2>4, <2>5 DEF PrefixOnlyUnlocked, TypedOnlyLocked
<1>. QED BY <1>3, <1>4 DEF handle

(* The start has the invariant.                                            *)
LEMMA InitIInv == Init => IInv
<1>. SUFFICES ASSUME Init PROVE IInv
  OBVIOUS
<1>1. <<>> \in Seq(Byte) /\ <<>> \in Seq(Printable) /\ <<>> \in Seq(Event)
  BY EmptySeq
<1>2. out \in [forward : Seq(Byte), events : Seq(Event)]
  BY <1>1 DEF Init, NoOutput
<1>3. unread \in 0..READ_SIZE
  BY ConstantFacts DEF Init
<1>4. TypeOK
  BY <1>1, <1>2, <1>3 DEF Init, TypeOK
<1>5. PartialIncomplete /\ PrefixOnlyUnlocked /\ TypedOnlyLocked
  BY DEF Init, PartialIncomplete, PrefixOnlyUnlocked, TypedOnlyLocked
<1>. QED BY <1>4, <1>5 DEF IInv

(* A byte that does not complete the sequence leaves it incomplete.        *)
LEMMA PartialGrows ==
  ASSUME TypeOK, PartialIncomplete, NEW byte \in Byte,
         partial # <<>>, ~sequence_complete(Append(partial, byte)),
         partial' = Append(partial, byte)
  PROVE  PartialIncomplete'
<1>. DEFINE seq == Append(partial, byte)
<1>1. partial \in Seq(Byte) /\ Len(partial) \in Nat \ {0}
  BY EmptySeq DEF TypeOK
<1>2. /\ seq \in Seq(Byte) /\ Len(seq) = Len(partial) + 1
      /\ seq[1] = partial[1]
  BY <1>1, AppendProperties
<1>3. Len(seq) < MAX_SEQUENCE
  BY <1>1, <1>2, ConstantFacts DEF sequence_complete
<1>4. ASSUME NEW n \in 2..Len(seq)
      PROVE  ~sequence_complete(SubSeq(seq, 1, n))
  <2>1. CASE n = Len(seq)
    BY <1>2, <2>1, SubSeqFull
  <2>2. CASE n # Len(seq)
    <3>1. n \in 2..Len(partial)
      BY <1>1, <1>2, <2>2
    <3>2. seq = partial \o <<byte>> /\ <<byte>> \in Seq(Byte)
      BY <1>1, AppendIsConcat
    <3>3. SubSeq(seq, 1, n) = SubSeq(partial, 1, n)
      BY <1>1, <3>1, <3>2, SubSeqOfConcat1
    <3>. QED BY <3>1, <3>3 DEF PartialIncomplete
  <2>. QED BY <2>1, <2>2
<1>. QED BY <1>2, <1>3, <1>4 DEF PartialIncomplete

(* Every step keeps it.                                                    *)
LEMMA NextIInv == IInv /\ [Next]_vars => IInv'
<1>. SUFFICES ASSUME IInv, [Next]_vars PROVE IInv'
  OBVIOUS
<1>0. /\ TypeOK /\ PartialIncomplete /\ PrefixOnlyUnlocked /\ TypedOnlyLocked
      /\ out \in Output
  BY DEF IInv, TypeOK, Output
<1>1. CASE Feed
  <2>1. NoOutput \in Output
    BY <1>0, OutputType
  <2>. QED
    BY <1>0, <1>1, <2>1
    DEF Feed, held, IInv, TypeOK, Output, PartialIncomplete, PrefixOnlyUnlocked, TypedOnlyLocked
<1>2. ASSUME NEW byte \in Byte, FeedByte(byte)
      PROVE  IInv'
  <2>. DEFINE seq == Append(partial, byte)
  <2>1. unread' \in 0..READ_SIZE
    BY <1>0, <1>2, ConstantFacts DEF FeedByte, TypeOK
  <2>2. seq \in Seq(Byte) /\ seq # <<>>
    BY <1>0, AppendProperties DEF TypeOK
  <2>3. CASE partial = <<>> /\ byte # ESC /\ handle(<<byte>>, out) /\ UNCHANGED partial
    <3>1. <<byte>> \in Seq(Byte) /\ <<byte>> # <<>>
      OBVIOUS
    <3>2. PartialIncomplete'
      BY <2>3 DEF PartialIncomplete
    <3>. QED BY <1>0, <2>1, <2>3, <3>1, <3>2, HandleKeeps DEF IInv, TypeOK, Output
  <2>4. CASE /\ partial = <<>> /\ byte = ESC /\ partial' = seq
             /\ UNCHANGED <<locked, prefix, typed, in_paste, out>>
    <3>1. partial' = <<ESC>> /\ Len(partial') = 1
      BY <2>4
    <3>2. PartialIncomplete'
      BY <3>1, ConstantFacts DEF PartialIncomplete
    <3>. QED
      BY <1>0, <2>1, <2>2, <2>4, <3>2
      DEF IInv, TypeOK, PrefixOnlyUnlocked, TypedOnlyLocked
  <2>5. CASE /\ partial # <<>> /\ sequence_complete(seq)
             /\ partial' = <<>> /\ handle(seq, out)
    <3>1. PartialIncomplete' /\ partial' \in Seq(Byte)
      BY <2>5, EmptySeq DEF PartialIncomplete
    <3>. HIDE DEF seq
    <3>. QED BY <1>0, <2>1, <2>2, <2>5, <3>1, HandleKeeps DEF IInv, TypeOK, Output
  <2>6. CASE /\ partial # <<>> /\ ~sequence_complete(seq) /\ partial' = seq
             /\ UNCHANGED <<locked, prefix, typed, in_paste, out>>
    <3>1. PartialIncomplete'
      BY <1>0, <2>6, PartialGrows
    <3>. QED
      BY <1>0, <2>1, <2>2, <2>6, <3>1
      DEF IInv, TypeOK, PrefixOnlyUnlocked, TypedOnlyLocked
  <2>. QED BY <1>2, <2>3, <2>4, <2>5, <2>6 DEF FeedByte
<1>3. CASE flush
  <2>1. NoOutput \in Output
    BY <1>0, OutputType
  <2>2. partial \in Seq(Byte) /\ partial # <<>> /\ handle(partial, NoOutput)
    BY <1>0, <1>3 DEF flush, TypeOK
  <2>3. PartialIncomplete' /\ partial' \in Seq(Byte) /\ unread' = unread
    BY <1>3, EmptySeq DEF flush, PartialIncomplete
  <2>. QED BY <1>0, <2>1, <2>2, <2>3, HandleKeeps DEF IInv, TypeOK, Output
<1>4. ASSUME NEW value \in BOOLEAN, set_locked(value)
      PROVE  IInv'
  <2>1. NoOutput \in Output
    BY <1>0, OutputType
  <2>2. <<>> \in Seq(Byte) /\ <<>> \in Seq(Printable)
    BY EmptySeq
  <2>. QED
    BY <1>0, <1>4, <2>1, <2>2
    DEF set_locked, ForgetHeld, IInv, TypeOK, Output, PartialIncomplete,
        PrefixOnlyUnlocked, TypedOnlyLocked
<1>5. CASE UNCHANGED vars
  BY <1>0, <1>5
  DEF vars, held, IInv, TypeOK, PartialIncomplete, PrefixOnlyUnlocked, TypedOnlyLocked
<1>. QED BY <1>1, <1>2, <1>3, <1>4, <1>5 DEF Next

(* Every reachable state satisfies the invariants of the runs, and what    *)
(* holds between two states holds over the whole behaviour.                *)
THEOREM GateInvariant == Spec => []IInv
<1>. QED BY InitIInv, NextIInv, PTL DEF Spec

(* The gate's state is well typed (gate.rs:68-76).                         *)
THEOREM GateTypeOK == Spec => []TypeOK
<1>1. IInv => TypeOK BY DEF IInv
<1>. QED BY <1>1, GateInvariant, PTL

(* Sequences are taken as soon as they are complete and never outgrow the  *)
(* limit (gate.rs:133-143, 213-229).                                       *)
THEOREM GatePartialIncomplete == Spec => []PartialIncomplete
<1>1. IInv => PartialIncomplete BY DEF IInv
<1>. QED BY <1>1, GateInvariant, PTL

(* A pending Ctrl+] is never met by a locked gate nor under --no-hotkey    *)
(* (gate.rs:99-110, 162-181).                                              *)
THEOREM GatePrefixOnlyUnlocked == Spec => []PrefixOnlyUnlocked
<1>1. IInv => PrefixOnlyUnlocked BY DEF IInv
<1>. QED BY <1>1, GateInvariant, PTL

(* No lock starts with keys of the phrase typed before it                  *)
(* (gate.rs:99-110, 190-204).                                              *)
THEOREM GateTypedOnlyLocked == Spec => []TypedOnlyLocked
<1>1. IInv => TypedOnlyLocked BY DEF IInv
<1>. QED BY <1>1, GateInvariant, PTL

-------------------------------------------------------------------------------
(* The events of a call.                                                   *)

(* An event at the end: those before it stand where they stood.            *)
LEMMA EventAdded ==
  ASSUME NEW events \in Seq(Event), NEW event \in Event
  PROVE  /\ Append(events, event) \in Seq(Event)
         /\ DOMAIN events = 1..Len(events) /\ Len(events) \in Nat
         /\ DOMAIN Append(events, event) = 1..Len(events) + 1
         /\ \A i \in 1..Len(events) : Append(events, event)[i] = events[i]
         /\ Append(events, event)[Len(events) + 1] = event
BY AppendProperties

(* The lock changes, and the event that is added says so.                  *)
LEMMA SwitchTells ==
  ASSUME NEW events \in Seq(Event), NEW value \in BOOLEAN, EventsTell(events, value),
         NEW event \in Switches, (event = "Lock") = ~value,
         event = "Unlock" => \E i \in DOMAIN events : events[i] = "DroppedInput"
  PROVE  EventsTell(Append(events, event), ~value)
<1>. DEFINE more == Append(events, event)
            n == Len(events)
<1>1. /\ DOMAIN events = 1..n /\ n \in Nat /\ DOMAIN more = 1..n + 1
      /\ \A i \in 1..n : more[i] = events[i]
      /\ more[n + 1] = event
  BY EventAdded DEF Switches, Event
<1>. HIDE DEF more, n
<1>2. ASSUME NEW i \in 1..n + 1
      PROVE  \/ more[i] \notin Switches
             \/ (more[i] = "Lock") = ~value
             \/ \E j \in 1..n + 1 : i < j /\ more[j] \in Switches
  BY <1>1
<1>3. ASSUME NEW i \in 1..n + 1, NEW j \in 1..n + 1, i < j,
             more[i] \in Switches, more[j] = more[i]
      PROVE  \E k \in 1..n + 1 : i < k /\ k < j /\ more[k] \in Switches \ {more[i]}
  <2>1. i \in 1..n /\ events[i] = more[i]
    BY <1>1, <1>3
  <2>2. CASE j \in 1..n
    <3>1. PICK k \in 1..n : i < k /\ k < j /\ events[k] \in Switches \ {events[i]}
      BY <1>1, <1>3, <2>1, <2>2 DEF EventsTell
    <3>. QED BY <1>1, <2>1, <3>1
  <2>3. CASE j = n + 1
    <3>1. events[i] = event /\ events[i] \in Switches
      BY <1>1, <1>3, <2>1, <2>3
    <3>2. PICK m \in 1..n : i < m /\ events[m] \in Switches
      BY <1>1, <2>1, <3>1 DEF EventsTell
    <3>3. CASE events[m] = events[i]
      <4>1. PICK k \in 1..n : i < k /\ k < m /\ events[k] \in Switches \ {events[i]}
        BY <1>1, <2>1, <3>1, <3>2, <3>3 DEF EventsTell
      <4>. QED BY <1>1, <2>1, <2>3, <4>1
    <3>4. CASE events[m] # events[i]
      BY <1>1, <2>1, <2>3, <3>2, <3>4
    <3>. QED BY <3>3, <3>4
  <2>. QED BY <1>1, <2>2, <2>3
<1>4. ASSUME NEW i \in 1..n + 1, NEW j \in 1..n + 1,
             more[i] = "DroppedInput", more[j] = "DroppedInput"
      PROVE  i = j
  <2>1. i \in 1..n /\ j \in 1..n
    BY <1>1, <1>4 DEF Switches
  <2>. QED BY <1>1, <1>4, <2>1 DEF EventsTell
<1>5. ASSUME NEW j \in 1..n + 1, more[j] = "Unlock"
      PROVE  \E i \in 1..n + 1 : i < j /\ more[i] = "DroppedInput"
  <2>1. CASE j \in 1..n
    <3>1. PICK i \in 1..n : i < j /\ events[i] = "DroppedInput"
      BY <1>1, <1>5, <2>1 DEF EventsTell
    <3>. QED BY <1>1, <3>1
  <2>2. CASE j = n + 1
    <3>1. PICK i \in 1..n : events[i] = "DroppedInput"
      BY <1>1, <1>5, <2>2
    <3>. QED BY <1>1, <2>2, <3>1
  <2>. QED BY <1>1, <2>1, <2>2
<1>6. EventsTell(more, ~value)
  BY <1>1, <1>2, <1>3, <1>4, <1>5 DEF EventsTell
<1>. QED BY <1>6 DEF more

(* Dropped input is reported, before any unlock.                           *)
LEMMA DroppedTells ==
  ASSUME NEW o \in Output, NEW token, EventsTell(o.events, TRUE)
  PROVE  /\ EventsTell(Dropped(token, o).events, TRUE)
         /\ ~is_report(token) =>
              \E i \in DOMAIN Dropped(token, o).events :
                Dropped(token, o).events[i] = "DroppedInput"
<1>. DEFINE events == o.events
            more == Append(events, "DroppedInput")
            n == Len(events)
<1>1. events \in Seq(Event) /\ "DroppedInput" \in Event
  BY DEF Output, Event
<1>2. /\ DOMAIN events = 1..n /\ n \in Nat /\ DOMAIN more = 1..n + 1
      /\ \A i \in 1..n : more[i] = events[i]
      /\ more[n + 1] = "DroppedInput"
  BY <1>1, EventAdded
<1>3. Contains(events, "DroppedInput") <=> \E i \in 1..n : events[i] = "DroppedInput"
  BY DEF Contains
<1>4. Report(o, "DroppedInput").events = more
  BY <1>1, OutputType
<1>5. CASE is_report(token) \/ Contains(events, "DroppedInput")
  BY <1>2, <1>3, <1>5 DEF Dropped
<1>6. CASE ~(is_report(token) \/ Contains(events, "DroppedInput"))
  <2>1. Dropped(token, o).events = more
    BY <1>4, <1>6 DEF Dropped
  <2>2. \A i \in 1..n : events[i] # "DroppedInput" /\ events[i] # "Unlock"
    BY <1>2, <1>3, <1>6 DEF EventsTell
  <2>. HIDE DEF more, events, n
  <2>3. EventsTell(more, TRUE)
    <3>0. EventsTell(events, TRUE)
      BY DEF events
    <3>1. \A i \in 1..n + 1 :
            more[i] \notin Switches \/ (more[i] = "Lock") = TRUE
      BY <1>2, <2>2 DEF Switches
    <3>2. ASSUME NEW i \in 1..n + 1, NEW j \in 1..n + 1, i < j,
                 more[i] \in Switches, more[j] = more[i]
          PROVE  \E k \in 1..n + 1 : i < k /\ k < j /\ more[k] \in Switches \ {more[i]}
      <4>1. i \in 1..n /\ j \in 1..n
        BY <1>2, <3>2 DEF Switches
      <4>2. PICK k \in 1..n : i < k /\ k < j /\ events[k] \in Switches \ {events[i]}
        BY <1>2, <3>0, <3>2, <4>1 DEF EventsTell
      <4>. QED BY <1>2, <4>1, <4>2
    <3>3. \A i, j \in 1..n + 1 : more[i] = "DroppedInput" /\ more[j] = "DroppedInput" => i = j
      BY <1>2, <2>2
    <3>4. \A i \in 1..n + 1 : more[i] # "Unlock"
      BY <1>2, <2>2
    <3>. QED BY <1>2, <3>1, <3>2, <3>3, <3>4 DEF EventsTell
  <2>4. n + 1 \in DOMAIN more /\ more[n + 1] = "DroppedInput"
    BY <1>2
  <2>. QED BY <2>1, <2>3, <2>4
<1>. QED BY <1>5, <1>6

(* What the events of one token tell.                                      *)
LEMMA HandleTells ==
  ASSUME locked \in BOOLEAN, NEW token, NEW o \in Output, EventsTell(o.events, locked), handle(token, o)
  PROVE  EventsTell(out'.events, locked')
<1>1. CASE locked /\ handle_locked(token, o)
  <2>1. EventsTell(Dropped(token, o).events, TRUE) /\ Dropped(token, o) \in Output
    BY <1>1, DroppedTells, DroppedType
  <2>2. CASE out' = Dropped(token, o) /\ UNCHANGED locked
    BY <1>1, <2>1, <2>2
  <2>3. CASE /\ IsPhraseKey(token) /\ locked' = FALSE
             /\ out' = Report(Dropped(token, o), "Unlock")
    <3>1. ~is_report(token)
      BY <2>3 DEF IsPhraseKey, is_report
    <3>2. \E i \in DOMAIN Dropped(token, o).events :
             Dropped(token, o).events[i] = "DroppedInput"
      BY <1>1, <3>1, DroppedTells
    <3>3. out'.events = Append(Dropped(token, o).events, "Unlock")
      BY <2>1, <2>3, OutputType DEF Event
    <3>4. EventsTell(Append(Dropped(token, o).events, "Unlock"), ~TRUE)
      <4>1. Dropped(token, o).events \in Seq(Event) /\ "Unlock" \in Switches
        BY <2>1 DEF Output, Switches
      <4>. QED BY <2>1, <3>2, <4>1, SwitchTells
    <3>5. EventsTell(Append(Dropped(token, o).events, "Unlock"), FALSE)
      <4>1. (~TRUE) = FALSE
        OBVIOUS
      <4>. QED BY <3>4, <4>1, Zenon
    <3>. QED BY <2>3, <3>3, <3>5
  <2>. QED BY <1>1, <2>2, <2>3 DEF handle_locked
<1>2. CASE ~locked /\ handle_unlocked(token, o)
  <2>1. CASE out'.events = o.events /\ UNCHANGED locked
    BY <2>1
  <2>2. CASE locked' = TRUE /\ out' = Report(o, "Lock")
    <3>1. out'.events = Append(o.events, "Lock") /\ o.events \in Seq(Event)
      BY <2>2, OutputType DEF Event, Output
    <3>2. EventsTell(Append(o.events, "Lock"), ~locked)
      <4>1. "Lock" \in Switches
        BY DEF Switches
      <4>. QED BY <1>2, <3>1, <4>1, SwitchTells
    <3>. QED BY <1>2, <2>2, <3>1, <3>2
  <2>3. CASE \E bytes : out' = Forward(o, bytes) /\ UNCHANGED locked
    <3>1. out'.events = o.events
      BY <2>3 DEF Forward, Output
    <3>. QED BY <2>3, <3>1
  <2>. QED BY <1>2, <2>1, <2>2, <2>3 DEF handle_unlocked
<1>. QED BY <1>1, <1>2 DEF handle

(* No output tells no change of the lock.                                  *)
LEMMA NothingTells == \A value \in BOOLEAN : EventsTell(NoOutput.events, value)
BY DEF EventsTell, NoOutput

(* Every step's events end in the state they leave.                        *)
LEMMA NextTells == TypeOK /\ EventsTellState /\ [Next]_vars => EventsTellState'
<1>. SUFFICES ASSUME TypeOK, EventsTellState, [Next]_vars PROVE EventsTellState'
  OBVIOUS
<1>1. locked \in BOOLEAN /\ out \in Output /\ NoOutput \in Output
  BY OutputType DEF TypeOK, Output
<1>2. EventsTell(out.events, locked) /\ EventsTell(NoOutput.events, locked)
  BY <1>1, NothingTells DEF EventsTellState
<1>3. CASE Feed
  BY <1>2, <1>3 DEF Feed, EventsTellState
<1>4. ASSUME NEW byte \in Byte, FeedByte(byte)
      PROVE  EventsTellState'
  <2>1. \/ handle(<<byte>>, out) \/ handle(Append(partial, byte), out)
        \/ UNCHANGED <<locked, out>>
    BY <1>4 DEF FeedByte
  <2>. QED BY <1>1, <1>2, <2>1, HandleTells DEF EventsTellState
<1>5. CASE flush
  BY <1>1, <1>2, <1>5, HandleTells DEF flush, EventsTellState
<1>6. ASSUME NEW value \in BOOLEAN, set_locked(value)
      PROVE  EventsTellState'
  BY <1>6, NothingTells DEF set_locked, EventsTellState
<1>7. CASE UNCHANGED vars
  BY <1>7 DEF vars, EventsTellState
<1>. QED BY <1>3, <1>4, <1>5, <1>6, <1>7 DEF Next

(* The relay may apply the events of a call when the lock has its final    *)
(* value already: the last switch among them tells it, switches alternate, *)
(* and dropped input is reported once, before any unlock                   *)
(* (gate.rs:162-205, relay.rs:205-216).                                    *)
THEOREM GateEventsTellState == Spec => []EventsTellState
<1>1. Init => EventsTellState
  BY NothingTells DEF Init, EventsTellState
<1>. QED BY <1>1, NextTells, GateTypeOK, PTL DEF Spec

-------------------------------------------------------------------------------
(* The gate implements the abstract lock.                                  *)

Held == IF locked THEN <<>> ELSE prefix \o partial
LockKey    == {<<CTRL_BRACKET>>, KITTY_CTRL_BRACKET}
LockFinish == {<<"l">>, KITTY_L}

(* A token that an unlocked gate takes is decided as the abstract lock     *)
(* decides what it holds with the token at its end.                        *)
LEMMA UnlockedDecides ==
  ASSUME IInv, NEW token \in Seq(Byte), NEW o \in Output,
         ~locked, handle(token, o), partial' = <<>>
  PROVE  Lock!Decide(prefix \o token, o.forward)
<1>. DEFINE h == prefix \o token
<1>1. /\ prefix \in Seq(Byte) /\ handle_unlocked(token, o)
      /\ prefix # <<>> => prefix \in LockKey
  BY DEF IInv, TypeOK, PrefixOnlyUnlocked, IsCtrlBracket, LockKey, handle
<1>2. h \in Seq(Byte)
  BY <1>1, ConcatProperties
<1>3. "Lock" \in Event
  BY DEF Event
<1>4. ASSUME NEW p \in Seq(Byte), prefix' = p PROVE prefix' \o partial' = p
  BY <1>4, ConcatEmptySeq
<1>5. <<>> \in Seq(Byte)
  BY EmptySeq
<1>6. CASE /\ prefix # <<>> /\ IsL(token) /\ locked' = TRUE
           /\ out' = Report(o, "Lock")
  <2>1. token \in LockFinish
    BY <1>6 DEF IsL, LockFinish
  <2>2. out'.forward = o.forward
    BY <1>3, <1>6, OutputType
  <2>. QED BY <1>1, <1>6, <2>1, <2>2 DEF Lock!Decide, Lock!Lock, LockKey, LockFinish
<1>7. CASE /\ prefix # <<>> /\ ~IsL(token) /\ prefix' = <<>> /\ locked' = locked
           /\ out' = Forward(o, IF IsCtrlBracket(token) THEN prefix ELSE h)
  <2>1. prefix' \o partial' = <<>>
    BY <1>4, <1>5, <1>7
  <2>2. CASE IsCtrlBracket(token)
    <3>1. token \in LockKey
      BY <2>2 DEF IsCtrlBracket, LockKey
    <3>2. out'.forward = o.forward \o prefix
      BY <1>1, <1>7, <2>2, OutputType
    <3>. QED
      BY <1>1, <1>7, <2>1, <3>1, <3>2 DEF Lock!Decide, Lock!HandOverOne, LockKey
  <2>3. CASE ~IsCtrlBracket(token)
    <3>1. out'.forward = o.forward \o h
      BY <1>2, <1>7, <2>3, OutputType
    <3>. QED BY <1>7, <2>1, <3>1 DEF Lock!Decide, Lock!HandOver
  <2>. QED BY <2>2, <2>3
<1>8. CASE prefix = <<>> /\ prefix' = token /\ out' = o /\ locked' = locked
  <2>1. prefix' \o partial' = token /\ h = token
    BY <1>4, <1>8, ConcatEmptySeq
  <2>. QED BY <1>8, <2>1 DEF Lock!Decide, Lock!Hold
<1>9. CASE prefix = <<>> /\ prefix' = prefix /\ out' = Forward(o, token) /\ locked' = locked
  <2>1. prefix' \o partial' = <<>> /\ h = token
    BY <1>4, <1>5, <1>9, ConcatEmptySeq
  <2>2. out'.forward = o.forward \o token
    BY <1>9, OutputType
  <2>. QED BY <1>9, <2>1, <2>2 DEF Lock!Decide, Lock!HandOver
<1>. QED BY <1>1, <1>6, <1>7, <1>8, <1>9 DEF handle_unlocked

(* A token that a locked gate takes hands nothing over, and leaves nothing *)
(* held when it unlocks.                                                   *)
LEMMA LockedDecides ==
  ASSUME IInv, NEW token \in Seq(Byte), NEW o \in Output,
         locked, handle(token, o), partial' = <<>>
  PROVE  /\ locked' \in BOOLEAN
         /\ Held' = <<>>
         /\ out'.forward = o.forward
         /\ Len(token) # 1 \/ token[1] \notin Printable => locked'
<1>1. prefix' = <<>> /\ handle_locked(token, o)
  BY DEF IInv, PrefixOnlyUnlocked, handle, handle_locked
<1>2. <<>> \o <<>> = <<>>
  BY EmptySeq, ConcatEmptySeq
<1>3. Dropped(token, o) \in Output /\ Dropped(token, o).forward = o.forward
  BY DroppedType
<1>4. Report(Dropped(token, o), "Unlock").forward = o.forward
  BY <1>3, OutputType DEF Event
<1>5. locked' \in BOOLEAN /\ out'.forward = o.forward
  BY <1>1, <1>3, <1>4 DEF handle_locked
<1>6. Len(token) # 1 \/ token[1] \notin Printable => locked'
  BY <1>1 DEF handle_locked, IsPhraseKey
<1>. QED BY <1>1, <1>2, <1>5, <1>6 DEF Held

(* The start is the abstract lock's.                                       *)
LEMMA InitImplements == Init => Lock!Init
<1>1. <<>> \o <<>> = <<>>
  BY EmptySeq, ConcatEmptySeq
<1>. QED BY <1>1 DEF Init, Lock!Init, NoOutput

(* Every step is a step of the abstract lock, or none.                     *)
LEMMA NextImplements == IInv /\ [Next]_vars => [Lock!Next]_(Lock!vars)
<1>. SUFFICES ASSUME IInv, [Next]_vars PROVE Lock!Next \/ UNCHANGED Lock!vars
  OBVIOUS
<1>0. /\ locked \in BOOLEAN /\ partial \in Seq(Byte) /\ prefix \in Seq(Byte)
      /\ out \in Output /\ NoOutput \in Output /\ NoOutput.forward = <<>>
      /\ locked => prefix = <<>>
  BY OutputType DEF IInv, TypeOK, PrefixOnlyUnlocked, Output, NoOutput
<1>1. CASE Feed
  BY <1>1 DEF Feed, held, NoOutput, Lock!Next, Lock!Begin
<1>2. ASSUME NEW byte \in Byte, FeedByte(byte)
      PROVE  Lock!Next
  <2>. DEFINE seq == Append(partial, byte)
  <2>. SUFFICES Lock!Type(byte)
    BY DEF Lock!Next
  <2>1. seq \in Seq(Byte)
    BY <1>0, AppendProperties
  <2>2. prefix \o seq = Append(prefix \o partial, byte)
    <3>1. seq = partial \o <<byte>> /\ <<byte>> \in Seq(Byte)
      BY <1>0, AppendIsConcat
    <3>2. prefix \o partial \in Seq(Byte)
      BY <1>0, ConcatProperties
    <3>3. Append(prefix \o partial, byte) = (prefix \o partial) \o <<byte>>
      BY <3>2, AppendIsConcat
    <3>. HIDE DEF seq
    <3>. QED BY <1>0, <3>1, <3>3, ConcatAssociative
  <2>3. CASE handle(seq, out) /\ partial' = <<>>
    <3>. HIDE DEF seq
    <3>1. CASE locked
      <4>1. locked' \in BOOLEAN /\ Held' = <<>> /\ out'.forward = out.forward
        BY <1>0, <2>1, <2>3, <3>1, LockedDecides
      <4>. QED BY <3>1, <4>1 DEF Lock!Type, Held
    <3>2. CASE ~locked
      <4>1. Lock!Decide(prefix \o seq, out.forward)
        BY <1>0, <2>1, <2>3, <3>2, UnlockedDecides
      <4>. QED BY <2>2, <3>2, <4>1 DEF Lock!Type
    <3>. QED BY <3>1, <3>2
  <2>4. CASE partial' = seq /\ UNCHANGED <<locked, prefix, typed, in_paste, out>>
    <3>. HIDE DEF seq
    <3>1. CASE locked
      BY <1>0, <2>4, <3>1 DEF Lock!Type
    <3>2. CASE ~locked
      BY <2>2, <2>4, <3>2 DEF Lock!Type, Lock!Decide, Lock!Hold
    <3>. QED BY <3>1, <3>2
  <2>5. partial = <<>> => seq = <<byte>>
    OBVIOUS
  <2>. QED
    <3>. HIDE DEF seq
    <3>. QED BY <1>2, <2>3, <2>4, <2>5 DEF FeedByte, seq
<1>3. CASE flush
  <2>1. handle(partial, NoOutput) /\ partial' = <<>> /\ partial # <<>>
    BY <1>3 DEF flush
  <2>. SUFFICES Lock!Timeout
    BY DEF Lock!Next
  <2>2. CASE locked
    <3>1. partial[1] = ESC /\ ESC \notin Printable
      BY <2>1, ConstantFacts DEF IInv, PartialIncomplete
    <3>2. locked' = TRUE /\ Held' = <<>> /\ out'.forward = <<>>
      BY <1>0, <2>1, <2>2, <3>1, LockedDecides
    <3>. QED BY <2>2, <3>2 DEF Lock!Timeout, Held
  <2>3. CASE ~locked
    <3>1. Lock!Decide(prefix \o partial, <<>>)
      BY <1>0, <2>1, <2>3, UnlockedDecides
    <3>. QED BY <2>3, <3>1 DEF Lock!Timeout
  <2>. QED BY <2>2, <2>3
<1>4. ASSUME NEW value \in BOOLEAN, set_locked(value)
      PROVE  Lock!Next
  <2>1. <<>> \o <<>> = <<>>
    BY EmptySeq, ConcatEmptySeq
  <2>. QED
    BY <1>0, <1>4, <2>1 DEF set_locked, ForgetHeld, Lock!Next, Lock!Switch
<1>5. CASE UNCHANGED vars
  BY <1>5 DEF vars, held, Lock!vars
<1>. QED BY <1>1, <1>2, <1>3, <1>4, <1>5 DEF Next

(* The gate is a keyboard lock: whatever the terminal sends, however it is *)
(* cut into reads, and whenever the timeout or the control socket          *)
(* intervenes, bytes reach the command in order and once while unlocked,   *)
(* none while locked, and none that was held when the lock was switched    *)
(* (gate.rs:99-205).                                                       *)
THEOREM GateImplementsLock == Spec => ImplementsLock
<1>. QED
  BY InitImplements, NextImplements, GateInvariant, PTL
  DEF Spec, ImplementsLock, Lock!Spec
===============================================================================
