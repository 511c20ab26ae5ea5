---------------------------- MODULE GatePasteProofs ----------------------------
(***************************************************************************)
(* Theorems about the gate in front of a terminal, for every alphabet and  *)
(* phrase: of a user who waits for the escape timeout after Escape, and a  *)
(* relay that finds no sequence half read.  Without the one or the other   *)
(* they do not hold.                                                       *)
(***************************************************************************)
EXTENDS GatePaste, GateProofs

(* What the terminal sends, and the place of a byte in it.                 *)
IsUnit(bytes, kind) ==
  \/ kind = "pasted" /\ bytes \in Pasted
  \/ kind = "key" /\ \E k \in Key : bytes = <<k>>
  \/ kind = "other" /\ bytes \in {<<CTRL_BRACKET>>, <<ESC>>, ARROW, CLICK}
  \/ kind = "marker" /\ bytes \in {PASTE_START, PASTE_END}

(* The units of more than one byte.                                        *)
Sequences == EscapePair \cup {ARROW, CLICK, PASTE_START, PASTE_END}

Item == {e \in [bytes : Seq(Byte), at : Nat \ {0}, kind : Kind] :
           IsUnit(e.bytes, e.kind) /\ e.at <= Len(e.bytes)}

(* Whether the terminal is in a paste before a unit and after it.          *)
Before(e) == e.kind = "pasted" \/ e.bytes = PASTE_END
After(e)  == e.kind = "pasted" \/ e.bytes = PASTE_START

(* The byte after e, or the first of the next unit.  Nothing follows an    *)
(* Escape before the timeout.                                              *)
Follows(e, g) ==
  IF e.at = Len(e.bytes)
  THEN g.at = 1 /\ Before(g) = After(e) /\ e.bytes # <<ESC>>
  ELSE g.bytes = e.bytes /\ g.kind = e.kind /\ g.at = e.at + 1

(* The terminal's queue is the rest of a unit and whole units.             *)
Queue ==
  /\ tty \in Seq(Item)
  /\ \A i \in 1..Len(tty) : i + 1 \in 1..Len(tty) => Follows(tty[i], tty[i + 1])
  /\ tty # <<>> => /\ tty[Len(tty)].at = Len(tty[Len(tty)].bytes)
                   /\ After(tty[Len(tty)]) = pasting

(* The gate has collected what was read of the unit at the head of it.     *)
Reading ==
  IF tty = <<>>
  THEN partial = <<>> \/ (partial = <<ESC>> /\ ~pasting)
  ELSE /\ Len(partial) + 1 = tty[1].at
       /\ \A i \in 1..Len(partial) : partial[i] = tty[1].bytes[i]

(* The gate's belief is the truth of the unit it reads.                    *)
Belief ==
  /\ pasting \in BOOLEAN
  /\ in_paste = IF tty = <<>> THEN pasting ELSE Before(tty[1])
  /\ in_paste => prefix = <<>>

(* The user's view of the keys is the gate's.                              *)
Window == locked => keys = IF partial = <<>> THEN typed ELSE <<>>

PasteInv == IInv /\ Queue /\ Reading /\ Belief /\ Window

-------------------------------------------------------------------------------
(* What the terminal sends, and what the gate makes of a token.            *)

(* The constants, as these proofs use them.                                *)
LEMMA PasteFacts ==
  /\ Key \subseteq Printable /\ Key \subseteq Byte
  /\ {ESC, CTRL_BRACKET, "[", "D", "M", "u", "l", "~", "200", "201"} \subseteq Byte
  /\ "D" \in Final /\ "~" \in Final
  /\ ESC \notin Printable /\ CTRL_BRACKET \notin Printable
  /\ "200" \notin Final /\ "201" \notin Final
  /\ MAX_SEQUENCE \in Nat /\ MAX_SEQUENCE >= 6
BY PasteAssumption, GateAssumption

(* The terminal's sequences.                                               *)
LEMMA SequenceFacts ==
  /\ ARROW \in Seq(Byte) /\ CLICK \in Seq(Byte) /\ PASTE_START \in Seq(Byte) /\ PASTE_END \in Seq(Byte)
  /\ Len(ARROW) = 3 /\ Len(CLICK) = 6 /\ Len(PASTE_START) = 4 /\ Len(PASTE_END) = 4
  /\ ARROW[1] = ESC /\ CLICK[1] = ESC /\ PASTE_START[1] = ESC /\ PASTE_END[1] = ESC
  /\ ARROW[2] = "[" /\ CLICK[2] = "[" /\ PASTE_START[2] = "[" /\ PASTE_END[2] = "["
  /\ ARROW[3] = "D" /\ CLICK[3] = "M" /\ PASTE_START[3] = "200" /\ PASTE_END[3] = "201"
  /\ PASTE_START[4] = "~" /\ PASTE_END[4] = "~"
  /\ PASTE_START # PASTE_END /\ ARROW \notin {PASTE_START, PASTE_END}
  /\ CLICK \notin {PASTE_START, PASTE_END}
<1>1. ARROW \in Seq(Byte) /\ Len(ARROW) = 3 /\ ARROW[1] = ESC /\ ARROW[2] = "[" /\ ARROW[3] = "D"
  BY PasteFacts DEF ARROW
<1>2. CLICK \in Seq(Byte) /\ Len(CLICK) = 6 /\ CLICK[1] = ESC /\ CLICK[2] = "[" /\ CLICK[3] = "M"
  BY PasteFacts DEF CLICK
<1>3. /\ PASTE_START \in Seq(Byte) /\ Len(PASTE_START) = 4
      /\ PASTE_START[1] = ESC /\ PASTE_START[2] = "[" /\ PASTE_START[3] = "200" /\ PASTE_START[4] = "~"
  BY PasteFacts DEF PASTE_START
<1>4. /\ PASTE_END \in Seq(Byte) /\ Len(PASTE_END) = 4
      /\ PASTE_END[1] = ESC /\ PASTE_END[2] = "[" /\ PASTE_END[3] = "201" /\ PASTE_END[4] = "~"
  BY PasteFacts DEF PASTE_END
<1>. QED BY <1>1, <1>2, <1>3, <1>4

(* ESC with the character that ends the sequence.                          *)
LEMMA PairFacts ==
  ASSUME NEW bytes \in EscapePair
  PROVE  /\ bytes \in Seq(Byte) /\ Len(bytes) = 2 /\ bytes[1] = ESC
         /\ sequence_complete(bytes)
         /\ bytes \notin {PASTE_START, PASTE_END}
<1>1. PICK k \in Key \cup {CTRL_BRACKET, ESC} : bytes = <<ESC, k>> /\ sequence_complete(<<ESC, k>>)
  BY DEF EscapePair
<1>2. bytes \in Seq(Byte) /\ Len(bytes) = 2 /\ bytes[1] = ESC
  BY <1>1, PasteFacts
<1>3. bytes # PASTE_START /\ bytes # PASTE_END
  BY <1>2, SequenceFacts
<1>. QED BY <1>1, <1>2, <1>3

(* A sequence starts with ESC and is longer than it.                       *)
LEMMA LongerThanEscape ==
  ASSUME NEW bytes \in Sequences
  PROVE  /\ bytes \in Seq(Byte) /\ bytes[1] = ESC
         /\ Len(bytes) \in Nat \ {0, 1} /\ bytes # <<ESC>>
<1>1. bytes \in Seq(Byte) /\ bytes[1] = ESC /\ Len(bytes) \in {2, 3, 4, 6}
  <2>1. CASE bytes \in EscapePair
    BY <2>1, PairFacts
  <2>2. CASE bytes \in {ARROW, CLICK, PASTE_START, PASTE_END}
    BY <2>2, SequenceFacts
  <2>. QED BY <2>1, <2>2 DEF Sequences
<1>2. Len(bytes) \in Nat \ {0, 1}
  <2>1. PICK n \in {2, 3, 4, 6} : n = Len(bytes)
    BY <1>1
  <2>2. n \in Nat \ {0, 1}
    OBVIOUS
  <2>. QED BY <2>1, <2>2
<1>3. bytes # <<ESC>>
  <2>1. SUFFICES ASSUME bytes = <<ESC>> PROVE FALSE
    OBVIOUS
  <2>2. Len(bytes) = 1
    BY <2>1
  <2>. QED BY <1>2, <2>2
<1>. QED BY <1>1, <1>2, <1>3

(* A unit is one byte that is not ESC, the Escape key, or a sequence.      *)
LEMMA UnitFacts ==
  ASSUME NEW bytes, NEW kind, IsUnit(bytes, kind)
  PROVE  /\ bytes \in Seq(Byte) /\ kind \in Kind /\ Len(bytes) \in Nat \ {0}
         /\ bytes[1] # ESC =>
              /\ Len(bytes) = 1 /\ bytes = <<bytes[1]>>
              /\ kind \in {"key", "pasted", "other"}
              /\ kind = "key" => bytes[1] \in Printable
              /\ kind = "other" => bytes[1] \notin Printable
         /\ bytes[1] = ESC =>
              /\ kind \in {"other", "marker", "pasted"}
              /\ bytes = <<ESC>> \/ bytes \in Sequences
         /\ kind = "marker" => bytes \in {PASTE_START, PASTE_END}
         /\ kind = "pasted" => bytes # <<ESC>> /\ bytes # PASTE_END
<1>1. CASE \E k \in Key \cup {CTRL_BRACKET} : bytes = <<k>> /\ kind = "pasted"
  <2>1. PICK k \in Key \cup {CTRL_BRACKET} : bytes = <<k>>
    BY <1>1
  <2>2. k # ESC /\ k \in Byte
    BY PasteFacts DEF ESC, CTRL_BRACKET
  <2>3. <<k>> # PASTE_END /\ <<k>> # <<ESC>>
    BY <2>2 DEF PASTE_END
  <2>. QED BY <1>1, <2>1, <2>2, <2>3 DEF Kind
<1>6. CASE bytes \in EscapePair \cup {ARROW, CLICK, PASTE_START} /\ kind = "pasted"
  <2>1. bytes \in Sequences /\ bytes # PASTE_END
    BY <1>6, PairFacts, SequenceFacts DEF Sequences
  <2>2. bytes \in Seq(Byte) /\ Len(bytes) \in Nat \ {0} /\ bytes[1] = ESC /\ bytes # <<ESC>>
    BY <2>1, LongerThanEscape
  <2>. QED BY <1>6, <2>1, <2>2 DEF Kind
<1>2. CASE \E k \in Key : bytes = <<k>> /\ kind = "key"
  BY <1>2, PasteFacts DEF Kind
<1>3. CASE bytes = <<CTRL_BRACKET>> /\ kind = "other"
  BY <1>3, PasteFacts DEF Kind, ESC, CTRL_BRACKET
<1>4. CASE bytes \in {<<ESC>>, ARROW, CLICK} /\ kind = "other"
  <2>1. bytes \in Seq(Byte) /\ Len(bytes) \in Nat \ {0} /\ bytes[1] = ESC
    <3>1. CASE bytes = <<ESC>>
      BY <3>1, PasteFacts
    <3>. QED BY <1>4, <3>1, SequenceFacts
  <2>2. (bytes = <<ESC>> \/ bytes \in Sequences) /\ kind = "other"
    BY <1>4 DEF Sequences
  <2>. QED BY <2>1, <2>2 DEF Kind
<1>5. CASE bytes \in {PASTE_START, PASTE_END} /\ kind = "marker"
  <2>1. bytes \in Seq(Byte) /\ Len(bytes) \in Nat \ {0} /\ bytes[1] = ESC
    BY <1>5, SequenceFacts
  <2>. QED BY <1>5, <2>1 DEF Kind, Sequences
<1>. QED BY <1>1, <1>2, <1>3, <1>4, <1>5, <1>6 DEF IsUnit, Pasted

(* The gate finds the end of a sequence where the terminal has it.         *)
LEMMA SequenceEnds ==
  ASSUME NEW bytes \in Sequences, NEW seq \in Seq(Byte),
         NEW n \in 2..Len(bytes), Len(seq) = n, \A i \in 1..n : seq[i] = bytes[i]
  PROVE  sequence_complete(seq) <=> n = Len(bytes)
<1>4. CASE bytes \in EscapePair
  <2>1. bytes \in Seq(Byte) /\ Len(bytes) = 2 /\ sequence_complete(bytes)
    BY <1>4, PairFacts
  <2>2. n = 2
    BY <2>1
  <2>3. seq = bytes
    BY <2>1, <2>2, SeqEqual
  <2>. QED BY <2>1, <2>2, <2>3
<1>. SUFFICES ASSUME bytes \in {ARROW, CLICK, PASTE_START, PASTE_END}
              PROVE  sequence_complete(seq) <=> n = Len(bytes)
  BY <1>4 DEF Sequences
<1>1. Last(seq) = seq[n]
  BY DEF Last
<1>2. seq[2] = "["
  <2>1. seq[2] = bytes[2]
    OBVIOUS
  <2>. QED BY <2>1, SequenceFacts
<1>3. sequence_complete(seq) <=>
        \/ n >= MAX_SEQUENCE
        \/ n > 2 /\ IF seq[3] = "M" THEN n = 6 ELSE seq[n] \in Final
  BY <1>1, <1>2 DEF sequence_complete, StringIntroducer
<1>5. PICK l \in {3, 4, 6} : l = Len(bytes) /\ n \in 2..l
  BY SequenceFacts
<1>6. n > 2 => seq[3] = bytes[3] /\ seq[n] = bytes[n]
  OBVIOUS
<1>7. CASE bytes = ARROW
  <2>1. l = 3 /\ (n = 3 => seq[n] = "D" /\ seq[3] = "D")
    BY <1>5, <1>6, <1>7, SequenceFacts
  <2>2. n \in {2, 3}
    BY <1>5, <2>1
  <2>. QED BY <1>3, <1>5, <2>1, <2>2, PasteFacts
<1>8. CASE bytes = CLICK
  <2>1. l = 6 /\ (n > 2 => seq[3] = "M")
    BY <1>5, <1>6, <1>8, SequenceFacts
  <2>2. n \in 2..6
    BY <1>5, <2>1
  <2>3. sequence_complete(seq) <=> n >= MAX_SEQUENCE \/ (n > 2 /\ n = 6)
    BY <1>3, <2>1
  <2>. QED BY <1>5, <2>1, <2>2, <2>3, PasteFacts
<1>9. CASE bytes \in {PASTE_START, PASTE_END}
  <2>1. l = 4
    BY <1>5, <1>9, SequenceFacts
  <2>2. n \in {2, 3, 4}
    BY <1>5, <2>1
  <2>3. CASE n = 2
    BY <1>3, <1>5, <2>1, <2>3, PasteFacts
  <2>4. CASE n = 3
    <3>1. seq[n] \in {"200", "201"} /\ seq[3] \in {"200", "201"}
      BY <1>6, <1>9, <2>4, SequenceFacts
    <3>. QED BY <1>3, <1>5, <2>1, <2>4, <3>1, PasteFacts
  <2>5. CASE n = 4
    <3>1. seq[n] = "~" /\ seq[3] \in {"200", "201"}
      BY <1>6, <1>9, <2>5, SequenceFacts
    <3>. QED BY <1>3, <1>5, <2>1, <2>5, <3>1, PasteFacts
  <2>. QED BY <2>2, <2>3, <2>4, <2>5
<1>. QED BY <1>7, <1>8, <1>9

(* What one token does to the lock, the window and the pending hotkey.     *)
LEMMA HandleSwitches ==
  ASSUME IInv, NEW token, NEW o, handle(token, o)
  PROVE  /\ locked /\ ~locked' => IsPhraseKey(token)
         /\ locked /\ locked' =>
              typed' = IF Phrase # <<>> /\ IsPhraseKey(token) THEN Remember(token[1]) ELSE <<>>
         /\ ~locked /\ locked' => prefix # <<>> /\ IsL(token) /\ typed' = <<>>
         /\ prefix' # <<>> => ~Pasting(token)
         /\ in_paste' = IF token = PASTE_START THEN TRUE
                        ELSE IF token = PASTE_END THEN FALSE ELSE in_paste
<1>1. in_paste' = IF token = PASTE_START THEN TRUE
                  ELSE IF token = PASTE_END THEN FALSE ELSE in_paste
  BY DEF handle
<1>2. CASE locked /\ handle_locked(token, o)
  <2>1. prefix = <<>> /\ prefix' = <<>>
    BY <1>2 DEF handle_locked, IInv, PrefixOnlyUnlocked
  <2>2. CASE Phrase = <<>>
    <3>1. Len(Phrase) = 0 /\ typed \in Seq(Printable)
      BY <2>2 DEF IInv, TypeOK
    <3>2. typed = <<>>
      BY <3>1, EmptySeq, LenProperties DEF IInv, TypedOnlyLocked
    <3>. QED BY <1>1, <1>2, <2>1, <2>2, <3>2 DEF handle_locked
  <2>3. CASE Phrase # <<>>
    BY <1>1, <1>2, <2>1, <2>3 DEF handle_locked
  <2>. QED BY <2>2, <2>3
<1>3. CASE ~locked /\ handle_unlocked(token, o)
  <2>1. CASE prefix # <<>> /\ IsL(token) /\ locked' = TRUE /\ prefix' = <<>> /\ typed' = <<>>
    BY <1>1, <1>3, <2>1
  <2>2. CASE prefix' = <<>> /\ locked' = locked
    BY <1>1, <1>3, <2>2
  <2>3. CASE ~Pasting(token) /\ locked' = locked
    BY <1>1, <1>3, <2>3
  <2>4. CASE prefix = <<>> /\ UNCHANGED <<locked, prefix, typed>>
    BY <1>1, <1>3, <2>4
  <2>. QED BY <1>3, <2>1, <2>2, <2>3, <2>4 DEF handle_unlocked
<1>. QED BY <1>2, <1>3 DEF handle

-------------------------------------------------------------------------------
(* The steps.                                                              *)

(* The places of a queue, and the items there.                             *)
LEMMA QueueFacts ==
  ASSUME Queue
  PROVE  /\ DOMAIN tty = 1..Len(tty) /\ Len(tty) \in Nat
         /\ \A i \in 1..Len(tty) : tty[i] \in Item
         /\ tty = <<>> <=> Len(tty) = 0
         /\ tty # <<>> => /\ Head(tty) = tty[1] /\ 1 \in 1..Len(tty)
                          /\ Tail(tty) \in Seq(Item) /\ Len(Tail(tty)) = Len(tty) - 1
                          /\ \A i \in 1..Len(tty) - 1 : Tail(tty)[i] = tty[i + 1]
<1>1. tty \in Seq(Item)
  BY DEF Queue
<1>2. /\ DOMAIN tty = 1..Len(tty) /\ Len(tty) \in Nat
      /\ \A i \in 1..Len(tty) : tty[i] \in Item
  BY <1>1, LenProperties, ElementOfSeq
<1>3. tty = <<>> <=> Len(tty) = 0
  BY <1>1, EmptySeq
<1>4. ASSUME tty # <<>>
      PROVE  /\ Head(tty) = tty[1] /\ 1 \in 1..Len(tty)
             /\ Tail(tty) \in Seq(Item) /\ Len(Tail(tty)) = Len(tty) - 1
             /\ \A i \in 1..Len(tty) - 1 : Tail(tty)[i] = tty[i + 1]
  <2>1. /\ Tail(tty) \in Seq(Item) /\ Len(Tail(tty)) = Len(tty) - 1
        /\ \A i \in 1..Len(Tail(tty)) : Tail(tty)[i] = tty[i + 1]
    BY <1>1, <1>4, HeadTailProperties
  <2>2. 1 \in 1..Len(tty) /\ Head(tty) = tty[1]
    BY <1>2, <1>3, <1>4
  <2>. QED BY <2>1, <2>2
<1>. QED BY <1>2, <1>3, <1>4

(* A unit as it is sent.                                                   *)
LEMMA UnitSent ==
  ASSUME NEW bytes, NEW kind, IsUnit(bytes, kind), NEW n, n = Len(bytes)
  PROVE  /\ n \in Nat \ {0} /\ Unit(bytes, kind) \in Seq(Item) /\ Len(Unit(bytes, kind)) = n
         /\ \A i \in 1..n : /\ Unit(bytes, kind)[i] \in Item
                            /\ Unit(bytes, kind)[i].bytes = bytes
                            /\ Unit(bytes, kind)[i].at = i
                            /\ Unit(bytes, kind)[i].kind = kind
<1>1. bytes \in Seq(Byte) /\ kind \in Kind /\ n \in Nat \ {0} /\ DOMAIN bytes = 1..n
  BY UnitFacts, LenProperties
<1>2. Unit(bytes, kind) = [i \in 1..n |-> [bytes |-> bytes, at |-> i, kind |-> kind]]
  BY <1>1 DEF Unit
<1>3. \A i \in 1..n : [bytes |-> bytes, at |-> i, kind |-> kind] \in Item
  BY <1>1 DEF Item
<1>. QED BY <1>1, <1>2, <1>3

(* What may be sent: in a paste more of it or its end.                     *)
LEMMA SendsUnits ==
  ASSUME NEW s \in Sends, pasting \in BOOLEAN
  PROVE  \E bytes, kind :
           /\ IsUnit(bytes, kind) /\ s[1] = Unit(bytes, kind)
           /\ \A e \in Item : e.bytes = bytes /\ e.kind = kind =>
                Before(e) = pasting /\ After(e) = s[2]
           /\ s[2] \in BOOLEAN
<1>. DEFINE Good(bytes, kind) ==
              /\ IsUnit(bytes, kind) /\ s[1] = Unit(bytes, kind)
              /\ \A e \in Item : e.bytes = bytes /\ e.kind = kind =>
                   Before(e) = pasting /\ After(e) = s[2]
              /\ s[2] \in BOOLEAN
<1>1. ASSUME pasting, NEW bytes \in Pasted, s = <<Unit(bytes, "pasted"), TRUE>>
      PROVE  Good(bytes, "pasted")
  BY <1>1 DEF IsUnit, Before, After
<1>2. ASSUME pasting, s = <<Unit(PASTE_END, "marker"), FALSE>>
      PROVE  Good(PASTE_END, "marker")
  BY <1>2, SequenceFacts DEF IsUnit, Before, After
<1>3. ASSUME ~pasting, NEW k \in Key, s = <<Unit(<<k>>, "key"), FALSE>>
      PROVE  Good(<<k>>, "key")
  <2>1. <<k>> # PASTE_START /\ <<k>> # PASTE_END
    BY DEF PASTE_START, PASTE_END
  <2>. QED BY <1>3, <2>1 DEF IsUnit, Before, After
<1>4. ASSUME ~pasting, NEW bytes \in {<<CTRL_BRACKET>>, <<ESC>>, ARROW, CLICK},
             s = <<Unit(bytes, "other"), FALSE>>
      PROVE  Good(bytes, "other")
  <2>1. bytes # PASTE_START /\ bytes # PASTE_END
    BY DEF PASTE_START, PASTE_END, ARROW, CLICK
  <2>. QED BY <1>4, <2>1 DEF IsUnit, Before, After
<1>5. ASSUME ~pasting, s = <<Unit(PASTE_START, "marker"), TRUE>>
      PROVE  Good(PASTE_START, "marker")
  BY <1>5, SequenceFacts DEF IsUnit, Before, After
<1>6. \E bytes, kind : Good(bytes, kind)
  <2>. HIDE DEF Good
  <2>1. CASE pasting
    <3>1. \/ \E bytes \in Pasted : s = <<Unit(bytes, "pasted"), TRUE>>
          \/ s = <<Unit(PASTE_END, "marker"), FALSE>>
      BY <2>1 DEF Sends
    <3>2. CASE \E bytes \in Pasted : s = <<Unit(bytes, "pasted"), TRUE>>
      BY <1>1, <2>1, <3>2
    <3>3. CASE s = <<Unit(PASTE_END, "marker"), FALSE>>
      BY <1>2, <2>1, <3>3
    <3>. QED BY <3>1, <3>2, <3>3
  <2>2. CASE ~pasting
    <3>1. \/ \E k \in Key : s = <<Unit(<<k>>, "key"), FALSE>>
          \/ \E bytes \in {<<CTRL_BRACKET>>, <<ESC>>, ARROW, CLICK} :
               s = <<Unit(bytes, "other"), FALSE>>
          \/ s = <<Unit(PASTE_START, "marker"), TRUE>>
      BY <2>2 DEF Sends
    <3>2. CASE \E k \in Key : s = <<Unit(<<k>>, "key"), FALSE>>
      BY <1>3, <2>2, <3>2
    <3>3. CASE \E bytes \in {<<CTRL_BRACKET>>, <<ESC>>, ARROW, CLICK} :
                 s = <<Unit(bytes, "other"), FALSE>>
      BY <1>4, <2>2, <3>3
    <3>4. CASE s = <<Unit(PASTE_START, "marker"), TRUE>>
      BY <1>5, <2>2, <3>4
    <3>. QED BY <3>1, <3>2, <3>3, <3>4
  <2>. QED BY <2>1, <2>2
<1>. QED BY <1>6

(* The terminal sends a unit: the queue stays one of units, and the gate   *)
(* need not look at it yet.                                                *)
LEMMA SendKeeps ==
  ASSUME PasteInv, Pace, Send
  PROVE  Queue' /\ Reading' /\ Belief' /\ Window'
<1>1. Queue /\ Reading /\ Belief /\ Window
  BY DEF PasteInv
<1>2. /\ UNCHANGED <<locked, partial, prefix, typed, in_paste, out, unread, keys>>
      /\ IF tty = <<>> THEN partial = <<>> ELSE Sent(tty[Len(tty)]) # ESC
  <2>1. tty # <<>> => Last(tty) = tty[Len(tty)]
    BY DEF Last
  <2>. QED BY <2>1 DEF Send, vars, held
<1>3. PICK s \in Sends : tty' = tty \o s[1] /\ pasting' = s[2]
  BY DEF Send
<1>4. PICK bytes, kind :
        /\ IsUnit(bytes, kind) /\ s[1] = Unit(bytes, kind)
        /\ \A e \in Item : e.bytes = bytes /\ e.kind = kind =>
             Before(e) = pasting /\ After(e) = s[2]
        /\ s[2] \in BOOLEAN
  BY <1>1, SendsUnits DEF Belief
<1>. DEFINE u == s[1]
<1>5. PICK n \in Nat \ {0} : /\ n = Len(bytes) /\ u \in Seq(Item) /\ Len(u) = n
                             /\ \A i \in 1..n : /\ u[i] \in Item /\ u[i].bytes = bytes
                                                /\ u[i].at = i /\ u[i].kind = kind
                                                /\ Before(u[i]) = pasting /\ After(u[i]) = pasting'
  <2>1. PICK n : n = Len(bytes)
    OBVIOUS
  <2>2. /\ n \in Nat \ {0} /\ Unit(bytes, kind) \in Seq(Item) /\ Len(Unit(bytes, kind)) = n
        /\ \A i \in 1..n : /\ Unit(bytes, kind)[i] \in Item
                            /\ Unit(bytes, kind)[i].bytes = bytes
                            /\ Unit(bytes, kind)[i].at = i
                            /\ Unit(bytes, kind)[i].kind = kind
    BY <1>4, <2>1, UnitSent
  <2>3. ASSUME NEW i \in 1..n
        PROVE  /\ Before(Unit(bytes, kind)[i]) = pasting
               /\ After(Unit(bytes, kind)[i]) = s[2]
    BY <1>4, <2>2
  <2>4. u = Unit(bytes, kind)
    BY <1>4
  <2>. HIDE DEF u
  <2>. QED BY <1>3, <2>1, <2>2, <2>3, <2>4
<1>0. tty' = tty \o u /\ tty \in Seq(Item)
  BY <1>1, <1>3 DEF Queue
<1>. HIDE DEF u
<1>6. PICK m \in Nat : /\ m = Len(tty) /\ (tty = <<>> <=> m = 0)
                       /\ \A i \in 1..m : tty[i] \in Item
  BY <1>1, QueueFacts
<1>7. /\ tty' \in Seq(Item) /\ Len(tty') = m + n
      /\ \A i \in 1..m + n : tty'[i] = IF i <= m THEN tty[i] ELSE u[i - m]
  <2>1. /\ tty \o u \in Seq(Item) /\ Len(tty \o u) = Len(tty) + Len(u)
        /\ \A i \in 1..Len(tty) + Len(u) :
             (tty \o u)[i] = IF i <= Len(tty) THEN tty[i] ELSE u[i - Len(tty)]
    BY <1>0, <1>5, ConcatProperties
  <2>2. Len(tty) = m /\ Len(u) = n
    BY <1>5, <1>6
  <2>. QED BY <1>0, <2>1, <2>2
<1>8. ASSUME NEW i \in 1..m + n, i + 1 \in 1..m + n
      PROVE  Follows(tty'[i], tty'[i + 1])
  <2>1. CASE i < m
    <3>1. i \in 1..m /\ i + 1 \in 1..m /\ tty'[i] = tty[i] /\ tty'[i + 1] = tty[i + 1]
      BY <1>7, <1>8, <2>1
    <3>. QED BY <1>1, <1>6, <3>1 DEF Queue
  <2>2. CASE i = m
    <3>1. i \in 1..m /\ tty'[i] = tty[m] /\ 1 \in 1..n /\ tty'[i + 1] = u[1]
      BY <1>7, <1>8, <2>2
    <3>2. tty[m].at = Len(tty[m].bytes) /\ After(tty[m]) = pasting /\ tty[m] \in Item
      BY <1>1, <1>6, <2>2, <3>1 DEF Queue
    <3>3. tty[m].bytes # <<ESC>>
      <4>1. SUFFICES ASSUME tty[m].bytes = <<ESC>> PROVE FALSE
        OBVIOUS
      <4>2. tty[m].at = 1 /\ tty[m].bytes[1] = ESC
        BY <3>2, <4>1
      <4>3. Sent(tty[m]) # ESC
        BY <1>2, <1>6, <2>2, <3>1
      <4>. QED BY <4>2, <4>3 DEF Sent
    <3>4. u[1].at = 1 /\ Before(u[1]) = pasting
      BY <1>5, <3>1
    <3>. QED BY <3>1, <3>2, <3>3, <3>4 DEF Follows
  <2>3. CASE i > m
    <3>1. /\ i - m \in 1..n /\ (i - m) + 1 \in 1..n /\ i - m < n
          /\ tty'[i] = u[i - m] /\ tty'[i + 1] = u[(i - m) + 1]
      <4>1. (i + 1) - m = (i - m) + 1 /\ ~(i + 1 <= m) /\ ~(i <= m)
        BY <2>3
      <4>. QED BY <1>7, <1>8, <2>3, <4>1
    <3>2. /\ u[i - m].at = i - m /\ u[i - m].bytes = bytes /\ u[i - m].kind = kind
          /\ u[(i - m) + 1].at = (i - m) + 1 /\ u[(i - m) + 1].bytes = bytes
          /\ u[(i - m) + 1].kind = kind
      BY <1>5, <3>1
    <3>3. i - m # Len(bytes)
      BY <1>5, <3>1
    <3>. QED BY <3>1, <3>2, <3>3 DEF Follows
  <2>. QED BY <2>1, <2>2, <2>3
<1>9. tty'[m + n].at = Len(tty'[m + n].bytes) /\ After(tty'[m + n]) = pasting'
  <2>1. tty'[m + n] = u[n] /\ n \in 1..n
    <3>1. ~(m + n <= m) /\ (m + n) - m = n /\ m + n \in 1..m + n
      OBVIOUS
    <3>. QED BY <1>7, <3>1
  <2>. QED BY <1>5, <2>1
<1>10. Queue'
  BY <1>7, <1>8, <1>9 DEF Queue
<1>11. tty' # <<>> /\ 1 \in 1..m + n /\ tty'[1] = IF m = 0 THEN u[1] ELSE tty[1]
  <2>1. Len(tty') # 0 /\ 1 \in 1..m + n /\ (m = 0 => ~(1 <= m) /\ 1 - m = 1) /\ (m # 0 => 1 <= m)
    BY <1>7
  <2>. QED BY <1>7, <2>1, EmptySeq
<1>12. 1 \in 1..n /\ u[1].at = 1 /\ Before(u[1]) = pasting
  BY <1>5
<1>13. CASE m = 0
  <2>1. partial = <<>> /\ Len(partial) = 0 /\ tty = <<>> /\ tty'[1] = u[1]
    BY <1>2, <1>6, <1>11, <1>13, EmptySeq
  <2>2. Reading'
    BY <1>2, <1>11, <1>12, <2>1 DEF Reading
  <2>3. Belief'
    BY <1>1, <1>2, <1>3, <1>4, <1>11, <1>12, <2>1 DEF Belief
  <2>. QED BY <1>1, <1>2, <1>10, <2>2, <2>3 DEF Window
<1>14. CASE m # 0
  <2>1. tty # <<>> /\ tty'[1] = tty[1]
    BY <1>6, <1>11, <1>14
  <2>2. Reading'
    BY <1>1, <1>2, <1>11, <2>1 DEF Reading
  <2>3. Belief'
    BY <1>1, <1>2, <1>3, <1>4, <1>11, <2>1 DEF Belief
  <2>. QED BY <1>1, <1>2, <1>10, <2>2, <2>3 DEF Window
<1>. QED BY <1>13, <1>14

(* The queue after its first byte is read.                                 *)
LEMMA QueueMoves ==
  ASSUME Queue, tty # <<>>, tty' = Tail(tty), pasting' = pasting
  PROVE  /\ Queue' /\ Head(tty) = tty[1] /\ tty[1] \in Item
         /\ tty' = <<>> => tty[1].at = Len(tty[1].bytes) /\ After(tty[1]) = pasting
         /\ tty' # <<>> => Follows(tty[1], tty'[1])
<1>1. PICK m \in Nat \ {0} : m = Len(tty)
  BY QueueFacts
<1>2. /\ Head(tty) = tty[1] /\ tty[1] \in Item
      /\ tty' \in Seq(Item) /\ Len(tty') = m - 1
      /\ \A i \in 1..m - 1 : tty'[i] = tty[i + 1] /\ i + 1 \in 1..m
  BY <1>1, QueueFacts
<1>3. \A i \in 1..m : i + 1 \in 1..m => Follows(tty[i], tty[i + 1])
  BY <1>1 DEF Queue
<1>4. tty[m].at = Len(tty[m].bytes) /\ After(tty[m]) = pasting
  BY <1>1 DEF Queue
<1>5. tty' = <<>> <=> m = 1
  <2>1. tty' = <<>> <=> Len(tty') = 0
    BY <1>2, EmptySeq
  <2>. QED BY <1>1, <1>2, <2>1
<1>6. Queue'
  <2>1. ASSUME NEW i \in 1..m - 1, i + 1 \in 1..m - 1
        PROVE  Follows(tty'[i], tty'[i + 1])
    <3>1. /\ i + 1 \in 1..m /\ (i + 1) + 1 \in 1..m
          /\ tty'[i] = tty[i + 1] /\ tty'[i + 1] = tty[(i + 1) + 1]
      BY <1>2, <2>1
    <3>. QED BY <1>3, <3>1
  <2>2. tty' # <<>> => m - 1 \in 1..m - 1 /\ tty'[m - 1] = tty[m]
    <3>1. m # 1 => m - 1 \in 1..m - 1 /\ (m - 1) + 1 = m
      OBVIOUS
    <3>. QED BY <1>2, <1>5, <3>1
  <2>. QED BY <1>2, <1>4, <2>1, <2>2 DEF Queue
<1>7. tty' # <<>> => Follows(tty[1], tty'[1])
  <2>1. m # 1 => 1 \in 1..m - 1 /\ 1 \in 1..m /\ 1 + 1 \in 1..m
    OBVIOUS
  <2>. QED BY <1>2, <1>3, <1>5, <2>1
<1>. QED BY <1>2, <1>4, <1>5, <1>6, <1>7

(* A byte is a unit, or starts one, ends one, or is within one; the gate   *)
(* takes each for what it is.                                              *)
LEMMA ByteRead ==
  ASSUME PasteInv, tty # <<>>, NEW e, e = tty[1], NEW b, b = Sent(e), FeedByte(b)
  PROVE  \/ /\ partial = <<>> /\ partial' = <<>>
            /\ e.at = 1 /\ e.bytes = <<b>> /\ b # ESC
            /\ handle(<<b>>, out)
         \/ /\ partial # <<>> /\ partial' = <<>>
            /\ e.at = Len(e.bytes) /\ e.bytes \in Sequences
            /\ handle(e.bytes, out)
         \/ /\ partial' # <<>> /\ UNCHANGED <<locked, prefix, typed, in_paste, out>>
            /\ Len(partial') = e.at /\ \A i \in 1..e.at : partial'[i] = e.bytes[i]
            /\ e.bytes = <<ESC>> \/ e.bytes \in Sequences
            /\ e.at = Len(e.bytes) => partial' = <<ESC>> /\ e.bytes = <<ESC>>
<1>1. /\ e \in Item /\ partial \in Seq(Byte)
      /\ Len(partial) + 1 = e.at /\ \A i \in 1..Len(partial) : partial[i] = e.bytes[i]
  <2>1. e \in Item
    BY QueueFacts DEF PasteInv
  <2>. QED BY <2>1 DEF PasteInv, Reading, IInv, TypeOK
<1>2. PICK l \in Nat \ {0} : l = Len(e.bytes) /\ e.at \in 1..l /\ IsUnit(e.bytes, e.kind)
  BY <1>1, UnitFacts DEF Item
<1>3. PICK p \in Nat : p = Len(partial) /\ e.at = p + 1 /\ (partial = <<>> <=> p = 0)
  BY <1>1, EmptySeq, LenProperties
<1>4. b = e.bytes[p + 1] /\ b \in Byte
  <2>1. e.bytes \in Seq(Byte) /\ p + 1 \in 1..l
    BY <1>2, <1>3, UnitFacts
  <2>. QED BY <1>2, <1>3, <2>1, ElementOfSeq DEF Sent
<1>. DEFINE seq == Append(partial, b)
<1>5. seq \in Seq(Byte) /\ Len(seq) = p + 1 /\ \A i \in 1..p + 1 : seq[i] = e.bytes[i]
  <2>1. /\ seq \in Seq(Byte) /\ Len(seq) = Len(partial) + 1
        /\ \A i \in 1..Len(partial) : seq[i] = partial[i]
        /\ seq[Len(partial) + 1] = b
    BY <1>1, <1>4, AppendProperties
  <2>2. \A i \in 1..p + 1 : i \in 1..p \/ i = p + 1
    OBVIOUS
  <2>. HIDE DEF seq
  <2>. QED BY <1>1, <1>3, <1>4, <2>1, <2>2
<1>6. CASE p = 0
  <2>1. partial = <<>> /\ e.at = 1 /\ b = e.bytes[1] /\ seq = <<b>>
    BY <1>3, <1>4, <1>6
  <2>2. CASE b # ESC
    <3>1. e.bytes = <<b>>
      BY <1>2, <2>1, <2>2, UnitFacts
    <3>2. handle(<<b>>, out) /\ partial' = <<>>
      BY <2>1, <2>2 DEF FeedByte
    <3>. QED BY <2>1, <2>2, <3>1, <3>2
  <2>3. CASE b = ESC
    <3>1. e.bytes = <<ESC>> \/ e.bytes \in Sequences
      BY <1>2, <2>1, <2>3, UnitFacts
    <3>2. /\ UNCHANGED <<locked, prefix, typed, in_paste, out>> /\ partial' = seq
      BY <2>1, <2>3 DEF FeedByte
    <3>3. e.at = Len(e.bytes) => e.bytes = <<ESC>>
      <4>1. e.bytes \in Sequences => Len(e.bytes) # 1
        BY LongerThanEscape
      <4>. QED BY <2>1, <3>1, <4>1
    <3>4. Len(partial') = e.at /\ \A i \in 1..e.at : partial'[i] = e.bytes[i]
      <4>. HIDE DEF seq
      <4>. QED BY <1>3, <1>5, <3>2
    <3>5. partial' # <<>> /\ partial' = <<ESC>>
      BY <2>1, <2>3, <3>2
    <3>. QED BY <3>1, <3>2, <3>3, <3>4, <3>5
  <2>. QED BY <2>2, <2>3
<1>7. CASE p # 0
  <2>1. partial # <<>> /\ p + 1 \in 2..l
    BY <1>2, <1>3, <1>7
  <2>2. e.bytes \in Sequences
    <3>1. e.bytes[1] = ESC
      <4>1. partial[1] = ESC
        BY <2>1 DEF PasteInv, IInv, PartialIncomplete
      <4>2. 1 \in 1..p
        BY <1>7
      <4>. QED BY <1>1, <1>3, <4>1, <4>2
    <3>2. e.bytes = <<ESC>> \/ e.bytes \in Sequences
      BY <1>2, <3>1, UnitFacts
    <3>3. e.bytes # <<ESC>>
      <4>1. SUFFICES ASSUME e.bytes = <<ESC>> PROVE FALSE
        OBVIOUS
      <4>2. l = 1
        BY <1>2, <4>1
      <4>. QED BY <2>1, <4>2
    <3>. QED BY <3>2, <3>3
  <2>3. sequence_complete(seq) <=> p + 1 = l
    <3>. HIDE DEF seq
    <3>. QED BY <1>2, <1>5, <2>1, <2>2, SequenceEnds
  <2>4. CASE p + 1 = l
    <3>1. seq = e.bytes
      <4>1. e.bytes \in Seq(Byte)
        BY <1>2, UnitFacts
      <4>. HIDE DEF seq
      <4>. QED BY <1>2, <1>5, <2>4, <4>1, SeqEqual
    <3>2. partial' = <<>> /\ handle(seq, out)
      BY <2>1, <2>3, <2>4 DEF FeedByte
    <3>. QED BY <1>2, <1>3, <2>1, <2>2, <2>4, <3>1, <3>2
  <2>5. CASE p + 1 # l
    <3>1. UNCHANGED <<locked, prefix, typed, in_paste, out>> /\ partial' = seq
      BY <2>1, <2>3, <2>5 DEF FeedByte
    <3>2. Len(partial') = e.at /\ \A i \in 1..e.at : partial'[i] = e.bytes[i]
      <4>. HIDE DEF seq
      <4>. QED BY <1>3, <1>5, <3>1
    <3>3. partial' # <<>>
      <4>1. Len(partial') # 0
        BY <1>3, <3>2
      <4>. QED BY <4>1, EmptySeq
    <3>4. e.at # Len(e.bytes)
      BY <1>2, <1>3, <2>5
    <3>. QED BY <2>2, <3>1, <3>2, <3>3, <3>4
  <2>. QED BY <2>4, <2>5
<1>. QED BY <1>6, <1>7

(* The user's view moves as the gate's window does.                        *)
LEMMA SameWindow ==
  ASSUME IInv, NEW e \in Item, e.kind = "key", NEW b, b = Sent(e), b \in Printable, keys = typed
  PROVE  KeysAfter(e) = IF Phrase # <<>> THEN Remember(b) ELSE <<>>
<1>1. /\ typed \in Seq(Printable) /\ Len(typed) \in Nat
      /\ Phrase \in Seq(Printable) /\ Len(Phrase) \in Nat
      /\ Phrase = <<>> <=> Len(Phrase) = 0
      /\ typed = <<>> <=> Len(typed) = 0
  BY ConstantFacts, EmptySeq, LenProperties DEF IInv, TypeOK
<1>2. Len(typed) <= Len(Phrase)
  BY <1>1 DEF IInv, TypedOnlyLocked
<1>3. KeysAfter(e) = IF Len(Append(typed, b)) > Len(Phrase) THEN Tail(Append(typed, b))
                     ELSE Append(typed, b)
  BY DEF KeysAfter
<1>4. Append(typed, b) \in Seq(Printable) /\ Len(Append(typed, b)) = Len(typed) + 1
  BY <1>1, AppendProperties
<1>5. CASE Len(typed) # Len(Phrase)
  <2>1. Len(typed) < Len(Phrase)
    BY <1>1, <1>2, <1>5
  <2>2. KeysAfter(e) = Append(typed, b)
    BY <1>1, <1>3, <1>4, <2>1
  <2>3. Phrase # <<>>
    BY <1>1, <2>1
  <2>. QED BY <1>5, <2>2, <2>3 DEF Remember
<1>6. CASE Len(typed) = Len(Phrase)
  <2>1. KeysAfter(e) = Tail(Append(typed, b))
    BY <1>1, <1>3, <1>4, <1>6
  <2>2. CASE typed = <<>>
    <3>1. Append(typed, b) = <<b>> /\ Tail(<<b>>) = <<>> /\ Phrase = <<>>
      BY <1>1, <1>6, <2>2
    <3>. QED BY <2>1, <3>1
  <2>3. CASE typed # <<>>
    <3>1. Tail(Append(typed, b)) = Append(Tail(typed), b)
      <4>1. /\ Tail(typed) \in Seq(Printable) /\ Len(Tail(typed)) = Len(typed) - 1
            /\ \A i \in 1..Len(Tail(typed)) : Tail(typed)[i] = typed[i + 1]
        BY <1>1, <2>3, HeadTailProperties
      <4>2. PICK n \in Nat : Len(typed) = n + 1
        BY <1>1, <2>3
      <4>3. /\ Append(typed, b) # <<>>
            /\ Append(typed, b) \in Seq(Printable) /\ Len(Append(typed, b)) = n + 2
            /\ \A i \in 1..n + 1 : Append(typed, b)[i] = typed[i]
            /\ Append(typed, b)[n + 2] = b
        <5>1. (n + 1) + 1 = n + 2 /\ n + 2 # 0
          OBVIOUS
        <5>. QED BY <1>1, <4>2, <5>1, AppendProperties, EmptySeq
      <4>4. PICK s \in Seq(Printable) : s = Append(typed, b)
        BY <1>4
      <4>5. /\ Tail(s) \in Seq(Printable) /\ Len(Tail(s)) = n + 1
            /\ \A i \in 1..n + 1 : Tail(s)[i] = s[i + 1]
        <5>1. /\ Tail(s) \in Seq(Printable) /\ Len(Tail(s)) = Len(s) - 1
              /\ \A i \in 1..Len(Tail(s)) : Tail(s)[i] = s[i + 1]
          BY <4>3, <4>4, HeadTailProperties
        <5>2. Len(s) - 1 = n + 1
          BY <4>3, <4>4
        <5>. QED BY <5>1, <5>2
      <4>6. PICK r \in Seq(Printable) : r = Tail(typed)
        BY <4>1
      <4>7. /\ Append(r, b) \in Seq(Printable) /\ Len(Append(r, b)) = n + 1
            /\ \A i \in 1..n : Append(r, b)[i] = typed[i + 1]
            /\ Append(r, b)[n + 1] = b
        <5>1. Len(r) = n /\ \A i \in 1..n : r[i] = typed[i + 1]
          <6>1. Len(r) = n
            BY <4>1, <4>2, <4>6
          <6>. QED BY <4>1, <4>6, <6>1
        <5>. QED BY <5>1, AppendProperties
      <4>8. ASSUME NEW i \in 1..n + 1 PROVE Tail(s)[i] = Append(r, b)[i]
        <5>1. CASE i \in 1..n
          <6>1. i + 1 \in 1..n + 1
            BY <5>1
          <6>. QED BY <4>3, <4>4, <4>5, <4>7, <5>1, <6>1
        <5>2. CASE i = n + 1
          <6>1. i \in 1..n + 1 /\ i + 1 = n + 2
            BY <5>2
          <6>2. Tail(s)[i] = s[n + 2]
            BY <4>5, <6>1
          <6>3. s[n + 2] = b
            BY <4>3, <4>4
          <6>. QED BY <4>7, <5>2, <6>2, <6>3
        <5>3. i \in 1..n \/ i = n + 1
          OBVIOUS
        <5>. QED BY <5>1, <5>2, <5>3
      <4>9. Tail(s) = Append(r, b)
        BY <4>5, <4>7, <4>8, SeqEqual
      <4>. QED BY <4>4, <4>6, <4>9
    <3>2. Phrase # <<>>
      BY <1>1, <1>6, <2>3
    <3>. QED BY <1>6, <2>1, <3>1, <3>2 DEF Remember
  <2>. QED BY <2>2, <2>3
<1>. QED BY <1>5, <1>6

(* What a byte can do to the lock: a pasted byte nothing, and no other     *)
(* than a typed key unlocks.                                               *)
Harmless ==
  /\ truth' = "pasted" => locked' = locked /\ (prefix' # <<>> => prefix' = prefix)
  /\ locked /\ ~locked' => truth' = "key"

(* A byte read keeps the invariant and does no more to the lock than it    *)
(* may.                                                                    *)
LEMMA ByteKeeps ==
  ASSUME PasteInv, PFeedByte
  PROVE  Queue' /\ Reading' /\ Belief' /\ Window' /\ Harmless
<1>. DEFINE e == tty[1]
            b == Sent(e)
<1>1. /\ Queue /\ Reading /\ Belief /\ Window /\ IInv
      /\ tty # <<>> /\ Head(tty) = e /\ tty' = Tail(tty) /\ pasting' = pasting
      /\ FeedByte(b) /\ truth' = e.kind
      /\ keys' = IF locked THEN KeysAfter(e) ELSE <<>>
  <2>1. tty # <<>> => Head(tty) = tty[1]
    BY QueueFacts DEF PasteInv
  <2>. QED BY <2>1 DEF PFeedByte, PasteInv
<1>2. /\ Queue' /\ e \in Item
      /\ tty' = <<>> => e.at = Len(e.bytes) /\ After(e) = pasting
      /\ tty' # <<>> => Follows(e, tty'[1])
  BY <1>1, QueueMoves
<1>3. IsUnit(e.bytes, e.kind) /\ e.kind \in Kind /\ in_paste = Before(e) /\ pasting \in BOOLEAN
  BY <1>1, <1>2, UnitFacts DEF Item, Belief
<1>4. \/ /\ partial = <<>> /\ partial' = <<>>
         /\ e.at = 1 /\ e.bytes = <<b>> /\ b # ESC
         /\ handle(<<b>>, out)
      \/ /\ partial # <<>> /\ partial' = <<>>
         /\ e.at = Len(e.bytes) /\ e.bytes \in Sequences
         /\ handle(e.bytes, out)
      \/ /\ partial' # <<>> /\ UNCHANGED <<locked, prefix, typed, in_paste, out>>
         /\ Len(partial') = e.at /\ \A i \in 1..e.at : partial'[i] = e.bytes[i]
         /\ e.bytes = <<ESC>> \/ e.bytes \in Sequences
         /\ e.at = Len(e.bytes) => partial' = <<ESC>> /\ e.bytes = <<ESC>>
  BY <1>1, ByteRead
<1>. HIDE DEF b, e
(* What a unit that has been taken leaves.                                 *)
<1>5. ASSUME partial' = <<>>, e.at = Len(e.bytes), e.bytes # <<ESC>>, in_paste' = After(e),
             in_paste' => prefix' = <<>>
      PROVE  Reading' /\ Belief'
  <2>1. CASE tty' = <<>>
    BY <1>1, <1>2, <1>3, <1>5, <2>1 DEF Reading, Belief
  <2>2. CASE tty' # <<>>
    <3>1. tty'[1].at = 1 /\ Before(tty'[1]) = After(e)
      BY <1>2, <1>5, <2>2 DEF Follows
    <3>2. Len(partial') = 0 /\ \A i \in 1..Len(partial') : FALSE
      BY <1>5
    <3>. QED BY <1>1, <1>3, <1>5, <2>2, <3>1, <3>2 DEF Reading, Belief
  <2>. QED BY <2>1, <2>2
<1>6. CASE /\ partial = <<>> /\ partial' = <<>>
           /\ e.at = 1 /\ e.bytes = <<b>> /\ b # ESC
           /\ handle(<<b>>, out)
  <2>1. /\ Len(e.bytes) = 1 /\ e.bytes # <<ESC>> /\ e.bytes[1] = b
        /\ <<b>> # PASTE_START /\ <<b>> # PASTE_END
    BY <1>6 DEF PASTE_START, PASTE_END
  <2>2. /\ e.kind \in {"key", "pasted", "other"}
        /\ e.kind = "key" => b \in Printable
        /\ e.kind = "other" => b \notin Printable
    BY <1>3, <1>6, <2>1, UnitFacts
  <2>3. Before(e) = (e.kind = "pasted") /\ After(e) = (e.kind = "pasted")
    BY <1>6, <2>1 DEF Before, After
  <2>4. /\ in_paste' = in_paste
        /\ locked /\ ~locked' => IsPhraseKey(<<b>>)
        /\ locked /\ locked' =>
             typed' = IF Phrase # <<>> /\ IsPhraseKey(<<b>>) THEN Remember(<<b>>[1]) ELSE <<>>
        /\ ~locked /\ locked' => prefix # <<>> /\ typed' = <<>>
        /\ prefix' # <<>> => ~Pasting(<<b>>)
    BY <1>1, <1>6, <2>1, HandleSwitches
  <2>5. (IsPhraseKey(<<b>>) <=> e.kind = "key") /\ (Pasting(<<b>>) <=> in_paste)
    BY <1>3, <2>1, <2>2, <2>3 DEF IsPhraseKey, Pasting
  <2>6. Reading' /\ Belief'
    <3>1. in_paste' => prefix' = <<>>
      BY <2>4, <2>5
    <3>. QED BY <1>3, <1>5, <1>6, <2>1, <2>3, <2>4, <3>1
  <2>7. Window'
    <3>1. CASE ~locked
      BY <1>1, <1>6, <2>4, <3>1 DEF Window
    <3>2. CASE locked /\ locked' /\ e.kind = "key"
      <4>1. keys = typed
        BY <1>1, <1>6, <3>2 DEF Window
      <4>2. KeysAfter(e) = IF Phrase # <<>> THEN Remember(b) ELSE <<>>
        BY <1>1, <1>2, <2>2, <3>2, <4>1, SameWindow DEF b
      <4>. QED BY <1>1, <1>6, <2>4, <2>5, <3>2, <4>2 DEF Window
    <3>3. CASE locked /\ e.kind # "key"
      BY <1>1, <1>6, <2>4, <2>5, <3>3 DEF Window, KeysAfter
    <3>4. CASE ~locked'
      BY <3>4 DEF Window
    <3>. QED BY <3>1, <3>2, <3>3, <3>4
  <2>8. Harmless
    <3>1. locked \in BOOLEAN /\ locked' \in BOOLEAN
      BY <1>1, <1>6 DEF IInv, TypeOK, handle, handle_locked, handle_unlocked
    <3>2. locked /\ ~locked' => truth' = "key"
      BY <1>1, <2>4, <2>5
    <3>3. ASSUME truth' = "pasted"
          PROVE  locked' = locked /\ prefix' = <<>>
      <4>1. in_paste /\ prefix = <<>>
        BY <1>1, <1>3, <2>3, <3>3 DEF Belief
      <4>. QED BY <1>1, <2>4, <2>5, <3>1, <3>3, <4>1
    <3>. QED BY <3>2, <3>3 DEF Harmless
  <2>. QED BY <1>2, <2>6, <2>7, <2>8
<1>7. CASE /\ partial # <<>> /\ partial' = <<>>
           /\ e.at = Len(e.bytes) /\ e.bytes \in Sequences
           /\ handle(e.bytes, out)
  <2>1. /\ e.kind \in {"other", "marker", "pasted"} /\ e.bytes # <<ESC>> /\ Len(e.bytes) # 1
        /\ e.kind = "marker" => e.bytes \in {PASTE_START, PASTE_END}
        /\ e.kind = "pasted" => e.bytes # PASTE_END
    <3>1. e.bytes[1] = ESC /\ Len(e.bytes) # 1 /\ e.bytes # <<ESC>>
      BY <1>7, LongerThanEscape
    <3>. QED BY <1>3, <3>1, UnitFacts
  <2>2. /\ locked /\ ~locked' => IsPhraseKey(e.bytes)
        /\ locked /\ locked' =>
             typed' = IF Phrase # <<>> /\ IsPhraseKey(e.bytes) THEN Remember(e.bytes[1]) ELSE <<>>
        /\ ~locked /\ locked' => typed' = <<>>
        /\ prefix' # <<>> => ~Pasting(e.bytes)
        /\ in_paste' = IF e.bytes = PASTE_START THEN TRUE
                       ELSE IF e.bytes = PASTE_END THEN FALSE ELSE in_paste
    BY <1>1, <1>7, HandleSwitches
  <2>3. ~IsPhraseKey(e.bytes)
    BY <2>1 DEF IsPhraseKey
  <2>4. in_paste' = After(e)
    <3>1. in_paste = (e.kind = "pasted" \/ e.bytes = PASTE_END)
      BY <1>3 DEF Before
    <3>2. After(e) = (e.kind = "pasted" \/ e.bytes = PASTE_START)
      BY DEF After
    <3>. QED BY <2>1, <2>2, <3>1, <3>2, SequenceFacts
  <2>5. in_paste' => prefix' = <<>>
    BY <2>2 DEF Pasting
  <2>6. Reading' /\ Belief'
    BY <1>5, <1>7, <2>1, <2>4, <2>5
  <2>7. keys' = <<>>
    BY <1>1, <2>1 DEF KeysAfter
  <2>8. Window'
    BY <1>1, <1>7, <2>1, <2>2, <2>3, <2>7 DEF Window
  <2>9. Harmless
    <3>1. locked \in BOOLEAN /\ locked' \in BOOLEAN
      BY <1>1, <1>7 DEF IInv, TypeOK, handle, handle_locked, handle_unlocked
    <3>2. ~(locked /\ ~locked')
      BY <2>2, <2>3
    <3>3. ASSUME truth' = "pasted"
          PROVE  locked' = locked /\ prefix' = <<>>
      <4>1. in_paste /\ prefix = <<>>
        BY <1>1, <1>3, <3>3 DEF Before, Belief
      <4>2. ~(~locked /\ locked')
        BY <1>1, <1>7, <4>1, HandleSwitches
      <4>. QED BY <2>2, <3>1, <3>2, <4>1, <4>2 DEF Pasting
    <3>. QED BY <3>2, <3>3 DEF Harmless
  <2>. QED BY <1>2, <2>6, <2>8, <2>9
<1>8. CASE /\ partial' # <<>> /\ UNCHANGED <<locked, prefix, typed, in_paste, out>>
           /\ Len(partial') = e.at /\ \A i \in 1..e.at : partial'[i] = e.bytes[i]
           /\ e.bytes = <<ESC>> \/ e.bytes \in Sequences
           /\ e.at = Len(e.bytes) => partial' = <<ESC>> /\ e.bytes = <<ESC>>
  <2>1. /\ e.kind \in {"other", "marker", "pasted"}
        /\ e.bytes = <<ESC>> => e.kind # "pasted"
    <3>1. e.bytes[1] = ESC
      BY <1>8, LongerThanEscape
    <3>. QED BY <1>3, <3>1, UnitFacts
  <2>2. ASSUME e.at = Len(e.bytes) PROVE Reading' /\ Belief'
    <3>1. e.bytes = <<ESC>> /\ partial' = <<ESC>>
      BY <1>8, <2>2
    <3>2. tty' = <<>>
      BY <1>2, <2>2, <3>1 DEF Follows
    <3>3. e.bytes # PASTE_START /\ e.bytes # PASTE_END
      BY <3>1 DEF PASTE_START, PASTE_END
    <3>4. ~Before(e) /\ ~After(e)
      BY <2>1, <3>1, <3>3 DEF Before, After
    <3>5. Before(e) = FALSE /\ After(e) = FALSE
      BY <3>4 DEF Before, After
    <3>6. pasting' = FALSE /\ in_paste' = FALSE
      BY <1>1, <1>2, <1>3, <1>8, <3>2, <3>5
    <3>7. Reading'
      BY <3>1, <3>2, <3>6 DEF Reading
    <3>. QED BY <3>2, <3>6, <3>7 DEF Belief
  <2>3. ASSUME e.at # Len(e.bytes) PROVE Reading' /\ Belief'
    <3>1. /\ tty' # <<>> /\ tty'[1].bytes = e.bytes /\ tty'[1].kind = e.kind
          /\ tty'[1].at = e.at + 1
      BY <1>2, <2>3 DEF Follows
    <3>2. Before(tty'[1]) = Before(e)
      BY <3>1 DEF Before
    <3>3. Reading'
      <4>1. Len(partial') + 1 = tty'[1].at
        BY <1>8, <3>1
      <4>2. \A i \in 1..Len(partial') : partial'[i] = tty'[1].bytes[i]
        BY <1>8, <3>1
      <4>. QED BY <3>1, <4>1, <4>2 DEF Reading
    <3>4. Belief'
      <4>1. in_paste' = Before(tty'[1]) /\ (in_paste' => prefix' = <<>>) /\ pasting' \in BOOLEAN
        BY <1>1, <1>3, <1>8, <3>2 DEF Belief
      <4>. QED BY <3>1, <4>1 DEF Belief
    <3>. QED BY <3>3, <3>4
  <2>4. keys' = <<>>
    BY <1>1, <2>1 DEF KeysAfter
  <2>5. Window' /\ Harmless
    BY <1>1, <1>8, <2>1, <2>4 DEF Window, Harmless
  <2>. QED BY <1>2, <2>2, <2>3, <2>5
<1>. QED BY <1>4, <1>6, <1>7, <1>8

(* Escape timeouts and clients find no sequence half read.                 *)
LEMMA FlushKeeps ==
  ASSUME PasteInv, ~Cuts, Pflush
  PROVE  Queue' /\ Reading' /\ Belief' /\ Window'
<1>1. /\ Queue /\ Reading /\ Belief /\ Window /\ IInv
      /\ tty = <<>> /\ flush /\ UNCHANGED <<pasting, tty, keys>>
  BY DEF Pflush, PasteInv
<1>2. partial = <<ESC>> /\ ~pasting /\ partial' = <<>> /\ handle(partial, NoOutput)
  BY <1>1 DEF flush, Reading
<1>3. partial # PASTE_START /\ partial # PASTE_END /\ partial[1] = ESC
  BY <1>2 DEF PASTE_START, PASTE_END
<1>4. ~IsPhraseKey(partial) /\ ~IsL(partial)
  <2>1. ~IsPhraseKey(partial)
    BY <1>3, PasteFacts DEF IsPhraseKey
  <2>2. ~IsL(partial)
    BY <1>2 DEF IsL, KITTY_L, ESC
  <2>. QED BY <2>1, <2>2
<1>5. /\ in_paste' = in_paste
      /\ locked /\ ~locked' => FALSE
      /\ locked /\ locked' => typed' = <<>>
      /\ ~locked /\ locked' => FALSE
      /\ prefix' # <<>> => ~Pasting(partial)
  BY <1>1, <1>2, <1>3, <1>4, HandleSwitches
<1>6. Belief'
  <2>1. in_paste' => prefix' = <<>>
    BY <1>5 DEF Pasting
  <2>. QED BY <1>1, <1>5, <2>1 DEF Belief
<1>7. Window'
  BY <1>1, <1>2, <1>5 DEF Window
<1>8. Queue' /\ Reading'
  BY <1>1, <1>2 DEF Queue, Reading
<1>. QED BY <1>6, <1>7, <1>8

(* A client that switches the lock finds no sequence half read.            *)
LEMMA LockKeeps ==
  ASSUME PasteInv, ~Cuts, NEW value \in BOOLEAN, Pset_locked(value)
  PROVE  Queue' /\ Reading' /\ Belief' /\ Window'
<1>1. /\ Queue /\ Reading /\ Belief /\ Window
      /\ partial = <<>> \/ tty = <<>>
      /\ UNCHANGED <<pasting, tty, in_paste>> /\ keys' = <<>>
      /\ partial' = <<>> /\ prefix' = <<>> /\ typed' = <<>>
  BY DEF Pset_locked, set_locked, ForgetHeld, PasteInv
<1>2. Queue' /\ Reading'
  <2>1. CASE tty = <<>>
    BY <1>1, <2>1 DEF Queue, Reading
  <2>2. CASE tty # <<>>
    BY <1>1, <2>2 DEF Queue, Reading
  <2>. QED BY <2>1, <2>2
<1>. QED BY <1>1, <1>2 DEF Belief, Window

-------------------------------------------------------------------------------
(* The theorems.                                                           *)

(* The gate steps as it does without a terminal.                           *)
LEMMA GateSteps ==
  ASSUME PasteInv, PNext
  PROVE  [Next]_vars
<1>1. CASE Send
  BY <1>1 DEF Send
<1>2. CASE PFeed
  BY <1>2 DEF PFeed, Next
<1>3. CASE PFeedByte
  <2>1. tty # <<>> /\ FeedByte(Sent(Head(tty)))
    BY <1>3 DEF PFeedByte
  <2>2. Sent(Head(tty)) \in Byte
    <3>1. Head(tty) \in Item
      BY <2>1, QueueFacts DEF PasteInv
    <3>2. PICK bytes \in Seq(Byte) :
             Head(tty).bytes = bytes /\ Head(tty).at \in 1..Len(bytes)
      BY <3>1 DEF Item
    <3>3. bytes[Head(tty).at] \in Byte
      BY <3>2, ElementOfSeq
    <3>. QED BY <3>2, <3>3 DEF Sent
  <2>. QED BY <2>1, <2>2 DEF Next
<1>4. CASE Pflush
  BY <1>4 DEF Pflush, Next
<1>5. CASE \E value \in BOOLEAN : Pset_locked(value)
  BY <1>5 DEF Pset_locked, Next
<1>. QED BY <1>1, <1>2, <1>3, <1>4, <1>5 DEF PNext

(* The start has the invariant.                                            *)
LEMMA InitPasteInv == PInit => PasteInv
<1>. SUFFICES ASSUME PInit PROVE PasteInv
  OBVIOUS
<1>1. IInv
  BY InitIInv DEF PInit
<1>2. tty = <<>> /\ pasting = FALSE /\ keys = <<>> /\ partial = <<>> /\ typed = <<>>
      /\ in_paste = FALSE
  BY DEF PInit, Init
<1>3. Queue
  <2>1. <<>> \in Seq(Item) /\ Len(<<>>) = 0
    BY EmptySeq
  <2>2. tty \in Seq(Item) /\ Len(tty) = 0
    BY <1>2, <2>1
  <2>. QED BY <1>2, <2>2 DEF Queue
<1>. QED BY <1>1, <1>2, <1>3 DEF PasteInv, Reading, Belief, Window

(* A step keeps the invariant; a byte does not more to the lock than it    *)
(* may, and nothing else is done while bytes are taken.                    *)
LEMMA NextPasteInv ==
  ASSUME Pace, ~Cuts, PasteInv, [PNext]_pvars
  PROVE  PasteInv' /\ (unread > 0 => Harmless \/ UNCHANGED <<locked, prefix>>)
<1>1. Queue /\ Reading /\ Belief /\ Window /\ IInv
  BY DEF PasteInv
<1>2. IInv'
  <2>1. [Next]_vars
    BY GateSteps DEF pvars
  <2>. QED BY <1>1, <2>1, NextIInv
<1>3. CASE Send
  BY <1>2, <1>3, SendKeeps DEF PasteInv, Send, vars, held
<1>4. CASE PFeed
  <2>1. UNCHANGED <<tty, pasting, partial, in_paste, prefix, locked, keys, typed>>
    BY <1>4 DEF PFeed, Feed, held
  <2>. QED BY <1>1, <1>2, <2>1 DEF PasteInv, Queue, Reading, Belief, Window
<1>5. CASE PFeedByte
  BY <1>2, <1>5, ByteKeeps DEF PasteInv
<1>6. CASE Pflush
  <2>1. ~(unread > 0)
    BY <1>6 DEF Pflush, flush, Idle
  <2>. QED BY <1>2, <1>6, <2>1, FlushKeeps DEF PasteInv
<1>7. CASE \E value \in BOOLEAN : Pset_locked(value)
  <2>1. ~(unread > 0)
    BY <1>7 DEF Pset_locked, set_locked, Idle
  <2>. QED BY <1>2, <1>7, <2>1, LockKeeps DEF PasteInv
<1>8. CASE UNCHANGED pvars
  <2>1. UNCHANGED <<tty, pasting, partial, in_paste, prefix, locked, keys, typed>>
    BY <1>8 DEF pvars, vars, held
  <2>. QED BY <1>1, <1>2, <2>1 DEF PasteInv, Queue, Reading, Belief, Window
<1>. QED BY <1>3, <1>4, <1>5, <1>6, <1>7, <1>8 DEF PNext

(* Every reachable state has it.                                           *)
LEMMA AlwaysPasteInv ==
  ASSUME Pace, ~Cuts
  PROVE  PSpec => []PasteInv
<1>1. PasteInv /\ [PNext]_pvars => PasteInv'
  BY NextPasteInv
<1>. QED BY <1>1, InitPasteInv, PTL DEF PSpec

(* When everything sent has been read, the gate agrees with the terminal   *)
(* on whether a paste is going on: it finds every marker, and takes        *)
(* nothing else for one (gate.rs:145-154, 211-229).                        *)
THEOREM PasteBelief ==
  ASSUME Pace, ~Cuts
  PROVE  PSpec => []BeliefIsTrue
<1>1. PasteInv => BeliefIsTrue
  BY DEF PasteInv, Belief, BeliefIsTrue
<1>. QED BY <1>1, AlwaysPasteInv, PTL

(* Whoever types the phrase unlocks: the keys as the user sees them never  *)
(* are the phrase while the gate stays locked (gate.rs:190-204).           *)
THEOREM PastePhraseUnlocks ==
  ASSUME Pace, ~Cuts
  PROVE  PSpec => []PhraseUnlocks
<1>1. PasteInv => PhraseUnlocks
  BY DEF PasteInv, Window, IInv, TypedOnlyLocked, PhraseUnlocks
<1>. QED BY <1>1, AlwaysPasteInv, PTL

(* Pasted text neither locks, nor unlocks, nor starts the hotkey, whatever *)
(* keys, hotkeys, escape sequences and start markers it holds.  An end     *)
(* marker in the text is not among them: it ends the paste (gate.rs:145-205, *)
(* 211-229).                                                               *)
THEOREM PasteNeverSwitches ==
  ASSUME Pace, ~Cuts
  PROVE  PSpec => PastedNeverSwitches
<1>1. PasteInv /\ [PNext]_pvars =>
        [unread > 0 /\ truth' = "pasted" =>
           locked' = locked /\ (prefix' # <<>> => prefix' = prefix)]_pvars
  BY NextPasteInv DEF Harmless
<1>. QED BY <1>1, AlwaysPasteInv, PTL DEF PSpec, PastedNeverSwitches

(* Only a typed key unlocks: never a byte of a paste, of a mouse report,   *)
(* of an arrow key or of a marker (gate.rs:190-229).                       *)
THEOREM PasteOnlyKeysUnlock ==
  ASSUME Pace, ~Cuts
  PROVE  PSpec => OnlyKeysUnlock
<1>1. PasteInv /\ [PNext]_pvars =>
        [unread > 0 /\ locked /\ ~locked' => truth' = "key"]_pvars
  BY NextPasteInv DEF Harmless
<1>. QED BY <1>1, AlwaysPasteInv, PTL DEF PSpec, OnlyKeysUnlock
================================================================================
