--------------------------- MODULE GateHistoryProofs ---------------------------
(***************************************************************************)
(* The unlock phrase is recognised exactly, for every phrase and every     *)
(* alphabet.                                                               *)
(***************************************************************************)
EXTENDS GateHistory, GateProofs

Least(m, n) == IF m < n THEN m ELSE n

(* The window after one more key is the end of the longer run.             *)
LEMMA WindowMoves ==
  ASSUME TypeOK, run \in Seq(Printable), Phrase # <<>>,
         Len(typed) = Least(Len(run), Len(Phrase)), EndsWith(run, typed),
         NEW byte \in Printable
  PROVE  /\ Remember(byte) \in Seq(Printable)
         /\ Len(Remember(byte)) = Least(Len(run) + 1, Len(Phrase))
         /\ EndsWith(Append(run, byte), Remember(byte))
<1>. DEFINE long == Append(run, byte)
            kept == IF Len(typed) = Len(Phrase) THEN Tail(typed) ELSE typed
            key  == Remember(byte)
            from == Len(long) - Len(key) + 1
<1>1. /\ typed \in Seq(Printable) /\ Len(typed) \in Nat
      /\ Len(run) \in Nat /\ Len(Phrase) \in Nat \ {0}
  BY ConstantFacts, EmptySeq, LenProperties DEF TypeOK
<1>2. /\ long \in Seq(Printable) /\ Len(long) = Len(run) + 1
      /\ long[Len(run) + 1] = byte
      /\ \A i \in 1..Len(run) : long[i] = run[i]
  BY AppendProperties
<1>3. \A i \in 1..Len(typed) : typed[i] = run[Len(run) - Len(typed) + i]
  <2>1. \A i \in (Len(run) - Len(typed) + 1)..Len(run) : run[i] \in Printable
    BY <1>1, ElementOfSeq DEF Least
  <2>2. Len(typed) <= Len(run) /\ typed = SubSeq(run, Len(run) - Len(typed) + 1, Len(run))
    BY DEF EndsWith
  <2>. DEFINE first == Len(run) - Len(typed) + 1
  <2>3. first \in Int
    BY <1>1
  <2>4. \A i \in 1..Len(run) - first + 1 :
          SubSeq(run, first, Len(run))[i] = run[first + i - 1]
    <3>1. \A i \in first..Len(run) : run[i] \in Printable
      BY <2>1
    <3>2. Len(run) \in Int
      BY <1>1
    <3>. HIDE DEF first
    <3>. QED BY <2>3, <3>1, <3>2, SubSeqProperties
  <2>5. ASSUME NEW i \in 1..Len(typed)
        PROVE  typed[i] = run[Len(run) - Len(typed) + i]
    <3>1. i \in 1..Len(run) - first + 1
      BY <1>1
    <3>2. first + i - 1 = Len(run) - Len(typed) + i
      BY <1>1
    <3>3. typed[i] = SubSeq(run, first, Len(run))[i]
      BY <2>2
    <3>. HIDE DEF first
    <3>. QED BY <2>4, <3>1, <3>2, <3>3
  <2>. QED BY <2>5
<1>4. CASE Len(typed) = Len(Phrase)
  <2>1. typed # <<>>
    BY <1>1, <1>4, EmptySeq
  <2>2. /\ kept \in Seq(Printable) /\ Len(kept) = Len(Phrase) - 1
        /\ \A i \in 1..Len(kept) : kept[i] = typed[i + 1]
    BY <1>1, <1>4, <2>1, HeadTailProperties
  <2>3. /\ key \in Seq(Printable) /\ Len(key) = Len(Phrase)
        /\ key[Len(key)] = byte
        /\ \A i \in 1..Len(key) - 1 : key[i] = run[Len(run) - Len(typed) + i + 1]
    BY <1>1, <1>3, <1>4, <2>2, AppendProperties DEF Remember
  <2>4. Len(key) = Least(Len(run) + 1, Len(Phrase))
    BY <1>1, <1>4, <2>3 DEF Least
  <2>5. \A i \in 1..Len(key) : key[i] = long[from + i - 1]
    <3>1. /\ Len(long) = Len(run) + 1 /\ Len(key) = Len(Phrase)
          /\ Len(Phrase) <= Len(run) /\ from = Len(run) + 2 - Len(Phrase)
      BY <1>1, <1>2, <1>4, <2>3 DEF Least
    <3>2. ASSUME NEW i \in 1..Len(key) - 1 PROVE key[i] = long[from + i - 1]
      <4>1. /\ i \in Int /\ from + i - 1 = Len(run) - Len(typed) + i + 1
            /\ Len(run) - Len(typed) + i + 1 \in 1..Len(run)
        BY <1>1, <1>4, <3>1
      <4>. HIDE DEF long, key, from
      <4>. QED BY <1>2, <2>3, <4>1
    <3>3. key[Len(key)] = long[from + Len(key) - 1]
      <4>1. from + Len(key) - 1 = Len(run) + 1
        BY <1>1, <3>1
      <4>. HIDE DEF long, key, from
      <4>. QED BY <1>2, <2>3, <4>1
    <3>4. ASSUME NEW i \in 1..Len(key) PROVE i = Len(key) \/ i \in 1..Len(key) - 1
      <4>1. Len(key) \in Nat
        BY <1>1, <3>1
      <4>. HIDE DEF key
      <4>. QED BY <4>1
    <3>. HIDE DEF long, key, from
    <3>. QED BY <3>2, <3>3, <3>4
  <2>6. /\ \A i \in from..Len(long) : long[i] \in Printable
        /\ from \in Int /\ Len(long) \in Int /\ Len(key) <= Len(long)
    BY <1>1, <1>2, <1>4, <2>3, ElementOfSeq DEF Least
  <2>7. /\ SubSeq(long, from, Len(long)) \in Seq(Printable)
        /\ Len(SubSeq(long, from, Len(long))) = Len(key)
        /\ \A i \in 1..Len(key) : SubSeq(long, from, Len(long))[i] = long[from + i - 1]
    <3>. HIDE DEF long, key
    <3>. QED BY <1>1, <1>2, <2>3, <2>6, SubSeqProperties
  <2>8. SubSeq(long, from, Len(long)) = key
    <3>. HIDE DEF long, key, from
    <3>. QED BY <2>3, <2>5, <2>7, SeqEqual
  <2>. QED BY <2>3, <2>4, <2>6, <2>8 DEF EndsWith
<1>5. CASE Len(typed) # Len(Phrase)
  <2>1. Len(typed) = Len(run) /\ Len(run) < Len(Phrase)
    BY <1>1, <1>5 DEF Least
  <2>2. typed = run
    BY <1>1, <1>3, <2>1, SeqEqual
  <2>3. key = long
    BY <1>5, <2>2 DEF Remember
  <2>4. SubSeq(long, from, Len(long)) = long
    <3>1. from = 1
      BY <1>1, <1>2, <2>3
    <3>. HIDE DEF long, from
    <3>. QED BY <1>2, <3>1, SubSeqFull
  <2>. QED BY <1>1, <1>2, <2>1, <2>3, <2>4 DEF EndsWith, Least
<1>. QED BY <1>4, <1>5

-------------------------------------------------------------------------------
HInv ==
  /\ IInv
  /\ run \in Seq(Printable)
  /\ WindowIsEndOfRun

(* The window is the end of the run, as long as it can be.                 *)
LEMMA WindowFacts ==
  ASSUME HInv, locked, Phrase # <<>>
  PROVE  Len(typed) = Least(Len(run), Len(Phrase)) /\ EndsWith(run, typed)
BY DEF HInv, WindowIsEndOfRun, Least

(* A run that ends in the phrase would have been seen.                     *)
LEMMA PhraseNotSeenYet ==
  ASSUME HInv, locked, Phrase # <<>>
  PROVE  ~EndsWith(run, Phrase)
<1>. SUFFICES ASSUME EndsWith(run, Phrase) PROVE FALSE
  OBVIOUS
<1>1. Len(run) \in Nat /\ Len(Phrase) \in Nat \ {0}
  BY ConstantFacts, EmptySeq, LenProperties DEF HInv
<1>2. Len(typed) = Len(Phrase)
  BY <1>1, WindowFacts DEF EndsWith, Least
<1>3. typed = Phrase
  BY <1>2, WindowFacts DEF EndsWith
<1>. QED BY <1>1, <1>2, <1>3, EmptySeq DEF HInv, IInv, TypedOnlyLocked

(* One token, the history with it.                                         *)
LEMMA TokenStep ==
  ASSUME HInv, NEW token \in Seq(Byte), token # <<>>, NEW o \in Output,
         handle(token, o), run' = RunAfter(token)
  PROVE  /\ run' \in Seq(Printable)
         /\ WindowIsEndOfRun'
         /\ locked => (~locked' <=> Phrase # <<>> /\ EndsWith(run', Phrase))
<1>0. /\ IInv /\ TypeOK /\ TypedOnlyLocked /\ run \in Seq(Printable)
      /\ <<>> \in Seq(Printable) /\ Len(<<>>) = 0
      /\ Len(Phrase) \in Nat /\ (Phrase # <<>> => Len(Phrase) > 0)
  BY ConstantFacts, EmptySeq, LenProperties DEF HInv, IInv
<1>1. EndsWith(<<>>, <<>>)
  BY <1>0, SubSeqEmpty DEF EndsWith
<1>2. CASE ~locked
  <2>1. run' = <<>> /\ typed = <<>> /\ typed' = <<>>
    BY <1>0, <1>2 DEF RunAfter, handle, handle_unlocked, TypedOnlyLocked
  <2>. QED BY <1>0, <1>1, <1>2, <2>1 DEF WindowIsEndOfRun
<1>3. CASE locked /\ Phrase = <<>>
  <2>1. locked' /\ run' \in Seq(Printable)
    BY <1>0, <1>3, AppendProperties
    DEF handle, handle_locked, RunAfter, IsPhraseKey
  <2>. QED BY <1>3, <2>1 DEF WindowIsEndOfRun
<1>4. CASE locked /\ Phrase # <<>> /\ ~IsPhraseKey(token)
  <2>1. locked' /\ typed' = <<>> /\ run' = <<>>
    BY <1>4 DEF handle, handle_locked, RunAfter
  <2>2. ~EndsWith(<<>>, Phrase)
    BY <1>0, <1>4 DEF EndsWith
  <2>. QED BY <1>0, <1>1, <1>4, <2>1, <2>2 DEF WindowIsEndOfRun
<1>5. CASE locked /\ Phrase # <<>> /\ IsPhraseKey(token)
  <2>. DEFINE byte == token[1]
  <2>1. byte \in Printable /\ run' = Append(run, byte)
    BY <1>5 DEF IsPhraseKey, RunAfter
  <2>2. /\ Remember(byte) \in Seq(Printable)
        /\ Len(Remember(byte)) = Least(Len(run) + 1, Len(Phrase))
        /\ EndsWith(run', Remember(byte))
    BY <1>0, <1>5, <2>1, WindowFacts, WindowMoves
  <2>3. run' \in Seq(Printable) /\ Len(run') = Len(run) + 1 /\ Len(run) \in Nat
    BY <1>0, <2>1, AppendProperties, LenProperties
  <2>4. Remember(byte) = Phrase <=> EndsWith(run', Phrase)
    <3>. DEFINE key == Remember(byte)
    <3>. HIDE DEF key
    <3>1. key = Phrase => EndsWith(run', Phrase)
      BY <2>2 DEF key
    <3>2. ASSUME EndsWith(run', Phrase) PROVE key = Phrase
      <4>1. Len(key) = Len(Phrase)
        <5>1. Len(Phrase) <= Len(run')
          BY <3>2 DEF EndsWith
        <5>2. Len(key) = Least(Len(run'), Len(Phrase))
          BY <2>2, <2>3 DEF key
        <5>3. Len(run') \in Nat
          BY <2>3
        <5>. QED BY <1>0, <5>1, <5>2, <5>3 DEF Least
      <4>2. key = SubSeq(run', Len(run') - Len(key) + 1, Len(run'))
        BY <2>2 DEF EndsWith, key
      <4>. QED BY <3>2, <4>1, <4>2 DEF EndsWith
    <3>. QED BY <3>1, <3>2 DEF key
  <2>5. CASE Remember(byte) = Phrase
    <3>1. locked' = FALSE
      BY <1>5, <2>5 DEF handle, handle_locked
    <3>. QED BY <1>5, <2>3, <2>4, <2>5, <3>1 DEF WindowIsEndOfRun
  <2>6. CASE Remember(byte) # Phrase
    <3>1. locked' /\ typed' = Remember(byte)
      BY <1>5, <2>6 DEF handle, handle_locked
    <3>2. WindowIsEndOfRun'
      BY <2>2, <2>3, <3>1 DEF WindowIsEndOfRun, Least
    <3>. QED BY <1>5, <2>3, <2>4, <2>6, <3>1, <3>2
  <2>. QED BY <2>5, <2>6
<1>. QED BY <1>2, <1>3, <1>4, <1>5

(* The start has the invariant.                                            *)
LEMMA HInitInv == HInit => HInv
<1>1. <<>> \in Seq(Printable) /\ Len(<<>>) = 0 /\ Len(Phrase) \in Nat
      /\ (Phrase # <<>> => Len(Phrase) > 0)
  BY ConstantFacts, EmptySeq, LenProperties
<1>2. EndsWith(<<>>, <<>>)
  BY <1>1, SubSeqEmpty DEF EndsWith
<1>3. HInit => WindowIsEndOfRun
  BY <1>1, <1>2 DEF HInit, Init, WindowIsEndOfRun
<1>. QED BY <1>1, <1>3, InitIInv DEF HInit, HInv

Exactly == unread > 0 /\ locked =>
             (~locked' <=> Phrase # <<>> /\ EndsWith(run', Phrase))

(* Every step keeps it and unlocks exactly when it should.                 *)
LEMMA HStep == HInv /\ [HNext]_hvars => HInv' /\ (Exactly \/ UNCHANGED hvars)
<1>. SUFFICES ASSUME HInv, [HNext]_hvars
              PROVE  HInv' /\ (Exactly \/ UNCHANGED hvars)
  OBVIOUS
<1>1. IInv /\ TypeOK /\ run \in Seq(Printable) /\ WindowIsEndOfRun
  BY DEF HInv, IInv
<1>2. IInv'
  <2>1. [Next]_vars
    BY DEF HNext, HFeedByte, Next, hvars
  <2>. QED BY <1>1, <2>1, NextIInv
<1>3. /\ <<>> \in Seq(Printable) /\ Len(<<>>) = 0 /\ EndsWith(<<>>, <<>>)
      /\ Len(Phrase) \in Nat /\ (Phrase # <<>> => Len(Phrase) > 0)
  BY ConstantFacts, EmptySeq, LenProperties, SubSeqEmpty DEF EndsWith
<1>4. CASE Feed /\ UNCHANGED run
  BY <1>1, <1>2, <1>4 DEF Feed, held, Idle, HInv, WindowIsEndOfRun, Exactly
<1>5. ASSUME NEW byte \in Byte, HFeedByte(byte)
      PROVE  HInv' /\ Exactly
  <2>. DEFINE seq == Append(partial, byte)
  <2>0. out \in Output /\ seq \in Seq(Byte) /\ seq # <<>> /\ <<byte>> \in Seq(Byte)
    <3>1. out \in Output /\ partial \in Seq(Byte)
      BY <1>1 DEF TypeOK, Output
    <3>. QED BY <3>1, AppendProperties
  <2>1. CASE partial = <<>> /\ byte # ESC /\ handle(<<byte>>, out)
    <3>1. run' = RunAfter(<<byte>>)
      BY <1>5, <2>1 DEF HFeedByte, Token
    <3>2. <<byte>> # <<>>
      OBVIOUS
    <3>. QED BY <1>2, <2>0, <2>1, <3>1, <3>2, TokenStep DEF HInv, Exactly
  <2>2. CASE partial # <<>> /\ sequence_complete(seq) /\ handle(seq, out)
    <3>1. run' = RunAfter(seq)
      BY <1>5, <2>2 DEF HFeedByte, Token
    <3>. HIDE DEF seq
    <3>. QED BY <1>2, <2>0, <2>2, <3>1, TokenStep DEF HInv, Exactly
  <2>3. CASE /\ (partial = <<>> => byte = ESC)
             /\ (partial # <<>> => ~sequence_complete(seq))
             /\ UNCHANGED <<locked, prefix, typed, in_paste, out>>
    <3>1. run' = run
      BY <1>5, <2>3 DEF HFeedByte, Token, RunAfter
    <3>2. WindowIsEndOfRun'
      BY <1>1, <2>3, <3>1 DEF WindowIsEndOfRun
    <3>. QED BY <1>1, <1>2, <2>3, <3>1, <3>2, PhraseNotSeenYet DEF HInv, Exactly
  <2>. QED
    <3>. HIDE DEF seq
    <3>. QED BY <1>5, <2>1, <2>2, <2>3 DEF HFeedByte, FeedByte, seq
<1>6. CASE flush /\ run' = <<>>
  <2>1. ~Exactly => FALSE
    BY <1>6 DEF flush, Idle, Exactly
  <2>2. /\ handle(partial, NoOutput) /\ partial \in Seq(Byte) /\ partial # <<>>
        /\ NoOutput \in Output
    BY <1>1, <1>6, OutputType DEF flush, TypeOK, Output
  <2>3. partial[1] = ESC /\ ESC \notin Printable
    BY <1>1, <2>2, ConstantFacts DEF IInv, PartialIncomplete
  <2>4. ~IsPhraseKey(partial)
    BY <2>3 DEF IsPhraseKey
  <2>5. typed' = <<>> \/ Phrase = <<>>
    BY <1>1, <2>2, <2>4
    DEF handle, handle_locked, handle_unlocked, IInv, TypedOnlyLocked
  <2>6. WindowIsEndOfRun'
    BY <1>3, <1>6, <2>5 DEF WindowIsEndOfRun
  <2>. QED BY <1>2, <1>3, <1>6, <2>1, <2>6 DEF HInv
<1>7. ASSUME NEW value \in BOOLEAN, set_locked(value), run' = <<>>
      PROVE  HInv' /\ Exactly
  <2>1. typed' = <<>> /\ unread = 0
    BY <1>7 DEF set_locked, ForgetHeld, Idle
  <2>2. WindowIsEndOfRun'
    BY <1>3, <1>7, <2>1 DEF WindowIsEndOfRun
  <2>. QED BY <1>2, <1>3, <1>7, <2>1, <2>2 DEF HInv, Exactly
<1>8. CASE UNCHANGED hvars
  BY <1>1, <1>2, <1>8 DEF hvars, vars, held, HInv, WindowIsEndOfRun
<1>. QED BY <1>4, <1>5, <1>6, <1>7, <1>8 DEF HNext

(* The window is the end of the run of phrase keys (gate.rs:193-197).      *)
THEOREM WindowInvariant == HSpec => []WindowIsEndOfRun
<1>1. HInv => WindowIsEndOfRun
  BY DEF HInv
<1>. QED BY <1>1, HInitInv, HStep, PTL DEF HSpec

(* A byte read while locked unlocks exactly when the keys before it end in *)
(* the phrase (gate.rs:183-205).                                           *)
THEOREM PhraseIsExact == HSpec => UnlocksExactlyByPhrase
<1>1. HInv /\ [HNext]_hvars => [Exactly]_hvars
  BY HStep
<1>2. HInv /\ [HNext]_hvars => HInv'
  BY HStep
<1>. QED
  BY <1>1, <1>2, HInitInv, PTL DEF HSpec, UnlocksExactlyByPhrase, Exactly
===============================================================================
