------------------------------ MODULE TitleProofs ------------------------------
(***************************************************************************)
(* Theorems about TitleFilter for every alphabet and every MAX_OSC.        *)
(***************************************************************************)
EXTENDS TitleFilter, SequenceTheorems, TLAPS

(* The bytes that have names, and the mark that is no byte.                *)
LEMMA ConstantFacts ==
  /\ ESC \in Byte /\ BEL \in Byte /\ "]" \in Byte /\ "\\" \in Byte
  /\ LOCK_PREFIX \notin Byte
  /\ MAX_OSC \in Nat \ {0}
BY TitleAssumption DEF ESC, BEL

-------------------------------------------------------------------------------
(* Taking the mark out of what was written.                                *)

(* Bytes without the mark are their own original...                        *)
LEMMA UnmarkedPlain ==
  ASSUME NEW bytes \in Seq(Byte)
  PROVE  Unmarked(bytes) = bytes
<1>1. \A i \in 1..Len(bytes) : bytes[i] # LOCK_PREFIX
  BY ConstantFacts, ElementOfSeq
<1>. QED BY <1>1 DEF Unmarked, Contains

(* ...and the mark leaves no trace in it.                                  *)
LEMMA UnmarkedMark ==
  ASSUME NEW s \in Seq(Byte), NEW t \in Seq(Byte)
  PROVE  Unmarked((s \o <<LOCK_PREFIX>>) \o t) = s \o t
<1>. DEFINE A == Byte \cup {LOCK_PREFIX}
            m == <<LOCK_PREFIX>>
            w == (s \o m) \o t
            k == Len(s) + 1
<1>1. s \in Seq(A) /\ t \in Seq(A) /\ m \in Seq(A) /\ Len(m) = 1
  BY SeqMonotonic
<1>2. Len(s) \in Nat /\ Len(t) \in Nat
  BY LenProperties
<1>3. /\ s \o m \in Seq(A) /\ Len(s \o m) = k
      /\ \A i \in 1..k : (s \o m)[i] = IF i <= Len(s) THEN s[i] ELSE m[i - Len(s)]
  <2>1. Len(s) + Len(m) = k
    BY <1>1
  <2>2. /\ s \o m \in Seq(A) /\ Len(s \o m) = Len(s) + Len(m)
        /\ \A i \in 1..Len(s) + Len(m) :
             (s \o m)[i] = IF i <= Len(s) THEN s[i] ELSE m[i - Len(s)]
    <3>. HIDE DEF A, m
    <3>. QED BY <1>1, ConcatProperties
  <2>. HIDE DEF A, m, k
  <2>. QED BY <2>1, <2>2
<1>4. /\ w \in Seq(A) /\ Len(w) = k + Len(t)
      /\ \A i \in 1..k + Len(t) : w[i] = IF i <= k THEN (s \o m)[i] ELSE t[i - k]
  <2>. HIDE DEF A, m, k
  <2>. QED BY <1>1, <1>3, ConcatProperties
<1>5. w[k] = LOCK_PREFIX
  <2>1. k \in 1..k + Len(t) /\ k \in 1..k /\ ~(k <= Len(s)) /\ k - Len(s) = 1
    BY <1>2
  <2>2. w[k] = m[1]
    <3>. HIDE DEF w, m, k
    <3>. QED BY <1>3, <1>4, <2>1
  <2>. QED BY <2>2
<1>6. ASSUME NEW i \in 1..k + Len(t), i # k
      PROVE  w[i] # LOCK_PREFIX
  <2>1. CASE i < k
    <3>1. i \in 1..Len(s) /\ i \in 1..k /\ i <= k
      BY <1>2, <2>1
    <3>2. w[i] = s[i]
      <4>. HIDE DEF w, m, k
      <4>. QED BY <1>3, <1>4, <3>1
    <3>. QED BY <3>1, <3>2, ElementOfSeq, ConstantFacts
  <2>2. CASE i > k
    <3>1. i - k \in 1..Len(t) /\ ~(i <= k)
      BY <1>2, <2>2
    <3>2. w[i] = t[i - k]
      <4>. HIDE DEF w, m, k
      <4>. QED BY <1>4, <3>1
    <3>. QED BY <3>1, <3>2, ElementOfSeq, ConstantFacts
  <2>. QED BY <1>2, <1>6, <2>1, <2>2
<1>7. k \in 1..Len(w) /\ DOMAIN w = 1..Len(w)
  <2>1. k \in 1..k + Len(t)
    BY <1>2
  <2>. HIDE DEF w, k
  <2>. QED BY <1>4, <2>1, LenProperties
<1>8. Contains(w, LOCK_PREFIX)
  <2>. HIDE DEF w, k
  <2>. QED BY <1>5, <1>7 DEF Contains
<1>9. (CHOOSE i \in DOMAIN w : w[i] = LOCK_PREFIX) = k
  <2>. HIDE DEF w, k
  <2>. QED BY <1>4, <1>5, <1>6, <1>7
<1>10. SubSeq(w, 1, k - 1) = s
  <2>1. k - 1 = Len(s) /\ \A i \in 1..Len(s) : w[i] = s[i]
    <3>1. k - 1 = Len(s)
      BY <1>2
    <3>2. ASSUME NEW i \in 1..Len(s) PROVE w[i] = s[i]
      <4>1. i \in 1..k /\ i \in 1..k + Len(t) /\ i <= k /\ i <= Len(s)
        BY <1>2
      <4>. HIDE DEF w, m, k
      <4>. QED BY <1>3, <1>4, <4>1
    <3>. QED BY <3>1, <3>2
  <2>2. \A i \in 1..Len(s) : w[i] \in Byte
    <3>. HIDE DEF w, k
    <3>. QED BY <2>1, ElementOfSeq
  <2>3. /\ SubSeq(w, 1, Len(s)) \in Seq(Byte)
        /\ Len(SubSeq(w, 1, Len(s))) = Len(s)
        /\ \A i \in 1..Len(s) : SubSeq(w, 1, Len(s))[i] = w[i]
    <3>1. Len(s) \in Int /\ 1 \in Int
      BY <1>2
    <3>. HIDE DEF w, k
    <3>. QED BY <1>2, <2>2, <3>1, SubSeqProperties
  <2>. HIDE DEF w, k
  <2>. QED BY <2>1, <2>3, SeqEqual
<1>11. SubSeq(w, k + 1, Len(w)) = t
  <2>1. \A j \in 1..Len(t) : w[k + j] = t[j]
    <3>1. ASSUME NEW j \in 1..Len(t) PROVE w[k + j] = t[j]
      <4>1. PICK i \in 1..k + Len(t) : i = k + j /\ ~(i <= k) /\ i - k = j
        BY <1>2
      <4>. HIDE DEF w, m, k
      <4>. QED BY <1>4, <4>1
    <3>. QED BY <3>1
  <2>2. ASSUME NEW i \in k + 1..Len(w) PROVE w[i] \in Byte
    <3>1. i - k \in 1..Len(t) /\ k + (i - k) = i
      <4>1. Len(w) = k + Len(t) /\ k \in Int
        BY <1>2, <1>4
      <4>. HIDE DEF w, k
      <4>. QED BY <1>2, <4>1
    <3>2. w[i] = t[i - k]
      <4>. HIDE DEF w, k
      <4>. QED BY <2>1, <3>1
    <3>. QED BY <3>1, <3>2, ElementOfSeq
  <2>3. k + 1 \in Int /\ Len(w) \in Int
    <3>1. k \in Int
      BY <1>2
    <3>. HIDE DEF w, k
    <3>. QED BY <1>2, <1>4, <3>1
  <2>4. /\ SubSeq(w, k + 1, Len(w)) \in Seq(Byte)
        /\ Len(SubSeq(w, k + 1, Len(w))) = IF k + 1 <= Len(w) THEN Len(w) - (k + 1) + 1 ELSE 0
        /\ \A i \in 1..Len(w) - (k + 1) + 1 :
             SubSeq(w, k + 1, Len(w))[i] = w[k + 1 + i - 1]
    <3>1. \A i \in k + 1..Len(w) : w[i] \in Byte
      BY <2>2
    <3>. HIDE DEF w, k
    <3>. QED BY <2>3, <3>1, SubSeqProperties
  <2>5. Len(SubSeq(w, k + 1, Len(w))) = Len(t)
    <3>1. k \in Nat /\ Len(w) = k + Len(t)
      BY <1>2, <1>4
    <3>. HIDE DEF w, k
    <3>. QED BY <1>2, <2>4, <3>1
  <2>6. ASSUME NEW i \in 1..Len(t) PROVE SubSeq(w, k + 1, Len(w))[i] = t[i]
    <3>1. i \in 1..Len(w) - (k + 1) + 1 /\ k + 1 + i - 1 = k + i
      <4>1. k \in Nat /\ Len(w) = k + Len(t)
        BY <1>2, <1>4
      <4>. HIDE DEF w, k
      <4>. QED BY <1>2, <4>1
    <3>. HIDE DEF w, k
    <3>. QED BY <2>1, <2>4, <3>1
  <2>. HIDE DEF w, k
  <2>. QED BY <2>4, <2>5, <2>6, SeqEqual
<1>. HIDE DEF w, k
<1>12. Unmarked(w) = SubSeq(w, 1, k - 1) \o SubSeq(w, k + 1, Len(w))
  BY <1>8, <1>9 DEF Unmarked
<1>. QED BY <1>10, <1>11, <1>12 DEF w

-------------------------------------------------------------------------------
(* What the two steps that other states fall back to write and withhold.   *)

(* Outside of sequences nothing is withheld but an Escape.                 *)
LEMMA GroundWrites ==
  ASSUME NEW pre \in Seq(Byte), NEW byte \in Byte,
         StepGround(byte, pre), osc' \in Seq(Byte)
  PROVE  /\ written' \in Seq(Byte)
         /\ written' \o Withheld' = Append(pre, byte)
         /\ state' \in {"Ground", "Esc", "Utf8"}
         /\ remaining' \in 0..3 /\ (remaining' > 0 <=> state' = "Utf8")
<1>1. /\ Append(pre, byte) \in Seq(Byte)
      /\ Append(pre, byte) \o <<>> = Append(pre, byte)
      /\ Append(pre, byte) = pre \o <<byte>>
  BY AppendProperties, AppendIsConcat, ConcatEmptySeq
<1>2. CASE byte = ESC /\ Goto("Esc", pre)
  BY <1>1, <1>2 DEF Goto, Withheld
<1>3. CASE byte \in DOMAIN Lead /\ state' = "Utf8" /\ remaining' = Lead[byte]
           /\ written' = Append(pre, byte)
  <2>1. Lead[byte] \in 1..3
    BY <1>3 DEF Lead
  <2>. QED BY <1>1, <1>3, <2>1 DEF Withheld
<1>4. CASE Goto("Ground", Append(pre, byte))
  BY <1>1, <1>4 DEF Goto, Withheld
<1>. QED BY <1>2, <1>3, <1>4 DEF StepGround

(* Two sequences of one item make one of two.                              *)
LEMMA TwoLong ==
  ASSUME NEW S, NEW s \in Seq(S), NEW t \in Seq(S), Len(s) = 1, Len(t) = 1
  PROVE  /\ Len(s \o t) = 2 /\ s \o t \in Seq(S)
         /\ \A i \in 1..2 : (s \o t)[i] = IF i <= 1 THEN s[i] ELSE t[i - 1]
BY ConcatProperties

(* Two bytes one after the other.                                          *)
LEMMA Pair ==
  ASSUME NEW a \in Byte, NEW b \in Byte
  PROVE  <<a>> \o <<b>> = <<a, b>>
<1>1. <<a>> \in Seq(Byte) /\ <<b>> \in Seq(Byte) /\ <<a, b>> \in Seq(Byte)
  OBVIOUS
<1>2. /\ <<a>> \o <<b>> \in Seq(Byte) /\ Len(<<a>> \o <<b>>) = 2
      /\ \A i \in 1..2 : (<<a>> \o <<b>>)[i] = IF i <= 1 THEN <<a>>[i] ELSE <<b>>[i - 1]
  <2>1. Len(<<a>>) = 1 /\ Len(<<b>>) = 1
    OBVIOUS
  <2>. QED BY <1>1, <2>1, ConcatProperties
<1>3. Len(<<a, b>>) = 2 /\ \A i \in 1..2 : (<<a>> \o <<b>>)[i] = <<a, b>>[i]
  BY <1>2
<1>. QED BY <1>1, <1>2, <1>3, SeqEqual

(* After Escape the byte and the Escape are written or withheld together.  *)
LEMMA EscWrites ==
  ASSUME NEW pre \in Seq(Byte), NEW byte \in Byte,
         StepEsc(byte, pre), osc' \in Seq(Byte), byte = "]" => osc' = <<>>
  PROVE  /\ written' \in Seq(Byte)
         /\ written' \o Withheld' = pre \o <<ESC, byte>>
         /\ state' \in {"Ground", "Esc", "Csi", "Osc", "Str"}
         /\ remaining' = 0
<1>. DEFINE both == pre \o <<ESC, byte>>
<1>1. <<ESC, byte>> \in Seq(Byte) /\ <<ESC>> \in Seq(Byte)
  BY ConstantFacts
<1>2. both \in Seq(Byte) /\ both \o <<>> = both
  BY <1>1, ConcatProperties, ConcatEmptySeq
<1>3. CASE byte = "]" /\ Goto("Osc", pre)
  <2>1. <<ESC, "]">> \o <<>> = <<ESC, "]">>
    BY <1>1, <1>3, ConcatEmptySeq
  <2>. QED BY <1>1, <1>3, <2>1 DEF Goto, Withheld
<1>4. CASE Goto("Csi", both) \/ Goto("Str", both) \/ Goto("Ground", both)
  BY <1>2, <1>4 DEF Goto, Withheld
<1>5. CASE byte = ESC /\ Goto("Esc", Append(pre, ESC))
  <2>1. Append(pre, ESC) \in Seq(Byte) /\ Append(pre, ESC) = pre \o <<ESC>>
    BY ConstantFacts, AppendProperties, AppendIsConcat
  <2>2. (pre \o <<ESC>>) \o <<ESC>> = pre \o (<<ESC>> \o <<ESC>>)
    BY <1>1, ConcatAssociative
  <2>3. <<ESC>> \o <<ESC>> = <<ESC, byte>>
    BY <1>5, ConstantFacts, Pair
  <2>. QED BY <1>5, <2>1, <2>2, <2>3 DEF Goto, Withheld
<1>. QED BY <1>3, <1>4, <1>5 DEF StepEsc

-------------------------------------------------------------------------------
IInv == TypeOK /\ OscBounded

StepPasses == Unmarked(written') \o Withheld' = Append(Withheld, taken')

(* finish_osc writes the whole OSC, with or without the mark.              *)
LEMMA FinishWrites ==
  ASSUME IInv, state \in {"Osc", "OscEsc"},
         NEW terminator \in Seq(Byte), NEW locked \in BOOLEAN,
         finish_osc(terminator, locked)
  PROVE  /\ written' \in Seq(Byte \cup {LOCK_PREFIX})
         /\ Unmarked(written') \o Withheld' = (<<ESC, "]">> \o osc) \o terminator
         /\ last_title' \in Seq(Seq(Byte)) /\ Len(last_title') <= 1
         /\ state' = "Ground" /\ remaining' = 0 /\ osc' = <<>>
<1>. DEFINE intro == <<ESC, "]">>
            whole == (intro \o osc) \o terminator
<1>1. /\ osc \in Seq(Byte) /\ intro \in Seq(Byte)
      /\ intro \o osc \in Seq(Byte) /\ whole \in Seq(Byte)
      /\ whole \o <<>> = whole
  <2>1. osc \in Seq(Byte) /\ intro \in Seq(Byte)
    BY ConstantFacts DEF IInv, TypeOK
  <2>. HIDE DEF intro
  <2>. QED BY <2>1, ConcatProperties, ConcatEmptySeq
<1>2. /\ state' = "Ground" /\ remaining' = 0 /\ osc' = <<>> /\ Withheld' = <<>>
  BY DEF finish_osc, Goto, Withheld
<1>3. last_title' \in Seq(Seq(Byte)) /\ Len(last_title') <= 1
  <2>1. CASE IsTitle(osc)
    <3>1. Tail(osc) \in Seq(Byte)
      BY <1>1, <2>1, HeadTailProperties DEF IsTitle
    <3>. QED BY <2>1, <3>1 DEF finish_osc
  <2>2. CASE ~IsTitle(osc)
    BY <2>2 DEF finish_osc, IInv, TypeOK
  <2>. QED BY <2>1, <2>2
<1>4. CASE ~(IsTitle(osc) /\ locked)
  <2>1. written' = whole
    BY <1>4 DEF finish_osc, Goto
  <2>. HIDE DEF whole
  <2>2. Unmarked(whole) = whole /\ whole \in Seq(Byte \cup {LOCK_PREFIX})
    BY <1>1, UnmarkedPlain, SeqMonotonic
  <2>. QED BY <1>1, <1>2, <1>3, <2>1, <2>2 DEF whole
<1>5. CASE IsTitle(osc) /\ locked
  <2>. DEFINE h    == <<Head(osc)>>
              t    == Tail(osc)
              rest == t \o terminator
              m    == <<LOCK_PREFIX>>
              A    == Byte \cup {LOCK_PREFIX}
  <2>1. h \in Seq(Byte) /\ t \in Seq(Byte) /\ osc = h \o t
    <3>1. osc # <<>> /\ Head(osc) \in Byte /\ t \in Seq(Byte)
      BY <1>1, <1>5, HeadTailProperties DEF IsTitle
    <3>2. osc = SubSeq(osc, 1, Len(osc)) /\ t = SubSeq(osc, 2, Len(osc)) /\ Len(osc) \in Nat \ {0}
      BY <1>1, <3>1, EmptySeq, SubSeqFull, TailIsSubSeq
    <3>3. SubSeq(osc, 1, Len(osc)) = <<osc[1]>> \o SubSeq(osc, 2, Len(osc))
      BY <1>1, <3>2, SubSeqRecursiveFirst
    <3>4. osc[1] = Head(osc)
      BY <3>1
    <3>. QED BY <3>1, <3>2, <3>3, <3>4
  <2>2. <<Head(osc), LOCK_PREFIX>> = h \o m
    <3>1. /\ h \in Seq(A) /\ m \in Seq(A) /\ <<Head(osc), LOCK_PREFIX>> \in Seq(A)
          /\ Len(h) = 1 /\ Len(m) = 1
      BY <2>1
    <3>2. /\ Len(h \o m) = 2 /\ h \o m \in Seq(A)
          /\ \A i \in 1..2 : (h \o m)[i] = IF i <= 1 THEN h[i] ELSE m[i - 1]
      BY <3>1, TwoLong
    <3>3. \A i \in 1..2 : (h \o m)[i] = <<Head(osc), LOCK_PREFIX>>[i]
      BY <3>2
    <3>4. Len(<<Head(osc), LOCK_PREFIX>>) = 2
      OBVIOUS
    <3>. HIDE DEF A, h, m
    <3>. QED BY <3>1, <3>2, <3>3, <3>4, SeqEqual
  <2>3. written' = (intro \o ((h \o m) \o t)) \o terminator
    BY <1>5, <2>2 DEF finish_osc, Goto
  <2>. HIDE DEF intro, h, t, m, A, rest
  <2>4. /\ m \in Seq(A) /\ h \in Seq(A) /\ t \in Seq(A)
        /\ intro \in Seq(A) /\ terminator \in Seq(A)
    <3>1. m \in Seq(A)
      BY DEF m, A
    <3>. QED BY <1>1, <2>1, <3>1, SeqMonotonic DEF A
  <2>5. written' = ((intro \o h) \o m) \o rest
    <3>. DEFINE u == h \o m
                v == intro \o u
    <3>1. written' = (intro \o (u \o t)) \o terminator
      BY <2>3
    <3>2. u \in Seq(A) /\ v \in Seq(A)
      BY <2>4, ConcatProperties
    <3>3. v = (intro \o h) \o m
      BY <2>4
    <3>. HIDE DEF u
    <3>4. intro \o (u \o t) = v \o t
      BY <2>4, <3>2
    <3>. HIDE DEF v
    <3>5. (v \o t) \o terminator = v \o (t \o terminator)
      BY <2>4, <3>2
    <3>. QED BY <3>1, <3>3, <3>4, <3>5 DEF rest
  <2>6. rest \in Seq(Byte) /\ intro \o h \in Seq(Byte)
    BY <1>1, <2>1, ConcatProperties DEF rest
  <2>7. Unmarked(written') = (intro \o h) \o rest
    BY <2>5, <2>6, UnmarkedMark DEF m
  <2>8. (intro \o h) \o rest = whole
    <3>. DEFINE v == intro \o h
    <3>1. intro \o (h \o t) = v \o t
      BY <1>1, <2>1
    <3>2. v \in Seq(Byte)
      BY <2>6
    <3>. HIDE DEF v
    <3>3. (v \o t) \o terminator = v \o (t \o terminator)
      BY <2>1, <3>2
    <3>. QED BY <2>1, <3>1, <3>3 DEF rest, v
  <2>9. written' \in Seq(A)
    <3>1. intro \o h \in Seq(A) /\ rest \in Seq(A)
      BY <2>4, <2>6, SeqMonotonic DEF A
    <3>2. (intro \o h) \o m \in Seq(A)
      BY <2>4, <3>1, ConcatProperties
    <3>. QED BY <2>5, <3>1, <3>2, ConcatProperties
  <2>. HIDE DEF whole
  <2>. QED BY <1>1, <1>2, <1>3, <2>7, <2>8, <2>9 DEF A, whole, intro
<1>. QED BY <1>4, <1>5

(* One byte, from any state of the filter.                                 *)
LEMMA StepKeeps ==
  ASSUME IInv, NEW byte \in Byte, NEW locked \in BOOLEAN, step(byte, locked)
  PROVE  IInv' /\ StepPasses
<1>. USE ConstantFacts
<1>1. /\ osc \in Seq(Byte) /\ remaining \in 0..3 /\ Len(osc) <= MAX_OSC
      /\ last_title \in Seq(Seq(Byte)) /\ Len(last_title) <= 1
      /\ (remaining > 0 <=> state = "Utf8")
      /\ osc # <<>> => state \in {"Osc", "OscEsc"}
      /\ taken' = byte
  BY DEF IInv, TypeOK, OscBounded, step
<1>2. /\ <<>> \in Seq(Byte) /\ <<byte>> \in Seq(Byte) /\ Len(<<>>) = 0
      /\ Append(<<>>, byte) = <<byte>>
      /\ <<byte>> \o <<>> = <<byte>>
  BY ConcatEmptySeq
<1>3. ASSUME written' \in Seq(Byte), state' \in State, remaining' \in 0..3,
             remaining' > 0 <=> state' = "Utf8", last_title' = last_title,
             osc' \in Seq(Byte), Len(osc') <= MAX_OSC,
             osc' # <<>> => state' \in {"Osc", "OscEsc"},
             written' \o Withheld' = Append(Withheld, byte)
      PROVE  IInv' /\ StepPasses
  <2>1. written' \in Seq(Byte \cup {LOCK_PREFIX}) /\ Unmarked(written') = written'
    BY <1>3, SeqMonotonic, UnmarkedPlain
  <2>. QED BY <1>1, <1>3, <2>1 DEF IInv, TypeOK, OscBounded, StepPasses
<1>4. CASE state = "Ground" /\ StepGround(byte, <<>>) /\ UNCHANGED <<osc, last_title>>
  <2>1. osc = <<>> /\ Withheld = <<>>
    BY <1>1, <1>4 DEF Withheld
  <2>2. /\ written' \in Seq(Byte) /\ written' \o Withheld' = Append(<<>>, byte)
        /\ state' \in {"Ground", "Esc", "Utf8"}
        /\ remaining' \in 0..3 /\ (remaining' > 0 <=> state' = "Utf8")
    BY <1>1, <1>2, <1>4, GroundWrites
  <2>. QED BY <1>1, <1>2, <1>3, <1>4, <2>1, <2>2 DEF State
<1>5. CASE state = "Utf8" /\ StepUtf8(byte) /\ UNCHANGED <<osc, last_title>>
  <2>1. osc = <<>> /\ Withheld = <<>> /\ remaining \in 1..3
    BY <1>1, <1>5 DEF Withheld
  <2>2. CASE /\ remaining' = remaining - 1
             /\ state' = IF remaining = 1 THEN "Ground" ELSE "Utf8"
             /\ written' = <<byte>>
    <3>1. Withheld' = <<>>
      BY <2>2 DEF Withheld
    <3>2. remaining' \in 0..3 /\ (remaining' > 0 <=> state' = "Utf8") /\ state' \in State
      BY <2>1, <2>2 DEF State
    <3>. QED BY <1>1, <1>2, <1>3, <1>5, <2>1, <2>2, <3>1, <3>2
  <2>3. CASE StepGround(byte, <<>>)
    <3>1. /\ written' \in Seq(Byte) /\ written' \o Withheld' = Append(<<>>, byte)
          /\ state' \in {"Ground", "Esc", "Utf8"}
          /\ remaining' \in 0..3 /\ (remaining' > 0 <=> state' = "Utf8")
      BY <1>1, <1>2, <1>5, <2>3, GroundWrites
    <3>. QED BY <1>1, <1>2, <1>3, <1>5, <2>1, <3>1 DEF State
  <2>. QED BY <1>5, <2>2, <2>3 DEF StepUtf8
<1>6. CASE /\ state = "Esc" /\ StepEsc(byte, <<>>)
           /\ osc' = (IF byte = "]" THEN <<>> ELSE osc) /\ UNCHANGED last_title
  <2>1. osc = <<>> /\ osc' = <<>> /\ Withheld = <<ESC>>
    BY <1>1, <1>6 DEF Withheld
  <2>2. /\ written' \in Seq(Byte) /\ written' \o Withheld' = <<>> \o <<ESC, byte>>
        /\ state' \in {"Ground", "Esc", "Csi", "Osc", "Str"} /\ remaining' = 0
    BY <1>2, <1>6, <2>1, EscWrites
  <2>3. <<>> \o <<ESC, byte>> = Append(<<ESC>>, byte)
    OBVIOUS
  <2>. QED BY <1>1, <1>2, <1>3, <1>6, <2>1, <2>2, <2>3 DEF State
<1>7. CASE \/ state = "Csi" /\ StepCsi(byte) /\ UNCHANGED <<osc, last_title>>
           \/ state = "Str" /\ StepStr(byte) /\ UNCHANGED <<osc, last_title>>
           \/ state = "StrEsc" /\ StepStrEsc(byte) /\ UNCHANGED <<osc, last_title>>
  <2>1. osc = <<>> /\ osc' = <<>> /\ Withheld = <<>> /\ last_title' = last_title
    BY <1>1, <1>7 DEF Withheld
  <2>2. state' \in {"Ground", "Csi", "Str", "StrEsc"} /\ remaining' = 0 /\ written' = <<byte>>
    BY <1>7 DEF StepCsi, StepStr, StepStrEsc, Goto
  <2>3. Withheld' = <<>>
    BY <2>2 DEF Withheld
  <2>. QED BY <1>1, <1>2, <1>3, <2>1, <2>2, <2>3 DEF State
<1>8. CASE state = "Osc" /\ StepOsc(byte, locked)
  <2>1. /\ Withheld = abandon_osc /\ abandon_osc \in Seq(Byte)
        /\ Append(abandon_osc, byte) = abandon_osc \o <<byte>>
    <3>1. Withheld = abandon_osc
      BY <1>8 DEF Withheld, abandon_osc
    <3>2. abandon_osc \in Seq(Byte)
      BY <1>1, ConcatProperties DEF abandon_osc
    <3>. QED BY <3>1, <3>2, AppendIsConcat
  <2>2. CASE byte = BEL /\ finish_osc(<<BEL>>, locked)
    <3>1. /\ written' \in Seq(Byte \cup {LOCK_PREFIX})
          /\ Unmarked(written') \o Withheld' = (<<ESC, "]">> \o osc) \o <<BEL>>
          /\ last_title' \in Seq(Seq(Byte)) /\ Len(last_title') <= 1
          /\ state' = "Ground" /\ remaining' = 0 /\ osc' = <<>>
      BY <1>2, <1>8, <2>2, FinishWrites
    <3>2. StepPasses
      BY <1>1, <2>1, <2>2, <3>1 DEF StepPasses, abandon_osc
    <3>. QED BY <1>1, <1>2, <3>1, <3>2 DEF IInv, TypeOK, OscBounded, State
  <2>3. CASE byte = ESC /\ Goto("OscEsc", <<>>) /\ UNCHANGED <<osc, last_title>>
    <3>1. state' = "OscEsc" /\ remaining' = 0 /\ written' = <<>>
      BY <2>3 DEF Goto
    <3>2. Withheld' = abandon_osc \o <<ESC>>
      <4>1. Withheld' = <<ESC, "]">> \o osc \o <<ESC>>
        BY <2>3, <3>1 DEF Withheld
      <4>. QED BY <4>1 DEF abandon_osc
    <3>3. abandon_osc \o <<ESC>> \in Seq(Byte)
      BY <2>1, ConcatProperties
    <3>4. written' \o Withheld' = Append(Withheld, byte)
      BY <2>1, <2>3, <3>1, <3>2, <3>3, ConcatEmptySeq
    <3>. QED BY <1>1, <1>2, <1>3, <2>3, <3>1, <3>4 DEF State
  <2>4. CASE /\ StepGround(byte, abandon_osc) /\ osc' = <<>> /\ UNCHANGED last_title
    <3>1. /\ written' \in Seq(Byte) /\ written' \o Withheld' = Append(abandon_osc, byte)
          /\ state' \in {"Ground", "Esc", "Utf8"}
          /\ remaining' \in 0..3 /\ (remaining' > 0 <=> state' = "Utf8")
      BY <1>2, <2>1, <2>4, GroundWrites
    <3>. QED BY <1>1, <1>2, <1>3, <2>1, <2>4, <3>1 DEF State
  <2>5. CASE /\ Len(osc) < MAX_OSC /\ osc' = Append(osc, byte) /\ Goto("Osc", <<>>)
             /\ UNCHANGED last_title
    <3>1. state' = "Osc" /\ remaining' = 0 /\ written' = <<>>
      BY <2>5 DEF Goto
    <3>2. osc' \in Seq(Byte) /\ Len(osc') <= MAX_OSC /\ osc' = osc \o <<byte>>
      BY <1>1, <2>5, AppendProperties, AppendIsConcat
    <3>3. Withheld' = <<ESC, "]">> \o osc'
      BY <3>1 DEF Withheld
    <3>4. <<ESC, "]">> \o (osc \o <<byte>>) = (<<ESC, "]">> \o osc) \o <<byte>>
      BY <1>1, <1>2
    <3>5. written' \o Withheld' = Append(Withheld, byte)
      <4>1. Withheld' \in Seq(Byte)
        BY <3>2, <3>3, ConcatProperties
      <4>. QED BY <2>1, <3>1, <3>2, <3>3, <3>4, <4>1, ConcatEmptySeq DEF abandon_osc
    <3>. QED BY <1>1, <1>2, <1>3, <2>5, <3>1, <3>2, <3>5 DEF State
  <2>. QED BY <1>8, <2>2, <2>3, <2>4, <2>5 DEF StepOsc
<1>9. CASE state = "OscEsc" /\ StepOscEsc(byte, locked)
  <2>1. /\ abandon_osc \in Seq(Byte) /\ Withheld = abandon_osc \o <<ESC>>
        /\ Append(Withheld, byte) = abandon_osc \o <<ESC, byte>>
    <3>1. abandon_osc \in Seq(Byte)
      BY <1>1, ConcatProperties DEF abandon_osc
    <3>2. Withheld = abandon_osc \o <<ESC>>
      <4>1. Withheld = <<ESC, "]">> \o osc \o <<ESC>>
        BY <1>9 DEF Withheld
      <4>. QED BY <4>1 DEF abandon_osc
    <3>3. Withheld \in Seq(Byte) /\ Append(Withheld, byte) = Withheld \o <<byte>>
      BY <3>1, <3>2, ConcatProperties, AppendIsConcat
    <3>4. (abandon_osc \o <<ESC>>) \o <<byte>> = abandon_osc \o (<<ESC>> \o <<byte>>)
      BY <1>2, <3>1
    <3>. QED BY <3>1, <3>2, <3>3, <3>4, Pair
  <2>2. CASE byte = "\\" /\ finish_osc(<<ESC, "\\">>, locked)
    <3>1. /\ written' \in Seq(Byte \cup {LOCK_PREFIX})
          /\ Unmarked(written') \o Withheld' = (<<ESC, "]">> \o osc) \o <<ESC, "\\">>
          /\ last_title' \in Seq(Seq(Byte)) /\ Len(last_title') <= 1
          /\ state' = "Ground" /\ remaining' = 0 /\ osc' = <<>>
      <4>1. <<ESC, "\\">> \in Seq(Byte)
        OBVIOUS
      <4>. QED BY <1>9, <2>2, <4>1, FinishWrites
    <3>2. StepPasses
      BY <1>1, <2>1, <2>2, <3>1 DEF StepPasses, abandon_osc
    <3>. QED BY <1>1, <1>2, <3>1, <3>2 DEF IInv, TypeOK, OscBounded, State
  <2>3. CASE StepEsc(byte, abandon_osc) /\ osc' = <<>> /\ UNCHANGED last_title
    <3>1. /\ written' \in Seq(Byte)
          /\ written' \o Withheld' = abandon_osc \o <<ESC, byte>>
          /\ state' \in {"Ground", "Esc", "Csi", "Osc", "Str"} /\ remaining' = 0
      BY <1>2, <2>1, <2>3, EscWrites
    <3>. QED BY <1>1, <1>2, <1>3, <2>1, <2>3, <3>1 DEF State
  <2>. QED BY <1>9, <2>2, <2>3 DEF StepOscEsc
<1>. QED BY <1>4, <1>5, <1>6, <1>7, <1>8, <1>9 DEF step

(* The start has the invariant.                                            *)
LEMMA Initial == Init => IInv
BY ConstantFacts DEF Init, IInv, TypeOK, OscBounded, State

(* Every reachable state has it.                                           *)
LEMMA Invariant == Spec => []IInv
<1>1. IInv /\ [Next]_fvars => IInv'
  <2>1. IInv /\ Next => IInv'
    BY StepKeeps DEF Next
  <2>2. IInv /\ UNCHANGED fvars => IInv'
    BY DEF IInv, TypeOK, OscBounded, fvars
  <2>. QED BY <2>1, <2>2
<1>. QED BY Initial, <1>1, PTL DEF Spec

(* The filter's variables keep their types for every alphabet: what it     *)
(* writes is the command's bytes and the lock mark, and it remembers at    *)
(* most one title (title.rs:25-40).                                        *)
THEOREM FilterTypeOK == Spec => []TypeOK
<1>1. IInv => TypeOK
  BY DEF IInv
<1>. QED BY Invariant, <1>1, PTL

(* At most MAX_OSC symbols are ever held back, and only those of an OSC in *)
(* progress (title.rs:105-124).                                            *)
THEOREM FilterOscBounded == Spec => []OscBounded
<1>1. IInv => OscBounded
  BY DEF IInv
<1>. QED BY Invariant, <1>1, PTL

(* Nothing the command writes is lost, changed or reordered, whatever it   *)
(* writes: the lock mark is all the filter adds (title.rs:43-170).         *)
THEOREM FilterPassesThrough == Spec => PassesThrough
<1>1. IInv /\ [Next]_fvars => [Unmarked(written') \o Withheld' = Append(Withheld, taken')]_fvars
  BY StepKeeps DEF Next, StepPasses
<1>. QED BY Invariant, <1>1, PTL DEF Spec, PassesThrough
===============================================================================
