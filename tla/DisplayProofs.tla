------------------------------ MODULE DisplayProofs ------------------------------
(***************************************************************************)
(* Theorems about the output filter in front of a terminal, and about what *)
(* the relay loop shows there, for every alphabet and every limit.         *)
(*                                                                         *)
(* What a terminal does with output is defined by recursion over the       *)
(* output.  The provers cannot use an induction rule whose parameter is an *)
(* operator; here induction goes over sets, from the well-foundedness of   *)
(* the numbers (SeqInduction), and a recursive function is what its        *)
(* definition says because such a function exists (TraceExists).           *)
(***************************************************************************)
EXTENDS RelayDisplay, TitleProofs, WellFoundedInduction

-------------------------------------------------------------------------------
(* Induction.                                                              *)

(* Every nonempty set of numbers has a least one.                          *)
LEMMA LeastNumber ==
  ASSUME NEW I, I \subseteq Nat, I # {}
  PROVE  \E i \in I : \A j \in I : i <= j
<1>. DEFINE less == {ss \in Nat \X Nat : ss[1] < ss[2]}
<1>1. IsWellFoundedOn(less, Nat)
  BY NatLessThanWellFounded DEF OpToRel
<1>2. \E i \in I : \A j \in I : ~(<<j, i>> \in less)
  <2>. HIDE DEF less
  <2>. QED BY <1>1, WFMin, Zenon
<1>3. \E i \in I : \A j \in I : ~(j < i)
  <2>1. \A i, j \in Nat : j < i => <<j, i>> \in less
    OBVIOUS
  <2>. QED BY <1>2, <2>1, Zenon
<1>. QED BY <1>3

(* A set of numbers that has 0, and k + 1 with k, has them all up to n.    *)
LEMMA UpTo ==
  ASSUME NEW n \in Nat, NEW P, 0 \in P, \A k \in 0..n : k \in P /\ k < n => k + 1 \in P
  PROVE  0..n \subseteq P
<1>. DEFINE I == (0..n) \ P
<1>. SUFFICES ASSUME I # {} PROVE FALSE
  OBVIOUS
<1>1. I \subseteq Nat
  OBVIOUS
<1>2. PICK i \in I : \A j \in I : i <= j
  <2>. HIDE DEF I
  <2>. QED BY <1>1, LeastNumber
<1>3. i \in 0..n /\ i # 0 /\ i \notin P
  OBVIOUS
<1>4. i - 1 \in 0..n /\ i - 1 < n /\ i - 1 \notin I /\ (i - 1) + 1 = i
  BY <1>2, <1>3
<1>5. i - 1 \in P
  BY <1>4
<1>. QED BY <1>3, <1>4, <1>5

(* A set of sequences that has the empty one, and every longer one with    *)
(* the shorter, has them all.                                              *)
LEMMA SeqInduction ==
  ASSUME NEW S, NEW P, <<>> \in P,
         \A s \in Seq(S), b \in S : s \in P => Append(s, b) \in P
  PROVE  Seq(S) \subseteq P
<1>. DEFINE I == {Len(s) : s \in Seq(S) \ P}
<1>. SUFFICES ASSUME NEW bad \in Seq(S) \ P PROVE FALSE
  OBVIOUS
<1>1. I \subseteq Nat /\ I # {}
  BY LenProperties
<1>2. PICK i \in I : \A j \in I : i <= j
  <2>. HIDE DEF I
  <2>. QED BY <1>1, LeastNumber
<1>3. PICK s \in Seq(S) \ P : Len(s) = i
  OBVIOUS
<1>4. PICK u \in Seq(S), b \in S : s = Append(u, b)
  <2>1. s # <<>>
    OBVIOUS
  <2>. QED BY <2>1, SequenceEmptyOrAppend
<1>5. Len(u) \in Nat /\ Len(s) = Len(u) + 1
  BY <1>4, AppendProperties, LenProperties
<1>6. u \in P
  BY <1>2, <1>3, <1>5
<1>. QED BY <1>3, <1>4, <1>6

-------------------------------------------------------------------------------
(* The terminal reads output byte by byte.                                 *)

(* The terminal's states f while it reads the first n of the bytes.        *)
Trace(f, n, t, bytes) ==
  f = [k \in 0..n |-> IF k = 0 THEN t ELSE TerminalNext(f[k - 1], bytes[k])]

(* There are such states for every n.                                      *)
LEMMA TraceExists ==
  ASSUME NEW t, NEW bytes, NEW n \in Nat
  PROVE  \E f : Trace(f, n, t, bytes)
<1>. DEFINE P == {m \in 0..n : \E f : Trace(f, m, t, bytes)}
<1>1. 0 \in P
  <2>1. Trace([k \in 0..0 |-> t], 0, t, bytes)
    BY DEF Trace
  <2>. QED BY <2>1
<1>2. ASSUME NEW m \in 0..n, m \in P, m < n PROVE m + 1 \in P
  <2>1. PICK f : f = [k \in 0..m |-> IF k = 0 THEN t ELSE TerminalNext(f[k - 1], bytes[k])]
    BY <1>2 DEF Trace
  <2>. DEFINE g == [k \in 0..m + 1 |->
                      IF k = m + 1 THEN TerminalNext(f[m], bytes[m + 1]) ELSE f[k]]
  <2>2. ASSUME NEW k \in 0..m + 1
        PROVE  g[k] = IF k = 0 THEN t ELSE TerminalNext(g[k - 1], bytes[k])
    <3>1. CASE k = m + 1
      <4>1. /\ g[k] = TerminalNext(f[m], bytes[m + 1]) /\ g[m] = f[m]
            /\ k # 0 /\ k - 1 = m
        BY <3>1
      <4>. QED BY <3>1, <4>1
    <3>2. CASE k \in 0..m
      <4>1. g[k] = f[k] /\ (k # 0 => g[k - 1] = f[k - 1])
        BY <3>2
      <4>2. f[k] = IF k = 0 THEN t ELSE TerminalNext(f[k - 1], bytes[k])
        BY <2>1, <3>2
      <4>. QED BY <4>1, <4>2
    <3>. QED BY <3>1, <3>2
  <2>3. g = [k \in 0..m + 1 |-> IF k = 0 THEN t ELSE TerminalNext(g[k - 1], bytes[k])]
    <3>1. g = [k \in 0..m + 1 |-> g[k]]
      OBVIOUS
    <3>. HIDE DEF g
    <3>. QED BY <2>2, <3>1
  <2>4. \E h : Trace(h, m + 1, t, bytes)
    BY <2>3 DEF Trace
  <2>. QED BY <1>2, <2>4
<1>3. 0..n \subseteq P
  <2>. HIDE DEF P
  <2>. QED BY <1>1, <1>2, UpTo
<1>. QED BY <1>3

(* So TerminalAfter is the last of them.                                   *)
LEMMA AfterTrace ==
  ASSUME NEW t, NEW bytes, Len(bytes) \in Nat
  PROVE  \E f : Trace(f, Len(bytes), t, bytes) /\ TerminalAfter(t, bytes) = f[Len(bytes)]
<1>. DEFINE after == CHOOSE f : Trace(f, Len(bytes), t, bytes)
<1>1. Trace(after, Len(bytes), t, bytes)
  BY TraceExists, Zenon
<1>2. TerminalAfter(t, bytes) = after[Len(bytes)]
  BY Zenon DEF TerminalAfter, Trace
<1>. QED BY <1>1, <1>2, Zenon

(* On output that begins alike they begin alike.                           *)
LEMMA TracesAgree ==
  ASSUME NEW t, NEW a, NEW b, NEW n \in Nat, NEW m \in Nat, n <= m,
         \A k \in 1..n : a[k] = b[k],
         NEW f, Trace(f, n, t, a), NEW g, Trace(g, m, t, b)
  PROVE  f[n] = g[n]
<1>. DEFINE P == {k \in 0..n : f[k] = g[k]}
<1>1. \A k \in 0..n : f[k] = IF k = 0 THEN t ELSE TerminalNext(f[k - 1], a[k])
  BY DEF Trace
<1>2. \A k \in 0..m : g[k] = IF k = 0 THEN t ELSE TerminalNext(g[k - 1], b[k])
  BY DEF Trace
<1>3. 0 \in P
  BY <1>1, <1>2
<1>4. ASSUME NEW k \in 0..n, k \in P, k < n PROVE k + 1 \in P
  <2>1. /\ k + 1 \in 1..n /\ k + 1 \in 0..n /\ k + 1 \in 0..m
        /\ k + 1 # 0 /\ (k + 1) - 1 = k
    BY <1>4
  <2>2. /\ f[k + 1] = TerminalNext(f[k], a[k + 1])
        /\ g[k + 1] = TerminalNext(g[k], b[k + 1])
    BY <1>1, <1>2, <2>1
  <2>3. f[k] = g[k] /\ a[k + 1] = b[k + 1]
    BY <1>4, <2>1
  <2>. QED BY <2>1, <2>2, <2>3
<1>5. 0..n \subseteq P
  <2>. HIDE DEF P
  <2>. QED BY <1>3, <1>4, UpTo
<1>. QED BY <1>5

(* Reading nothing.                                                        *)
LEMMA ReadsNothing == \A t : TerminalAfter(t, <<>>) = t
<1>. TAKE t
<1>1. PICK f : Trace(f, Len(<<>>), t, <<>>) /\ TerminalAfter(t, <<>>) = f[Len(<<>>)]
  <2>1. Len(<<>>) \in Nat
    BY EmptySeq
  <2>. QED BY <2>1, AfterTrace
<1>2. Len(<<>>) = 0
  BY EmptySeq
<1>. QED BY <1>1, <1>2 DEF Trace

(* Reading one byte more.                                                  *)
LEMMA ReadsOne ==
  ASSUME NEW t, NEW S, NEW s \in Seq(S), NEW b \in S
  PROVE  TerminalAfter(t, Append(s, b)) = TerminalNext(TerminalAfter(t, s), b)
<1>1. PICK n \in Nat : n = Len(s)
  BY LenProperties
<1>2. /\ Append(s, b) \in Seq(S) /\ Len(Append(s, b)) = n + 1
      /\ \A k \in 1..n : s[k] = Append(s, b)[k]
      /\ Append(s, b)[n + 1] = b
  BY <1>1, AppendProperties
<1>3. PICK a : a = Append(s, b)
  OBVIOUS
<1>4. PICK f : Trace(f, n, t, s) /\ TerminalAfter(t, s) = f[n]
  BY <1>1, AfterTrace
<1>5. PICK g : Trace(g, n + 1, t, a) /\ TerminalAfter(t, a) = g[n + 1]
  <2>1. Len(a) = n + 1 /\ n + 1 \in Nat
    BY <1>2, <1>3
  <2>. QED BY <2>1, AfterTrace
<1>6. f[n] = g[n]
  <2>1. n + 1 \in Nat /\ n <= n + 1
    OBVIOUS
  <2>2. \A k \in 1..n : s[k] = a[k]
    BY <1>2, <1>3
  <2>. QED BY <1>4, <1>5, <2>1, <2>2, TracesAgree
<1>7. g[n + 1] = TerminalNext(g[n], a[n + 1])
  <2>1. n + 1 \in 0..n + 1 /\ n + 1 # 0 /\ (n + 1) - 1 = n
    OBVIOUS
  <2>. QED BY <1>5, <2>1 DEF Trace
<1>8. a[n + 1] = b
  BY <1>2, <1>3
<1>9. TerminalAfter(t, a) = TerminalNext(TerminalAfter(t, s), b)
  BY <1>4, <1>5, <1>6, <1>7, <1>8, Zenon
<1>. QED BY <1>3, <1>9, Zenon

(* Reading two pieces of output is reading both at once.                   *)
LEMMA ReadsOn ==
  ASSUME NEW t, NEW S, NEW s \in Seq(S), NEW u \in Seq(S)
  PROVE  TerminalAfter(t, s \o u) = TerminalAfter(TerminalAfter(t, s), u)
<1>. DEFINE P == {v \in Seq(S) : TerminalAfter(t, s \o v) = TerminalAfter(TerminalAfter(t, s), v)}
<1>1. <<>> \in P
  BY EmptySeq, ConcatEmptySeq, ReadsNothing
<1>2. ASSUME NEW v \in Seq(S), NEW b \in S, v \in P PROVE Append(v, b) \in P
  <2>1. Append(v, b) = v \o <<b>> /\ Append(v, b) \in Seq(S) /\ <<b>> \in Seq(S)
    BY AppendIsConcat, AppendProperties
  <2>2. (s \o v) \o <<b>> = s \o (v \o <<b>>) /\ s \o v \in Seq(S)
    BY <2>1, ConcatAssociative, ConcatProperties
  <2>3. Append(s \o v, b) = (s \o v) \o <<b>>
    BY <2>2, AppendIsConcat
  <2>4. s \o Append(v, b) = Append(s \o v, b)
    BY <2>1, <2>2, <2>3, Zenon
  <2>5. TerminalAfter(t, Append(s \o v, b)) = TerminalNext(TerminalAfter(t, s \o v), b)
    <3>1. PICK w \in Seq(S) : w = s \o v
      BY <2>2
    <3>2. TerminalAfter(t, Append(w, b)) = TerminalNext(TerminalAfter(t, w), b)
      BY ReadsOne
    <3>. QED BY <3>1, <3>2, Zenon
  <2>6. TerminalAfter(TerminalAfter(t, s), Append(v, b))
          = TerminalNext(TerminalAfter(TerminalAfter(t, s), v), b)
    BY ReadsOne
  <2>7. TerminalAfter(t, s \o v) = TerminalAfter(TerminalAfter(t, s), v)
    BY <1>2
  <2>8. TerminalAfter(t, s \o Append(v, b)) = TerminalAfter(TerminalAfter(t, s), Append(v, b))
    BY <2>4, <2>5, <2>6, <2>7, Zenon
  <2>. QED BY <2>1, <2>8
<1>3. Seq(S) \subseteq P
  <2>. HIDE DEF P
  <2>. QED BY <1>1, <1>2, SeqInduction
<1>. QED BY <1>3

(* Reading one and two bytes.                                              *)
LEMMA ReadsByte == \A t, b : TerminalAfter(t, <<b>>) = TerminalNext(t, b)
<1>. SUFFICES ASSUME NEW t, NEW b PROVE TerminalAfter(t, <<b>>) = TerminalNext(t, b)
  OBVIOUS
<1>1. <<>> \in Seq({b}) /\ <<b>> = Append(<<>>, b)
  BY EmptySeq
<1>2. TerminalAfter(t, Append(<<>>, b)) = TerminalNext(TerminalAfter(t, <<>>), b)
  BY <1>1, ReadsOne
<1>. QED BY <1>1, <1>2, ReadsNothing

LEMMA ReadsPair ==
  \A t, a, b : TerminalAfter(t, <<a, b>>) = TerminalNext(TerminalNext(t, a), b)
<1>. SUFFICES ASSUME NEW t, NEW a, NEW b
              PROVE  TerminalAfter(t, <<a, b>>) = TerminalNext(TerminalNext(t, a), b)
  OBVIOUS
<1>. DEFINE S == {a, b}
<1>1. <<a>> \in Seq(S) /\ b \in S /\ <<a, b>> = Append(<<a>>, b)
  OBVIOUS
<1>2. TerminalAfter(t, Append(<<a>>, b)) = TerminalNext(TerminalAfter(t, <<a>>), b)
  <2>1. PICK s \in Seq(S) : s = <<a>>
    BY <1>1
  <2>2. TerminalAfter(t, Append(s, b)) = TerminalNext(TerminalAfter(t, s), b)
    <3>. HIDE DEF S
    <3>. QED BY <1>1, ReadsOne
  <2>. QED BY <2>1, <2>2, Zenon
<1>. QED BY <1>1, <1>2, ReadsByte

-------------------------------------------------------------------------------
(* What the terminal makes of bytes and sequences.                         *)

(* What is written, and what an OSC may hold of it.                        *)
Shown == Byte \cup {LOCK_PREFIX, "NAME", "HINT", "2;"}
Text  == Shown \ {ESC, BEL, "CAN"}

Parsers == {"ground", "utf8", "esc", "inter", "csi", "string", "osc", "oscesc"}

Terminals ==
  [parser : Parsers,
   text : Seq(Shown), more : Int, title : Seq(Shown)]

(* The constants, as the proofs use them.                                  *)
LEMMA ByteFacts ==
  /\ ESC \notin Text /\ BEL \notin Text /\ "CAN" \notin Text /\ LOCK_PREFIX \in Text
  /\ "NAME" \in Text /\ "HINT" \in Text /\ "2;" \in Text
  /\ {ESC, BEL, "]", "\\"} \subseteq Byte /\ Byte \subseteq Shown /\ Text \subseteq Shown
  /\ LOCK_PREFIX \notin Byte
BY TitleAssumption DEF Shown, Text, ESC, BEL, LOCK_PREFIX

LEMMA LeadFacts ==
  /\ DOMAIN More = DOMAIN Lead /\ DOMAIN Lead = {"L1", "L2", "L3"}
  /\ \A b \in DOMAIN Lead : More[b] = Lead[b] /\ Lead[b] \in 1..3
BY DEF More, Lead

(* A terminal enters a state.                                              *)
LEMMA Entering ==
  ASSUME NEW t \in Terminals, NEW p \in Parsers
  PROVE  /\ Enter(t, p) \in Terminals /\ Enter(t, p).parser = p
         /\ Enter(t, p).title = t.title /\ Enter(t, p).text = <<>> /\ Enter(t, p).more = 0
<1>1. <<>> \in Seq(Shown)
  BY EmptySeq
<1>. DEFINE e == [t EXCEPT !.parser = p, !.text = <<>>, !.more = 0]
<1>2. e \in Terminals
  <2>1. PICK text \in Seq(Shown) : text = <<>>
    BY <1>1
  <2>2. PICK more \in Int : more = 0
    OBVIOUS
  <2>3. [t EXCEPT !.parser = p, !.text = text, !.more = more] \in Terminals
    BY DEF Terminals
  <2>. QED BY <2>1, <2>2, <2>3
<1>3. e.parser = p /\ e.title = t.title /\ e.text = <<>> /\ e.more = 0
  BY DEF Terminals
<1>. QED BY <1>2, <1>3 DEF Enter

LEMMA Changing ==
  ASSUME NEW t \in Terminals, NEW p \in Parsers
  PROVE  /\ [t EXCEPT !.parser = p] \in Terminals
         /\ [t EXCEPT !.parser = p].parser = p /\ [t EXCEPT !.parser = p].title = t.title
         /\ [t EXCEPT !.parser = p].text = t.text
BY DEF Terminals

(* What it was in before leaves nothing.                                   *)
LEMMA EnteringAgain ==
  ASSUME NEW t \in Terminals, NEW p, NEW q
  PROVE  /\ Enter(Enter(t, q), p) = Enter(t, p)
         /\ Enter([t EXCEPT !.parser = q], p) = Enter(t, p)
BY DEF Enter, Terminals

(* Escape.                                                                 *)
LEMMA ReadsEscape ==
  ASSUME NEW t \in Terminals
  PROVE  TerminalNext(t, ESC) = IF t.parser = "osc" THEN [t EXCEPT !.parser = "oscesc"]
                                ELSE Enter(t, "esc")
BY DEF TerminalNext, ESC

(* A byte outside of sequences.                                            *)
LEMMA ReadsPlain ==
  ASSUME NEW t \in Terminals, NEW b, b # ESC,
         t.parser = "ground" \/ (t.parser = "utf8" /\ b \notin Cont)
  PROVE  TerminalNext(t, b) = IF b \in DOMAIN Lead
                              THEN [Enter(t, "utf8") EXCEPT !.more = Lead[b]]
                              ELSE Enter(t, "ground")
<1>1. b = "CAN" => b \notin DOMAIN Lead
  BY LeadFacts
<1>2. Printed(t, b) = IF b \in DOMAIN Lead THEN [Enter(t, "utf8") EXCEPT !.more = Lead[b]]
                      ELSE Enter(t, "ground")
  BY LeadFacts DEF Printed
<1>. QED BY <1>1, <1>2 DEF TerminalNext, ESC

(* A byte of a character.                                                  *)
LEMMA ReadsRest ==
  ASSUME NEW t \in Terminals, NEW b \in Cont, t.parser = "utf8"
  PROVE  TerminalNext(t, b) = IF t.more = 1 THEN Enter(t, "ground")
                              ELSE [t EXCEPT !.more = t.more - 1]
<1>1. b # "CAN" /\ b # "ESC"
  BY TerminalAssumption DEF ESC
<1>. QED BY <1>1 DEF TerminalNext

(* The byte after Escape.                                                  *)
LEMMA ReadsEscaped ==
  ASSUME NEW t \in Terminals, NEW b, b \notin Inter, b # ESC, t.parser = "osc" => b # "\\"
  PROVE  TerminalNext(TerminalNext(t, ESC), b) =
           CASE b = "["            -> Enter(t, "csi")
             [] b = "]"            -> Enter(t, "osc")
             [] b \in StringStart  -> Enter(t, "string")
             [] OTHER              -> Enter(t, "ground")
<1>. DEFINE e == TerminalNext(t, ESC)
<1>1. e \in Terminals /\ e.parser \in {"esc", "oscesc"} /\ (e.parser = "oscesc" => b # "\\")
      /\ \A p \in {"csi", "osc", "string", "ground"} : Enter(e, p) = Enter(t, p)
  <2>1. CASE t.parser = "osc"
    <3>1. e = [t EXCEPT !.parser = "oscesc"]
      BY <2>1, ReadsEscape
    <3>2. "oscesc" \in Parsers
      BY DEF Parsers
    <3>. HIDE DEF e
    <3>. QED BY <2>1, <3>1, <3>2, Changing, EnteringAgain
  <2>2. CASE t.parser # "osc"
    <3>1. e = Enter(t, "esc")
      BY <2>2, ReadsEscape
    <3>2. "esc" \in Parsers
      BY DEF Parsers
    <3>. HIDE DEF e
    <3>. QED BY <3>1, <3>2, Entering, EnteringAgain
  <2>. QED BY <2>1, <2>2
<1>. HIDE DEF e
<1>2. b # "ESC"
  BY DEF ESC
<1>3. TerminalNext(e, b) = IF b = "CAN" THEN Enter(e, "ground") ELSE Escaped(e, b)
  BY <1>1, <1>2 DEF TerminalNext
<1>4. Escaped(e, b) = CASE b = "["            -> Enter(e, "csi")
                        [] b = "]"            -> Enter(e, "osc")
                        [] b \in StringStart  -> Enter(e, "string")
                        [] OTHER              -> Enter(e, "ground")
  BY DEF Escaped, StringStart
<1>5. CASE b = "CAN"
  <2>1. b # "[" /\ b # "]" /\ b \notin StringStart
    BY <1>5 DEF StringStart
  <2>. QED BY <1>1, <1>3, <1>5, <2>1 DEF e
<1>6. CASE b # "CAN"
  <2>1. TerminalNext(e, b) = Escaped(e, b)
    BY <1>3, <1>6
  <2>. QED BY <1>1, <1>4, <2>1 DEF e
<1>. QED BY <1>5, <1>6

(* An OSC begins.                                                          *)
LEMMA ReadsIntroducer ==
  ASSUME NEW t \in Terminals
  PROVE  TerminalAfter(t, <<ESC, "]">>) = Enter(t, "osc")
<1>. DEFINE b == "]"
<1>1. b \notin Inter /\ b # ESC /\ b # "\\" /\ b # "["
  BY TerminalAssumption DEF ESC
<1>2. TerminalNext(TerminalNext(t, ESC), b) =
        CASE b = "["            -> Enter(t, "csi")
          [] b = "]"            -> Enter(t, "osc")
          [] b \in StringStart  -> Enter(t, "string")
          [] OTHER              -> Enter(t, "ground")
  <2>. HIDE DEF b
  <2>. QED BY <1>1, ReadsEscaped
<1>3. TerminalNext(TerminalNext(t, ESC), "]") = Enter(t, "osc")
  BY <1>2 DEF StringStart
<1>. QED BY <1>3, ReadsPair

(* It collects its text.                                                   *)
LEMMA ReadsText ==
  ASSUME NEW t \in Terminals, NEW body \in Seq(Text)
  PROVE  TerminalAfter(Enter(t, "osc"), body) = [Enter(t, "osc") EXCEPT !.text = body]
<1>. DEFINE o == Enter(t, "osc")
            P == {s \in Seq(Text) : TerminalAfter(o, s) = [o EXCEPT !.text = s]}
<1>1. o \in Terminals /\ o.parser = "osc" /\ o.text = <<>>
  <2>1. "osc" \in Parsers
    BY DEF Parsers
  <2>. QED BY <2>1, Entering
<1>. HIDE DEF o
<1>2. <<>> \in P
  <2>1. [o EXCEPT !.text = <<>>] = o
    BY <1>1 DEF Terminals
  <2>2. TerminalAfter(o, <<>>) = o
    BY ReadsNothing
  <2>. QED BY <2>1, <2>2, EmptySeq
<1>3. ASSUME NEW s \in Seq(Text), NEW b \in Text, s \in P PROVE Append(s, b) \in P
  <2>1. TerminalAfter(o, Append(s, b)) = TerminalNext([o EXCEPT !.text = s], b)
    BY <1>3, ReadsOne
  <2>2. b # "CAN" /\ b # "ESC" /\ b # "BEL"
    BY DEF Text, ESC, BEL
  <2>. DEFINE r == [o EXCEPT !.text = s]
  <2>3. r.parser = "osc" /\ r.text = s /\ \A u : [r EXCEPT !.text = u] = [o EXCEPT !.text = u]
    BY <1>1 DEF Terminals
  <2>. HIDE DEF r
  <2>4. TerminalNext(r, b) = [r EXCEPT !.text = Append(r.text, b)]
    BY <2>2, <2>3 DEF TerminalNext
  <2>5. TerminalAfter(o, Append(s, b)) = [o EXCEPT !.text = Append(s, b)]
    BY <2>1, <2>3, <2>4 DEF r
  <2>. QED BY <2>5, AppendProperties
<1>4. Seq(Text) \subseteq P
  <2>. HIDE DEF P
  <2>. QED BY <1>2, <1>3, SeqInduction
<1>. QED BY <1>4 DEF o

(* An OSC that was not ended.                                              *)
LEMMA ReadsUnended ==
  ASSUME NEW t \in Terminals, NEW body \in Seq(Text)
  PROVE  /\ TerminalAfter(t, <<ESC, "]">> \o body) = [Enter(t, "osc") EXCEPT !.text = body]
         /\ <<ESC, "]">> \o body \in Seq(Shown)
<1>1. <<ESC, "]">> \in Seq(Shown) /\ body \in Seq(Shown)
  <2>1. ESC \in Shown /\ "]" \in Shown
    BY ByteFacts
  <2>2. <<ESC, "]">> \in Seq(Shown)
    BY <2>1
  <2>. QED BY <2>2, ByteFacts, SeqMonotonic
<1>2. PICK i \in Seq(Shown) : i = <<ESC, "]">>
  BY <1>1
<1>3. TerminalAfter(t, i \o body) = TerminalAfter(TerminalAfter(t, i), body)
      /\ i \o body \in Seq(Shown)
  BY <1>1, ReadsOn, ConcatProperties
<1>4. TerminalAfter(t, i) = Enter(t, "osc")
  BY <1>2, ReadsIntroducer
<1>5. TerminalAfter(Enter(t, "osc"), body) = [Enter(t, "osc") EXCEPT !.text = body]
  BY ReadsText
<1>. QED BY <1>2, <1>3, <1>4, <1>5, Zenon

(* What a complete OSC leaves.                                             *)
Ended(t, body) ==
  IF IsTitle(body) THEN [Enter(t, "ground") EXCEPT !.title = Tail(body)] ELSE Enter(t, "ground")

(* The terminator of an OSC, BEL or ESC \.                                 *)
LEMMA ReadsTerminator ==
  ASSUME NEW t \in Terminals, NEW body \in Seq(Text), NEW end \in {<<BEL>>, <<ESC, "\\">>}
  PROVE  /\ TerminalAfter(t, (<<ESC, "]">> \o body) \o end) = Ended(t, body)
         /\ (<<ESC, "]">> \o body) \o end \in Seq(Shown)
         /\ Ended(t, body) \in Terminals /\ Ended(t, body).parser = "ground"
         /\ Ended(t, body).title = IF IsTitle(body) THEN Tail(body) ELSE t.title
<1>. DEFINE o == [Enter(t, "osc") EXCEPT !.text = body]
            x == [o EXCEPT !.parser = "oscesc"]
<1>1. end \in Seq(Shown)
  <2>1. BEL \in Shown /\ ESC \in Shown /\ "\\" \in Shown
    BY ByteFacts
  <2>2. <<BEL>> \in Seq(Shown) /\ <<ESC, "\\">> \in Seq(Shown)
    BY <2>1
  <2>. QED BY <2>2
<1>2. /\ TerminalAfter(t, <<ESC, "]">> \o body) = o
      /\ <<ESC, "]">> \o body \in Seq(Shown)
  BY ReadsUnended
<1>3. /\ TerminalAfter(t, (<<ESC, "]">> \o body) \o end) = TerminalAfter(o, end)
      /\ (<<ESC, "]">> \o body) \o end \in Seq(Shown)
  <2>. HIDE DEF o
  <2>1. PICK w \in Seq(Shown) : w = <<ESC, "]">> \o body
    BY <1>2
  <2>2. TerminalAfter(t, w \o end) = TerminalAfter(TerminalAfter(t, w), end) /\ w \o end \in Seq(Shown)
    BY <1>1, ReadsOn, ConcatProperties
  <2>. QED BY <1>2, <2>1, <2>2, Zenon
<1>4. body \in Seq(Shown)
  BY ByteFacts, SeqMonotonic
<1>5. /\ o \in Terminals /\ o.parser = "osc" /\ o.text = body
      /\ \A p : Enter(o, p) = Enter(t, p)
  <2>1. PICK e \in Terminals : e = Enter(t, "osc") /\ e.parser = "osc"
    <3>1. "osc" \in Parsers
      BY DEF Parsers
    <3>. QED BY <3>1, Entering
  <2>2. \A p : Enter(e, p) = Enter(t, p)
    BY <2>1, EnteringAgain
  <2>3. \A p : Enter([e EXCEPT !.text = body], p) = Enter(e, p)
    BY DEF Enter, Terminals
  <2>4. /\ [e EXCEPT !.text = body] \in Terminals
        /\ [e EXCEPT !.text = body].parser = e.parser
        /\ [e EXCEPT !.text = body].text = body
    BY <1>4 DEF Terminals
  <2>5. o = [e EXCEPT !.text = body]
    BY <2>1
  <2>. HIDE DEF o
  <2>. QED BY <2>1, <2>2, <2>3, <2>4, <2>5
<1>6. /\ x \in Terminals /\ x.parser = "oscesc" /\ x.text = body
      /\ \A p : Enter(x, p) = Enter(t, p)
  <2>1. "oscesc" \in Parsers
    BY DEF Parsers
  <2>2. x = [o EXCEPT !.parser = "oscesc"]
    OBVIOUS
  <2>. HIDE DEF o, x
  <2>3. x \in Terminals /\ x.parser = "oscesc" /\ x.text = body
    BY <1>5, <2>1, <2>2, Changing
  <2>4. ASSUME NEW p PROVE Enter(x, p) = Enter(t, p)
    <3>1. Enter([o EXCEPT !.parser = "oscesc"], p) = Enter(o, p)
      BY <1>5, EnteringAgain
    <3>. QED BY <1>5, <2>2, <3>1
  <2>. QED BY <2>3, <2>4
<1>7. Obey(o) = Ended(t, body) /\ Obey(x) = Ended(t, body)
  <2>. HIDE DEF o, x
  <2>. QED BY <1>5, <1>6 DEF Obey, Ended, IsTitle, TitleStart
<1>8. TerminalAfter(o, end) = Ended(t, body)
  <2>1. CASE end = <<BEL>>
    <3>1. TerminalNext(o, BEL) = Obey(o)
      <4>. HIDE DEF o
      <4>. QED BY <1>5 DEF TerminalNext, BEL
    <3>. QED BY <1>7, <2>1, <3>1, ReadsByte
  <2>2. CASE end = <<ESC, "\\">>
    <3>1. TerminalNext(o, ESC) = x
      <4>. HIDE DEF o
      <4>. QED BY <1>5, ReadsEscape
    <3>2. TerminalNext(x, "\\") = Obey(x)
      <4>. HIDE DEF x
      <4>. QED BY <1>6 DEF TerminalNext
    <3>. QED BY <1>7, <2>2, <3>1, <3>2, ReadsPair
  <2>. QED BY <2>1, <2>2
<1>9. /\ Ended(t, body) \in Terminals /\ Ended(t, body).parser = "ground"
      /\ Ended(t, body).title = IF IsTitle(body) THEN Tail(body) ELSE t.title
  <2>1. IsTitle(body) => Tail(body) \in Seq(Shown)
    BY <1>4, HeadTailProperties DEF IsTitle
  <2>2. Enter(t, "ground") \in Terminals /\ Enter(t, "ground").parser = "ground"
        /\ Enter(t, "ground").title = t.title
    <3>1. "ground" \in Parsers
      BY DEF Parsers
    <3>. QED BY <3>1, Entering
  <2>3. CASE IsTitle(body)
    <3>1. Ended(t, body) = [Enter(t, "ground") EXCEPT !.title = Tail(body)]
      BY <2>3 DEF Ended
    <3>. QED BY <2>1, <2>2, <2>3, <3>1 DEF Terminals
  <2>4. CASE ~IsTitle(body)
    BY <2>2, <2>4 DEF Ended
  <2>. QED BY <2>3, <2>4
<1>. QED BY <1>3, <1>8, <1>9

-------------------------------------------------------------------------------
(* The filter and the terminal, byte by byte.                              *)

(* Where the terminal's parser is when the filter is in state s and r      *)
(* bytes of a character are to come.  The filter withholds ESC, and an OSC *)
(* from its ESC on, so that the terminal may be anywhere but in an OSC or  *)
(* anywhere; and CAN ends a sequence that the filter takes to go on.       *)
Fits(t, s, r) ==
  /\ t \in Terminals
  /\ s = "Ground" => t.parser = "ground"
  /\ s = "Utf8"   => t.parser = "utf8" /\ t.more = r
  /\ s = "Esc"    => t.parser # "osc"
  /\ s = "Csi"    => t.parser \in {"csi", "ground", "utf8"}
  /\ s = "Str"    => t.parser \in {"string", "ground", "utf8"}
  /\ s = "StrEsc" => t.parser = "esc"

(* A byte outside of sequences, for the filter and the terminal.           *)
LEMMA PlainFits ==
  ASSUME NEW t \in Terminals, NEW b, b # ESC,
         t.parser = "ground" \/ (t.parser = "utf8" /\ b \notin Cont)
  PROVE  /\ TerminalNext(t, b).title = t.title
         /\ IF b \in DOMAIN Lead THEN Fits(TerminalNext(t, b), "Utf8", Lead[b])
                                 ELSE Fits(TerminalNext(t, b), "Ground", 0)
<1>1. "utf8" \in Parsers /\ "ground" \in Parsers
  BY DEF Parsers
<1>2. CASE b \in DOMAIN Lead
  <2>1. PICK e \in Terminals : e = Enter(t, "utf8") /\ e.parser = "utf8" /\ e.title = t.title
    BY <1>1, Entering
  <2>2. TerminalNext(t, b) = [e EXCEPT !.more = Lead[b]] /\ Lead[b] \in Int
    BY <1>2, <2>1, ReadsPlain, LeadFacts
  <2>. QED BY <1>2, <2>1, <2>2 DEF Terminals, Fits
<1>3. CASE b \notin DOMAIN Lead
  <2>1. PICK e \in Terminals : e = Enter(t, "ground") /\ e.parser = "ground" /\ e.title = t.title
    BY <1>1, Entering
  <2>2. TerminalNext(t, b) = e
    BY <1>3, <2>1, ReadsPlain
  <2>. QED BY <1>3, <2>1, <2>2 DEF Fits
<1>. QED BY <1>2, <1>3

(* A byte of a character.                                                  *)
LEMMA RestFits ==
  ASSUME NEW t \in Terminals, NEW b \in Cont, t.parser = "utf8"
  PROVE  /\ TerminalNext(t, b).title = t.title
         /\ IF t.more = 1 THEN Fits(TerminalNext(t, b), "Ground", 0)
                          ELSE Fits(TerminalNext(t, b), "Utf8", t.more - 1)
<1>1. CASE t.more = 1
  <2>1. "ground" \in Parsers
    BY DEF Parsers
  <2>2. PICK e \in Terminals : e = Enter(t, "ground") /\ e.parser = "ground" /\ e.title = t.title
    BY <2>1, Entering
  <2>3. TerminalNext(t, b) = e
    BY <1>1, <2>2, ReadsRest
  <2>. QED BY <1>1, <2>2, <2>3 DEF Fits
<1>2. CASE t.more # 1
  <2>1. TerminalNext(t, b) = [t EXCEPT !.more = t.more - 1]
    BY <1>2, ReadsRest
  <2>. QED BY <1>2, <2>1 DEF Terminals, Fits
<1>. QED BY <1>1, <1>2

(* A byte outside of sequences where the filter still sees one.            *)
LEMMA ReadsStray ==
  ASSUME NEW t \in Terminals, NEW b, b # ESC, t.parser \in {"ground", "utf8"}
  PROVE  /\ TerminalNext(t, b) \in Terminals /\ TerminalNext(t, b).title = t.title
         /\ TerminalNext(t, b).parser \in {"ground", "utf8"}
         /\ b \in Final => TerminalNext(t, b).parser = "ground"
<1>1. CASE t.parser = "utf8" /\ b \in Cont
  <2>1. b \notin Final
    BY <1>1, TerminalAssumption
  <2>. QED BY <1>1, <2>1, RestFits DEF Fits
<1>2. CASE ~(t.parser = "utf8" /\ b \in Cont)
  <2>1. b \in Final => b \notin DOMAIN Lead
    BY TerminalAssumption
  <2>. QED BY <1>2, <2>1, PlainFits DEF Fits
<1>. QED BY <1>1, <1>2

(* The filter outside of sequences and within a character.                 *)
LEMMA GroundFits ==
  ASSUME NEW t \in Terminals, NEW b \in Byte, StepGround(b, <<>>),
         t.parser = "ground" \/ (t.parser = "utf8" /\ b \notin Cont)
  PROVE  /\ Fits(TerminalAfter(t, written'), state', remaining')
         /\ TerminalAfter(t, written').title = t.title
<1>1. Append(<<>>, b) = <<b>>
  BY EmptySeq
<1>2. CASE b = ESC /\ Goto("Esc", <<>>)
  <2>1. TerminalAfter(t, written') = t
    BY <1>2, ReadsNothing DEF Goto
  <2>. QED BY <1>2, <2>1 DEF Goto, Fits
<1>3. CASE b \in DOMAIN Lead /\ state' = "Utf8" /\ remaining' = Lead[b] /\ written' = <<b>>
  <2>1. TerminalAfter(t, written') = TerminalNext(t, b) /\ b # ESC
    BY <1>3, ReadsByte, LeadFacts DEF ESC
  <2>. QED BY <1>3, <2>1, PlainFits
<1>4. CASE b # ESC /\ b \notin DOMAIN Lead /\ Goto("Ground", <<b>>)
  <2>1. TerminalAfter(t, written') = TerminalNext(t, b)
    BY <1>4, ReadsByte DEF Goto
  <2>. QED BY <1>4, <2>1, PlainFits DEF Goto
<1>. QED BY <1>1, <1>2, <1>3, <1>4 DEF StepGround

LEMMA Utf8Fits ==
  ASSUME NEW b \in Byte, Fits(terminal, "Utf8", remaining), StepUtf8(b)
  PROVE  /\ Fits(TerminalAfter(terminal, written'), state', remaining')
         /\ TerminalAfter(terminal, written').title = terminal.title
<1>1. terminal \in Terminals /\ terminal.parser = "utf8" /\ terminal.more = remaining
  BY DEF Fits
<1>2. CASE b \in Cont
  <2>1. /\ remaining' = remaining - 1 /\ state' = IF remaining = 1 THEN "Ground" ELSE "Utf8"
        /\ written' = <<b>>
    BY <1>2 DEF StepUtf8
  <2>2. TerminalAfter(terminal, written') = TerminalNext(terminal, b)
    BY <2>1, ReadsByte
  <2>. QED BY <1>1, <1>2, <2>1, <2>2, RestFits DEF Fits
<1>3. CASE b \notin Cont
  BY <1>1, <1>3, GroundFits DEF StepUtf8
<1>. QED BY <1>2, <1>3

(* The filter in a CSI sequence and in a string.                           *)
LEMMA CsiFits ==
  ASSUME NEW b \in Byte, Fits(terminal, "Csi", remaining), StepCsi(b), b # ESC
  PROVE  /\ Fits(TerminalAfter(terminal, written'), state', remaining')
         /\ TerminalAfter(terminal, written').title = terminal.title
<1>1. terminal \in Terminals /\ terminal.parser \in {"csi", "ground", "utf8"}
  BY DEF Fits
<1>2. state' = (IF b \in Final THEN "Ground" ELSE "Csi") /\ written' = <<b>>
  BY DEF StepCsi, Goto
<1>3. TerminalAfter(terminal, written') = TerminalNext(terminal, b)
  BY <1>2, ReadsByte
<1>4. CASE terminal.parser = "csi"
  <2>1. "csi" \in Parsers /\ "ground" \in Parsers
    BY DEF Parsers
  <2>2. TerminalNext(terminal, b) =
          Enter(terminal, IF b = "CAN" \/ b \in Final THEN "ground" ELSE "csi")
    BY <1>4 DEF TerminalNext, ESC
  <2>. QED BY <1>1, <1>2, <1>3, <2>1, <2>2, Entering DEF Fits
<1>5. CASE terminal.parser # "csi"
  BY <1>1, <1>2, <1>3, <1>5, ReadsStray DEF Fits
<1>. QED BY <1>4, <1>5

LEMMA StrFits ==
  ASSUME NEW b \in Byte, Fits(terminal, "Str", remaining), StepStr(b)
  PROVE  /\ Fits(TerminalAfter(terminal, written'), state', remaining')
         /\ TerminalAfter(terminal, written').title = terminal.title
<1>1. terminal \in Terminals /\ terminal.parser \in {"string", "ground", "utf8"}
  BY DEF Fits
<1>2. state' = (IF b = ESC THEN "StrEsc" ELSE "Str") /\ written' = <<b>>
  BY DEF StepStr, Goto
<1>3. TerminalAfter(terminal, written') = TerminalNext(terminal, b)
  BY <1>2, ReadsByte
<1>. USE DEF Parsers
<1>4. CASE b = ESC
  <2>1. TerminalNext(terminal, b) = Enter(terminal, "esc")
    BY <1>1, <1>4, ReadsEscape
  <2>. QED BY <1>1, <1>2, <1>3, <1>4, <2>1, Entering DEF Fits
<1>5. CASE b # ESC /\ terminal.parser = "string"
  <2>1. TerminalNext(terminal, b) = IF b = "CAN" THEN Enter(terminal, "ground") ELSE terminal
    BY <1>5 DEF TerminalNext, ESC
  <2>2. CASE b = "CAN"
    BY <1>1, <1>2, <1>3, <1>5, <2>1, <2>2, Entering DEF Fits
  <2>3. CASE b # "CAN"
    BY <1>1, <1>2, <1>3, <1>5, <2>1, <2>3 DEF Fits
  <2>. QED BY <2>2, <2>3
<1>6. CASE b # ESC /\ terminal.parser # "string"
  BY <1>1, <1>2, <1>3, <1>6, ReadsStray DEF Fits
<1>. QED BY <1>4, <1>5, <1>6

LEMMA StrEscFits ==
  ASSUME NEW b \in {ESC, "\\"}, Fits(terminal, "StrEsc", remaining), StepStrEsc(b)
  PROVE  /\ Fits(TerminalAfter(terminal, written'), state', remaining')
         /\ TerminalAfter(terminal, written').title = terminal.title
<1>1. terminal \in Terminals /\ terminal.parser = "esc"
  BY DEF Fits
<1>2. state' = (IF b = ESC THEN "StrEsc" ELSE "Ground") /\ written' = <<b>>
  BY DEF StepStrEsc, Goto, ESC
<1>3. TerminalAfter(terminal, written') = TerminalNext(terminal, b)
  BY <1>2, ReadsByte
<1>. USE DEF Parsers
<1>4. CASE b = ESC
  <2>1. TerminalNext(terminal, b) = Enter(terminal, "esc")
    BY <1>1, <1>4, ReadsEscape
  <2>. QED BY <1>1, <1>2, <1>3, <1>4, <2>1, Entering DEF Fits
<1>5. CASE b = "\\"
  <2>1. "\\" \notin Inter
    BY TerminalAssumption
  <2>2. Escaped(terminal, "\\") = Enter(terminal, "ground")
    BY <2>1 DEF Escaped
  <2>3. TerminalNext(terminal, "\\") = Escaped(terminal, "\\")
    BY <1>1 DEF TerminalNext
  <2>. QED BY <1>1, <1>2, <1>3, <1>5, <2>2, <2>3, Entering DEF Fits, ESC
<1>. QED BY <1>4, <1>5

(* A sequence with one item in front.                                      *)
LEMMA InFront ==
  ASSUME NEW S, NEW h \in S, NEW s \in Seq(S)
  PROVE  /\ <<h>> \o s \in Seq(S) /\ <<h>> \o s # <<>>
         /\ Head(<<h>> \o s) = h /\ Tail(<<h>> \o s) = s
<1>. DEFINE u == <<h>>
<1>1. u \in Seq(S) /\ Len(u) = 1 /\ u[1] = h
  OBVIOUS
<1>. HIDE DEF u
<1>2. PICK w : w = u \o s
  OBVIOUS
<1>3. PICK n \in Nat : n = Len(s)
  BY LenProperties
<1>4. /\ w \in Seq(S) /\ Len(w) = 1 + n
      /\ \A i \in 1..1 + n : w[i] = IF i <= 1 THEN u[i] ELSE s[i - 1]
  <2>1. /\ u \o s \in Seq(S) /\ Len(u \o s) = Len(u) + Len(s)
        /\ \A i \in 1..Len(u) + Len(s) : (u \o s)[i] = IF i <= Len(u) THEN u[i] ELSE s[i - Len(u)]
    BY <1>1, ConcatProperties
  <2>. QED BY <1>1, <1>2, <1>3, <2>1
<1>5. w # <<>>
  BY <1>4, EmptySeq
<1>6. /\ Head(w) = w[1] /\ Tail(w) \in Seq(S) /\ Len(Tail(w)) = n
      /\ \A i \in 1..n : Tail(w)[i] = w[i + 1]
  BY <1>4, <1>5, HeadTailProperties
<1>7. Head(w) = h
  BY <1>1, <1>4, <1>6
<1>8. \A i \in 1..n : Tail(w)[i] = s[i]
  <2>1. ASSUME NEW i \in 1..n PROVE Tail(w)[i] = s[i]
    <3>1. i + 1 \in 1..1 + n /\ ~(i + 1 <= 1) /\ (i + 1) - 1 = i
      OBVIOUS
    <3>. QED BY <1>4, <1>6, <3>1
  <2>. QED BY <2>1
<1>9. Tail(w) = s
  BY <1>3, <1>6, <1>8, SeqEqual
<1>. QED BY <1>2, <1>4, <1>5, <1>7, <1>9 DEF u

LEMMA TwoInFront ==
  ASSUME NEW h \in Text, NEW m \in Text, NEW s \in Seq(Text)
  PROVE  <<h, m>> \o s = <<h>> \o (<<m>> \o s)
<1>. DEFINE u == <<h>>
            v == <<m>>
<1>1. u \in Seq(Text) /\ v \in Seq(Text)
  OBVIOUS
<1>2. <<h, m>> = Append(u, m)
  OBVIOUS
<1>. HIDE DEF u
<1>3. Append(u, m) = u \o v
  BY <1>1, AppendIsConcat
<1>. HIDE DEF v
<1>4. (u \o v) \o s = u \o (v \o s)
  BY <1>1, ConcatAssociative
<1>. QED BY <1>2, <1>3, <1>4 DEF u, v

(* The filter after Escape; an OSC that is abandoned is written first.     *)
LEMMA EscFits ==
  ASSUME NEW t0 \in Terminals, NEW pre \in Seq(Shown), NEW b \in Byte, b \notin Inter,
         NEW t \in Terminals, t = TerminalAfter(t0, pre),
         t.parser = "osc" => b # "\\",
         StepEsc(b, pre)
  PROVE  /\ Fits(TerminalAfter(t0, written'), state', remaining')
         /\ TerminalAfter(t0, written').title = t.title
<1>. DEFINE both == <<ESC, b>>
<1>. USE DEF Parsers
<1>1. ESC \in Shown /\ b \in Shown
  BY ByteFacts
<1>2. CASE b = "]"
  <2>1. state' = "Osc" /\ remaining' = 0 /\ written' = pre
    BY <1>2 DEF StepEsc, Goto, ESC, StringStart
  <2>. QED BY <2>1 DEF Fits
<1>3. CASE b = ESC
  <2>1. state' = "Esc" /\ remaining' = 0 /\ written' = Append(pre, ESC)
    BY <1>3 DEF StepEsc, Goto, ESC, StringStart
  <2>2. TerminalAfter(t0, Append(pre, ESC)) = TerminalNext(t, ESC)
    BY <1>1, ReadsOne
  <2>3. CASE t.parser = "osc"
    <3>1. PICK x : x = [t EXCEPT !.parser = "oscesc"]
      OBVIOUS
    <3>2. TerminalNext(t, ESC) = x
      BY <2>3, <3>1, ReadsEscape
    <3>3. x \in Terminals /\ x.parser = "oscesc" /\ x.title = t.title
      BY <3>1, Changing
    <3>. QED BY <2>1, <2>2, <3>2, <3>3 DEF Fits
  <2>4. CASE t.parser # "osc"
    <3>1. TerminalNext(t, ESC) = Enter(t, "esc")
      BY <2>4, ReadsEscape
    <3>. QED BY <2>1, <2>2, <3>1, Entering DEF Fits
  <2>. QED BY <2>3, <2>4
<1>4. CASE b \notin {"]", ESC}
  <2>1. /\ state' = IF b = "[" THEN "Csi" ELSE IF b \in StringStart THEN "Str" ELSE "Ground"
        /\ written' = pre \o both
    <3>. HIDE DEF both
    <3>1. "[" \notin StringStart
      BY DEF StringStart
    <3>2. StepEsc(b, pre) => \/ b = "[" /\ Goto("Csi", pre \o both)
                             \/ b \in StringStart /\ Goto("Str", pre \o both)
                             \/ b \notin {"]", "[", ESC} \cup StringStart /\ Goto("Ground", pre \o both)
      BY <1>4 DEF StepEsc, both
    <3>. QED BY <1>4, <3>1, <3>2 DEF Goto
  <2>2. TerminalAfter(t0, written') = TerminalNext(TerminalNext(t, ESC), b)
    <3>1. both \in Seq(Shown)
      BY <1>1
    <3>2. TerminalAfter(t, both) = TerminalNext(TerminalNext(t, ESC), b)
      BY ReadsPair
    <3>. HIDE DEF both
    <3>3. TerminalAfter(t0, pre \o both) = TerminalAfter(t, both)
      BY <3>1, ReadsOn
    <3>. QED BY <2>1, <3>2, <3>3
  <2>3. TerminalAfter(t0, written') =
          Enter(t, IF b = "[" THEN "csi" ELSE IF b \in StringStart THEN "string" ELSE "ground")
    <3>1. TerminalNext(TerminalNext(t, ESC), b) =
             CASE b = "["            -> Enter(t, "csi")
               [] b = "]"            -> Enter(t, "osc")
               [] b \in StringStart  -> Enter(t, "string")
               [] OTHER              -> Enter(t, "ground")
      BY <1>4, ReadsEscaped
    <3>2. "[" \notin StringStart
      BY DEF StringStart
    <3>. QED BY <1>4, <2>2, <3>1, <3>2
  <2>4. CASE b = "["
    BY <2>1, <2>3, <2>4, Entering DEF Fits
  <2>5. CASE b # "[" /\ b \in StringStart
    BY <2>1, <2>3, <2>5, Entering DEF Fits
  <2>6. CASE b # "[" /\ b \notin StringStart
    BY <2>1, <2>3, <2>6, Entering DEF Fits
  <2>. QED BY <2>4, <2>5, <2>6
<1>. QED BY <1>2, <1>3, <1>4

(* The filter finishes an OSC: a title gets the mark while locked.         *)
LEMMA FinishFits ==
  ASSUME NEW t \in Terminals, osc \in Seq(Text), NEW lk \in BOOLEAN,
         NEW end \in {<<BEL>>, <<ESC, "\\">>}, finish_osc(end, lk)
  PROVE  /\ Fits(TerminalAfter(t, written'), state', remaining')
         /\ TerminalAfter(t, written').title =
              IF IsTitle(osc) THEN (IF lk THEN <<LOCK_PREFIX>> ELSE <<>>) \o Tail(osc) ELSE t.title
<1>. DEFINE body == IF IsTitle(osc) /\ lk THEN <<Head(osc), LOCK_PREFIX>> \o Tail(osc) ELSE osc
<1>1. IsTitle(osc) => osc # <<>> /\ Head(osc) \in Text /\ Tail(osc) \in Seq(Text)
  BY HeadTailProperties DEF IsTitle
<1>2. /\ body \in Seq(Text)
      /\ IsTitle(body) <=> IsTitle(osc)
      /\ IsTitle(osc) => Tail(body) = (IF lk THEN <<LOCK_PREFIX>> ELSE <<>>) \o Tail(osc)
  <2>1. CASE IsTitle(osc) /\ lk
    <3>1. PICK h \in Text, m \in Text, r \in Seq(Text) :
             h = Head(osc) /\ m = LOCK_PREFIX /\ r = Tail(osc)
      BY <1>1, <2>1, ByteFacts
    <3>2. <<m>> \o r \in Seq(Text)
      BY InFront
    <3>3. PICK s \in Seq(Text) : s = <<m>> \o r
      BY <3>2
    <3>4. body = <<h, m>> \o r /\ s = <<LOCK_PREFIX>> \o Tail(osc)
      BY <2>1, <3>1, <3>3
    <3>5. body = <<h>> \o s
      <4>1. <<h, m>> \o r = <<h>> \o (<<m>> \o r)
        BY <3>1, TwoInFront
      <4>. HIDE DEF body
      <4>. QED BY <3>3, <3>4, <4>1, Zenon
    <3>6. body \in Seq(Text) /\ body # <<>> /\ Head(body) = h /\ Tail(body) = s
      <4>. HIDE DEF body
      <4>. QED BY <3>5, InFront
    <3>7. IsTitle(body)
      <4>. HIDE DEF body
      <4>. QED BY <2>1, <3>1, <3>6 DEF IsTitle
    <3>. HIDE DEF body
    <3>. QED BY <2>1, <3>4, <3>6, <3>7
  <2>2. CASE ~(IsTitle(osc) /\ lk)
    <3>1. body = osc
      BY <2>2
    <3>2. IsTitle(osc) => <<>> \o Tail(osc) = Tail(osc)
      BY <1>1, ConcatEmptySeq
    <3>. HIDE DEF body
    <3>. QED BY <2>2, <3>1, <3>2
  <2>. QED BY <2>1, <2>2
<1>3. /\ state' = "Ground" /\ remaining' = 0
      /\ written' = (<<ESC, "]">> \o body) \o end
  BY DEF finish_osc, Goto
<1>. HIDE DEF body
<1>4. /\ TerminalAfter(t, written') = Ended(t, body)
      /\ Ended(t, body) \in Terminals /\ Ended(t, body).parser = "ground"
      /\ Ended(t, body).title = IF IsTitle(body) THEN Tail(body) ELSE t.title
  BY <1>2, <1>3, ReadsTerminator
<1>. QED BY <1>2, <1>3, <1>4 DEF Fits

(* The filter in an OSC, and in one after Escape.  Nothing of it has been  *)
(* written yet.                                                            *)
LEMMA OscFits ==
  ASSUME NEW b \in Byte, NEW lk \in BOOLEAN, terminal \in Terminals, osc \in Seq(Text),
         StepOsc(b, lk), Len(osc) >= MAX_OSC => b \in {ESC, BEL},
         b \in {ESC, BEL} \cup OscText \cup TitleStart
  PROVE  /\ Fits(TerminalAfter(terminal, written'), state', remaining')
         /\ osc' \in Seq(Text)
         /\ \/ /\ TerminalAfter(terminal, written').title = terminal.title
               /\ last_title' = last_title
            \/ /\ IsTitle(osc) /\ last_title' = <<Tail(osc)>>
               /\ TerminalAfter(terminal, written').title =
                    (IF lk THEN <<LOCK_PREFIX>> ELSE <<>>) \o Tail(osc)
<1>1. CASE b = BEL /\ finish_osc(<<BEL>>, lk)
  <2>1. osc' = <<>> /\ last_title' = IF IsTitle(osc) THEN <<Tail(osc)>> ELSE last_title
    BY <1>1 DEF finish_osc
  <2>2. <<>> \in Seq(Text)
    BY EmptySeq
  <2>. QED BY <1>1, <2>1, <2>2, FinishFits
<1>2. CASE Goto("OscEsc", <<>>) /\ UNCHANGED <<osc, last_title>>
  <2>1. TerminalAfter(terminal, written') = terminal
    BY <1>2, ReadsNothing DEF Goto
  <2>. QED BY <1>2, <2>1 DEF Goto, Fits
<1>3. CASE b \notin {BEL, ESC} /\ Len(osc) < MAX_OSC /\ osc' = Append(osc, b)
           /\ Goto("Osc", <<>>) /\ UNCHANGED last_title
  <2>1. TerminalAfter(terminal, written') = terminal
    BY <1>3, ReadsNothing DEF Goto
  <2>2. b \in Text
    BY <1>3, TerminalAssumption DEF Text, Shown, TitleStart
  <2>3. osc' \in Seq(Text)
    BY <1>3, <2>2, AppendProperties
  <2>. QED BY <1>3, <2>1, <2>3 DEF Goto, Fits
<1>. QED BY <1>1, <1>2, <1>3 DEF StepOsc

LEMMA OscEscFits ==
  ASSUME NEW b \in Byte, NEW lk \in BOOLEAN, terminal \in Terminals, osc \in Seq(Text),
         StepOscEsc(b, lk), b \notin Inter
  PROVE  /\ Fits(TerminalAfter(terminal, written'), state', remaining')
         /\ osc' \in Seq(Text)
         /\ \/ /\ TerminalAfter(terminal, written').title = terminal.title
               /\ last_title' = last_title
            \/ /\ IsTitle(osc) /\ last_title' = <<Tail(osc)>>
               /\ TerminalAfter(terminal, written').title =
                    (IF lk THEN <<LOCK_PREFIX>> ELSE <<>>) \o Tail(osc)
<1>1. CASE b = "\\" /\ finish_osc(<<ESC, "\\">>, lk)
  <2>1. osc' = <<>> /\ last_title' = IF IsTitle(osc) THEN <<Tail(osc)>> ELSE last_title
    BY <1>1 DEF finish_osc
  <2>2. <<>> \in Seq(Text)
    BY EmptySeq
  <2>. QED BY <1>1, <2>1, <2>2, FinishFits
<1>2. CASE b # "\\" /\ StepEsc(b, abandon_osc) /\ osc' = <<>> /\ UNCHANGED last_title
  <2>1. /\ abandon_osc \in Seq(Shown)
        /\ TerminalAfter(terminal, abandon_osc) = [Enter(terminal, "osc") EXCEPT !.text = osc]
    BY ReadsUnended DEF abandon_osc
  <2>2. PICK t : t = TerminalAfter(terminal, abandon_osc)
    OBVIOUS
  <2>3. t \in Terminals /\ t.title = terminal.title
    <3>1. PICK e \in Terminals : e = Enter(terminal, "osc") /\ e.title = terminal.title
      <4>1. "osc" \in Parsers
        BY DEF Parsers
      <4>. QED BY <4>1, Entering
    <3>2. osc \in Seq(Shown)
      BY ByteFacts, SeqMonotonic
    <3>3. t = [e EXCEPT !.text = osc]
      BY <2>1, <2>2, <3>1
    <3>. QED BY <3>1, <3>2, <3>3 DEF Terminals
  <2>4. PICK pre \in Seq(Shown) : pre = abandon_osc
    BY <2>1
  <2>5. StepEsc(b, pre) /\ t = TerminalAfter(terminal, pre)
    BY <1>2, <2>2, <2>4
  <2>6. /\ Fits(TerminalAfter(terminal, written'), state', remaining')
        /\ TerminalAfter(terminal, written').title = t.title
    BY <1>2, <2>3, <2>5, EscFits
  <2>7. osc' \in Seq(Text)
    BY <1>2, EmptySeq
  <2>. QED BY <1>2, <2>3, <2>6, <2>7
<1>. QED BY <1>1, <1>2 DEF StepOscEsc

(* Every byte that the filter knows keeps the terminal where the filter    *)
(* expects it, and no other than a title changes the title.                *)
LEMMA StepFits ==
  ASSUME NEW b \in Byte, NEW lk \in BOOLEAN, TypeOK, Fits(terminal, state, remaining),
         osc \in Seq(Text), step(b, lk), Known(b)
  PROVE  /\ Fits(TerminalAfter(terminal, written'), state', remaining')
         /\ osc' \in Seq(Text)
         /\ \/ /\ TerminalAfter(terminal, written').title = terminal.title
               /\ last_title' = last_title
            \/ /\ IsTitle(osc) /\ last_title' = <<Tail(osc)>>
               /\ TerminalAfter(terminal, written').title =
                    (IF lk THEN <<LOCK_PREFIX>> ELSE <<>>) \o Tail(osc)
<1>1. terminal \in Terminals
  BY DEF Fits
<1>2. CASE state = "Ground" /\ StepGround(b, <<>>) /\ UNCHANGED <<osc, last_title>>
  BY <1>1, <1>2, GroundFits DEF Fits
<1>3. CASE state = "Utf8" /\ StepUtf8(b) /\ UNCHANGED <<osc, last_title>>
  BY <1>3, Utf8Fits
<1>4. CASE state = "Esc" /\ StepEsc(b, <<>>) /\ osc' = (IF b = "]" THEN <<>> ELSE osc)
           /\ UNCHANGED last_title
  <2>1. <<>> \in Seq(Shown) /\ <<>> \in Seq(Text) /\ terminal = TerminalAfter(terminal, <<>>)
    BY EmptySeq, ReadsNothing
  <2>2. terminal.parser # "osc" /\ b \notin Inter
    BY <1>4 DEF Fits, Known
  <2>3. /\ Fits(TerminalAfter(terminal, written'), state', remaining')
        /\ TerminalAfter(terminal, written').title = terminal.title
    <3>1. PICK pre \in Seq(Shown) : pre = <<>>
      BY <2>1
    <3>2. StepEsc(b, pre) /\ terminal = TerminalAfter(terminal, pre)
      BY <1>4, <2>1, <3>1
    <3>. QED BY <1>1, <2>2, <3>2, EscFits
  <2>. QED BY <1>4, <2>1, <2>3
<1>5. CASE state = "Csi" /\ StepCsi(b) /\ UNCHANGED <<osc, last_title>>
  BY <1>5, CsiFits DEF Known
<1>6. CASE state = "Osc" /\ StepOsc(b, lk)
  <2>1. /\ Len(osc) >= MAX_OSC => b \in {ESC, BEL}
        /\ b \in {ESC, BEL} \cup OscText \cup TitleStart
    BY <1>6 DEF Known
  <2>. QED BY <1>1, <1>6, <2>1, OscFits
<1>7. CASE state = "OscEsc" /\ StepOscEsc(b, lk)
  <2>1. b \notin Inter
    BY <1>7 DEF Known
  <2>. QED BY <1>1, <1>7, <2>1, OscEscFits
<1>8. CASE state = "Str" /\ StepStr(b) /\ UNCHANGED <<osc, last_title>>
  BY <1>8, StrFits
<1>9. CASE state = "StrEsc" /\ StepStrEsc(b) /\ UNCHANGED <<osc, last_title>>
  BY <1>9, StrEscFits DEF Known
<1>. QED BY <1>2, <1>3, <1>4, <1>5, <1>6, <1>7, <1>8, <1>9 DEF step

-------------------------------------------------------------------------------
(* The filter in front of a terminal.                                      *)

(* The terminal is where the filter expects it, unless it is not followed  *)
(* any more.                                                               *)
Followed ==
  terminal = Lost \/ (Fits(terminal, state, remaining) /\ osc \in Seq(Text))

(* The filter does what it does without a terminal.                        *)
LEMMA FilterInvariant == TSpec => []IInv
<1>1. TInit => IInv
  BY Initial DEF TInit
<1>2. IInv /\ [TNext]_<<fvars, terminal>> => IInv'
  <2>1. IInv /\ Next => IInv'
    BY StepKeeps DEF Next
  <2>2. TNext => Next
    BY DEF TNext, Write, Next
  <2>3. IInv /\ UNCHANGED fvars => IInv'
    BY DEF IInv, TypeOK, OscBounded, fvars
  <2>. QED BY <2>1, <2>2, <2>3
<1>. QED BY <1>1, <1>2, PTL DEF TSpec

(* The step of RemembersTitle.                                             *)
Remembers ==
  terminal'.title # terminal.title /\ terminal' # Lost =>
    last_title' = <<Unmarked(terminal'.title)>>

(* A title without the mark in front of it.                                *)
LEMMA TitleUnmarked ==
  ASSUME NEW s \in Seq(Byte), NEW lk \in BOOLEAN
  PROVE  Unmarked((IF lk THEN <<LOCK_PREFIX>> ELSE <<>>) \o s) = s
<1>1. CASE lk
  <2>1. <<>> \in Seq(Byte) /\ <<LOCK_PREFIX>> \in Seq({LOCK_PREFIX})
    BY EmptySeq
  <2>2. Unmarked((<<>> \o <<LOCK_PREFIX>>) \o s) = <<>> \o s
    BY <2>1, UnmarkedMark
  <2>3. <<>> \o <<LOCK_PREFIX>> = <<LOCK_PREFIX>> /\ <<>> \o s = s
    BY <2>1, ConcatEmptySeq
  <2>4. Unmarked(<<LOCK_PREFIX>> \o s) = s
    BY <2>2, <2>3, Zenon
  <2>. QED BY <1>1, <2>4
<1>2. CASE ~lk
  <2>1. <<>> \o s = s /\ Unmarked(s) = s
    BY ConcatEmptySeq, UnmarkedPlain
  <2>. QED BY <1>2, <2>1
<1>. QED BY <1>1, <1>2

LEMMA StepFollowed ==
  ASSUME Unknown # "followed", IInv, Followed, TNext
  PROVE  Followed' /\ Remembers
<1>1. PICK b \in Byte, lk \in BOOLEAN : Write(b, lk)
  BY DEF TNext
<1>2. CASE terminal' = Lost
  BY <1>2 DEF Followed, Remembers
<1>3. CASE terminal' # Lost
  <2>1. /\ terminal # Lost /\ Known(b) /\ step(b, lk)
        /\ terminal' = TerminalAfter(terminal, written')
    BY <1>1, <1>3, TerminalAssumption DEF Write
  <2>2. /\ Fits(terminal, state, remaining) /\ osc \in Seq(Text)
        /\ TypeOK /\ osc \in Seq(Byte)
    BY <2>1 DEF Followed, IInv, TypeOK
  <2>3. /\ Fits(terminal', state', remaining') /\ osc' \in Seq(Text)
        /\ \/ terminal'.title = terminal.title
           \/ /\ IsTitle(osc) /\ last_title' = <<Tail(osc)>>
              /\ terminal'.title = (IF lk THEN <<LOCK_PREFIX>> ELSE <<>>) \o Tail(osc)
    BY <2>1, <2>2, StepFits
  <2>4. IsTitle(osc) => Tail(osc) \in Seq(Byte)
    BY <2>2, HeadTailProperties DEF IsTitle
  <2>5. IsTitle(osc) =>
          Unmarked((IF lk THEN <<LOCK_PREFIX>> ELSE <<>>) \o Tail(osc)) = Tail(osc)
    BY <2>4, TitleUnmarked
  <2>6. Followed'
    BY <2>3 DEF Followed
  <2>7. Remembers
    BY <2>3, <2>5 DEF Remembers
  <2>. QED BY <2>6, <2>7
<1>. QED BY <1>2, <1>3

(* At the start terminal and filter are between sequences.                 *)
LEMMA FreshFits == Fresh \in Terminals /\ Fresh.parser = "ground" /\ Fresh.title = <<>>
<1>1. PICK s \in Seq(Shown) : s = <<>>
  BY EmptySeq
<1>2. [parser |-> "ground", text |-> s, more |-> 0, title |-> s] \in Terminals
  BY DEF Terminals, Parsers
<1>. QED BY <1>1, <1>2 DEF Fresh

LEMMA TFollowed == ASSUME Unknown # "followed" PROVE TSpec => []Followed
<1>1. TInit => Followed
  BY FreshFits, EmptySeq DEF TInit, Init, Followed, Fits
<1>2. IInv /\ Followed /\ [TNext]_<<fvars, terminal>> => Followed'
  <2>1. IInv /\ Followed /\ TNext => Followed'
    BY StepFollowed
  <2>2. Followed /\ UNCHANGED <<fvars, terminal>> => Followed'
    BY DEF Followed, fvars
  <2>. QED BY <2>1, <2>2
<1>. QED BY FilterInvariant, <1>1, <1>2, PTL DEF TSpec

(* Whatever the command writes, as long as the filter knows it, and from   *)
(* the first sequence it does not know, the answer does not lie: when the  *)
(* filter says that keylock may insert its own output, the terminal is     *)
(* between sequences and between characters (title.rs:51-53).              *)
THEOREM FilterSafeToInsert ==
  ASSUME Unknown # "followed" PROVE TSpec => []SafeToInsert
<1>1. Followed => SafeToInsert
  BY DEF Followed, SafeToInsert, Fits, AtGround, in_sequence
<1>. QED BY TFollowed, <1>1, PTL

(* The title that the filter remembers is the one the terminal shows,      *)
(* without the mark (title.rs:153-170).                                    *)
THEOREM FilterRemembersTitle ==
  ASSUME Unknown # "followed" PROVE TSpec => RemembersTitle
<1>1. IInv /\ Followed /\ [TNext]_<<fvars, terminal>> => [Remembers]_<<fvars, terminal>>
  BY StepFollowed
<1>. QED BY FilterInvariant, TFollowed, <1>1, PTL DEF TSpec, RemembersTitle, Remembers

-------------------------------------------------------------------------------
(* The events of the gate.                                                 *)

(* What the relay does for one event.                                      *)
React(o, e, lk) == IF e = "DroppedInput" THEN flash(o) ELSE state_changed(o, lk)

(* The states of keylock's output while the first n events are applied.    *)
Reactions(f, n, o, events, lk) ==
  f = [k \in 0..n |-> IF k = 0 THEN o
                      ELSE IF events[k] = "DroppedInput" THEN flash(f[k - 1])
                      ELSE state_changed(f[k - 1], lk)]

(* There are such states for every n.                                      *)
LEMMA ReactionsExist ==
  ASSUME NEW o, NEW events, NEW lk, NEW n \in Nat
  PROVE  \E f : Reactions(f, n, o, events, lk)
<1>. DEFINE P == {m \in 0..n : \E f : Reactions(f, m, o, events, lk)}
<1>1. 0 \in P
  <2>1. Reactions([k \in 0..0 |-> o], 0, o, events, lk)
    BY DEF Reactions
  <2>. QED BY <2>1
<1>2. ASSUME NEW m \in 0..n, m \in P, m < n PROVE m + 1 \in P
  <2>1. PICK f : f = [k \in 0..m |-> IF k = 0 THEN o ELSE React(f[k - 1], events[k], lk)]
    BY <1>2 DEF Reactions, React
  <2>. DEFINE g == [k \in 0..m + 1 |->
                      IF k = m + 1 THEN React(f[m], events[m + 1], lk) ELSE f[k]]
  <2>2. ASSUME NEW k \in 0..m + 1
        PROVE  g[k] = IF k = 0 THEN o ELSE React(g[k - 1], events[k], lk)
    <3>1. CASE k = m + 1
      <4>1. /\ g[k] = React(f[m], events[m + 1], lk) /\ g[m] = f[m]
            /\ k # 0 /\ k - 1 = m
        BY <3>1
      <4>. QED BY <3>1, <4>1
    <3>2. CASE k \in 0..m
      <4>1. g[k] = f[k] /\ (k # 0 => g[k - 1] = f[k - 1])
        BY <3>2
      <4>2. f[k] = IF k = 0 THEN o ELSE React(f[k - 1], events[k], lk)
        BY <2>1, <3>2
      <4>. QED BY <4>1, <4>2
    <3>. QED BY <3>1, <3>2
  <2>3. g = [k \in 0..m + 1 |-> IF k = 0 THEN o ELSE React(g[k - 1], events[k], lk)]
    <3>1. g = [k \in 0..m + 1 |-> g[k]]
      OBVIOUS
    <3>. HIDE DEF g
    <3>. QED BY <2>2, <3>1
  <2>4. \E h : Reactions(h, m + 1, o, events, lk)
    <3>. HIDE DEF g
    <3>. QED BY <2>3 DEF Reactions, React
  <2>. QED BY <1>2, <2>4
<1>3. 0..n \subseteq P
  <2>. HIDE DEF P
  <2>. QED BY <1>1, <1>2, UpTo
<1>. QED BY <1>3

(* So apply reacts to one event after the other.                           *)
LEMMA Applied ==
  ASSUME NEW o, NEW events, NEW lk, Len(events) \in Nat
  PROVE  \E f : /\ f[0] = o
                /\ \A k \in 1..Len(events) : f[k] = React(f[k - 1], events[k], lk)
                /\ apply(o, events, lk) = f[Len(events)]
<1>. DEFINE after == CHOOSE f : Reactions(f, Len(events), o, events, lk)
<1>1. Reactions(after, Len(events), o, events, lk)
  BY ReactionsExist, Zenon
<1>2. apply(o, events, lk) = after[Len(events)]
  BY Zenon DEF apply, Reactions
<1>. HIDE DEF after
<1>3. \A k \in 0..Len(events) :
        after[k] = IF k = 0 THEN o ELSE React(after[k - 1], events[k], lk)
  BY <1>1 DEF Reactions, React
<1>4. 0 \in 0..Len(events) /\ \A k \in 1..Len(events) : k \in 0..Len(events) /\ k # 0
  OBVIOUS
<1>5. after[0] = o /\ \A k \in 1..Len(events) : after[k] = React(after[k - 1], events[k], lk)
  BY <1>3, <1>4
<1>. QED BY <1>2, <1>5, Zenon

(* What one call of feed can report: a change of the lock ends it, or, as  *)
(* its first event under a lock, that keys were dropped.                   *)
LEMMA ReportFacts ==
  ASSUME NEW lk \in BOOLEAN, NEW events \in Reports(lk)
  PROVE  /\ Len(events) \in Nat /\ DOMAIN events = 1..Len(events)
         /\ \A i \in 1..Len(events) :
              events[i] = "DroppedInput" <=> (lk /\ i = 1) \/ (~lk /\ i = 2)
         /\ ~lk /\ Len(events) > 0 => events[1] = "Lock"
<1>1. PICK n \in 0..MaxReports : events = [i \in 1..n |-> Report(lk, i)]
  BY DEF Reports
<1>2. n \in Nat
  BY DisplayAssumption
<1>3. Len(events) = n /\ DOMAIN events = 1..n
  <2>1. \A i \in 1..n : Report(lk, i) \in {"Lock", "Unlock", "DroppedInput"}
    BY DEF Report
  <2>2. events \in [1..n -> {"Lock", "Unlock", "DroppedInput"}]
    BY <1>1, <2>1
  <2>3. events \in Seq({"Lock", "Unlock", "DroppedInput"})
    BY <1>2, <2>2, SeqDef
  <2>. QED BY <1>2, <2>2, <2>3, LenProperties
<1>4. ASSUME NEW i \in 1..n
      PROVE  events[i] = "DroppedInput" <=> (lk /\ i = 1) \/ (~lk /\ i = 2)
  <2>1. events[i] = Report(lk, i)
    BY <1>1
  <2>2. Report(lk, i) = "DroppedInput" <=> (IF lk THEN i ELSE i - 1) = 1
    BY DEF Report
  <2>. QED BY <2>1, <2>2
<1>5. ~lk /\ n > 0 => events[1] = "Lock"
  BY <1>1, <1>2 DEF Report
<1>. QED BY <1>2, <1>3, <1>4, <1>5

(* The lock after them.                                                    *)
LEMMA LocksAfter ==
  ASSUME NEW lk \in BOOLEAN, NEW events \in Reports(lk)
  PROVE  /\ LockAfter(events, lk) \in BOOLEAN
         /\ Len(events) = 0 \/ (lk /\ Len(events) = 1) => LockAfter(events, lk) = lk
         /\ ~lk /\ Len(events) = 2 => LockAfter(events, lk) = TRUE
<1>. DEFINE changes == {i \in DOMAIN events : events[i] # "DroppedInput"}
<1>1. LockAfter(events, lk) = IF changes = {} THEN lk ELSE events[Max(changes)] = "Lock"
  BY DEF LockAfter
<1>2. Len(events) = 0 \/ (lk /\ Len(events) = 1) => changes = {}
  BY ReportFacts
<1>3. ~lk /\ Len(events) = 2 => changes = {1} /\ events[1] = "Lock"
  <2>. SUFFICES ASSUME ~lk, Len(events) = 2 PROVE changes = {1} /\ events[1] = "Lock"
    OBVIOUS
  <2>1. /\ DOMAIN events = 1..2 /\ events[1] = "Lock"
        /\ \A i \in 1..2 : events[i] = "DroppedInput" <=> i = 2
    BY ReportFacts
  <2>2. \A i \in 1..2 : i # 2 <=> i = 1
    OBVIOUS
  <2>. QED BY <2>1, <2>2
<1>. HIDE DEF changes
<1>4. Max({1}) = 1
  BY DEF Max
<1>5. (events[Max(changes)] = "Lock") \in BOOLEAN
  OBVIOUS
<1>. QED BY <1>1, <1>2, <1>3, <1>4, <1>5

-------------------------------------------------------------------------------
(* What keylock queues.                                                    *)

(* A terminal at ground that reads q is at ground again.                   *)
Settles(q) ==
  /\ q \in Seq(Shown)
  /\ \A t \in Terminals : t.parser = "ground" =>
       TerminalAfter(t, q) \in Terminals /\ TerminalAfter(t, q).parser = "ground"

(* The last title in it has the mark exactly if lk.                        *)
Tells(q, lk) ==
  /\ Settles(q)
  /\ \A t \in Terminals : t.parser = "ground" => (lk <=> Marked(TerminalAfter(t, q).title))

Owns == [to_user : Seq(Shown), flash_on : BOOLEAN, quiet : BOOLEAN]

(* A title, as a terminal reads it.                                        *)
LEMMA ReadsTitle ==
  ASSUME NEW text \in Seq(Text)
  PROVE  /\ Settles(set_title(text)) /\ set_title(text) # <<>>
         /\ \A t \in Terminals : TerminalAfter(t, set_title(text)).title = text
<1>. DEFINE intro == <<ESC, "]">>
            body  == <<"2;">> \o text
            end   == <<BEL>>
<1>1. intro \in Seq(Shown) /\ <<"2;">> \in Seq(Shown) /\ text \in Seq(Shown)
  <2>1. ESC \in Shown /\ "]" \in Shown /\ "2;" \in Shown
    BY ByteFacts
  <2>2. ASSUME NEW a \in Shown, NEW b \in Shown
        PROVE  <<a>> \in Seq(Shown) /\ <<a, b>> \in Seq(Shown)
    OBVIOUS
  <2>3. <<ESC, "]">> \in Seq(Shown) /\ <<"2;">> \in Seq(Shown)
    BY <2>1, <2>2, Zenon
  <2>4. text \in Seq(Shown)
    BY ByteFacts, SeqMonotonic
  <2>. QED BY <2>3, <2>4
<1>2. body \in Seq(Text) /\ body # <<>> /\ Head(body) = "2;" /\ Tail(body) = text
  BY ByteFacts, InFront
<1>3. IsTitle(body)
  BY <1>2 DEF IsTitle, TitleStart
<1>4. set_title(text) = (intro \o body) \o end
  <2>1. <<ESC, "]", "2;">> = intro \o <<"2;">>
    <3>1. ASSUME NEW a, NEW b, NEW c PROVE <<a, b, c>> = Append(<<a, b>>, c)
      OBVIOUS
    <3>2. <<ESC, "]", "2;">> = Append(intro, "2;")
      BY <3>1, Zenon
    <3>3. "2;" \in Shown
      BY ByteFacts
    <3>. HIDE DEF intro
    <3>4. Append(intro, "2;") = intro \o <<"2;">>
      BY <1>1, <3>3, AppendIsConcat
    <3>. QED BY <3>2, <3>4, Zenon
  <2>2. (intro \o <<"2;">>) \o text = intro \o (<<"2;">> \o text)
    <3>. HIDE DEF intro
    <3>1. PICK w \in Seq(Shown) : w = <<"2;">>
      BY <1>1
    <3>2. PICK i \in Seq(Shown), x \in Seq(Shown) : i = intro /\ x = text
      BY <1>1
    <3>3. (i \o w) \o x = i \o (w \o x)
      <4>. HIDE DEF body, end
      <4>. QED BY ConcatAssociative
    <3>. QED BY <3>1, <3>2, <3>3, Zenon
  <2>3. set_title(text) = (<<ESC, "]", "2;">> \o text) \o end
    BY DEF set_title
  <2>. QED BY <2>1, <2>2, <2>3, Zenon
<1>. HIDE DEF body
<1>5. ASSUME NEW t \in Terminals
      PROVE  /\ TerminalAfter(t, set_title(text)) = Ended(t, body)
             /\ set_title(text) \in Seq(Shown)
             /\ Ended(t, body) \in Terminals /\ Ended(t, body).parser = "ground"
             /\ Ended(t, body).title = text
  BY <1>2, <1>3, <1>4, ReadsTerminator
<1>6. set_title(text) \in Seq(Shown)
  BY <1>5, FreshFits
<1>7. set_title(text) # <<>>
  <2>1. intro \o body \in Seq(Shown)
    <3>1. body \in Seq(Shown)
      BY <1>2, ByteFacts, SeqMonotonic
    <3>. HIDE DEF intro
    <3>. QED BY <1>1, <3>1, ConcatProperties
  <2>2. PICK w \in Seq(Shown) : w = intro \o body
    BY <2>1
  <2>3. set_title(text) = Append(w, BEL)
    <3>1. BEL \in Shown
      BY ByteFacts
    <3>2. Append(w, BEL) = w \o <<BEL>>
      BY <3>1, AppendIsConcat
    <3>. QED BY <1>4, <2>2, <3>2, Zenon
  <2>4. Append(w, BEL) # <<>>
    <3>1. BEL \in Shown
      BY ByteFacts
    <3>2. Append(w, BEL) # <<>>
      BY <3>1, AppendProperties, EmptySeq
    <3>. QED BY <3>2
  <2>. QED BY <2>3, <2>4
<1>. QED BY <1>5, <1>6, <1>7 DEF Settles

(* One piece of output after the other.                                    *)
LEMMA SettlesOn ==
  ASSUME NEW q, Settles(q), NEW r, Settles(r)
  PROVE  /\ Settles(q \o r)
         /\ r # <<>> => q \o r # <<>>
         /\ \A t \in Terminals : TerminalAfter(t, q \o r) = TerminalAfter(TerminalAfter(t, q), r)
<1>1. q \in Seq(Shown) /\ r \in Seq(Shown)
  BY DEF Settles
<1>2. \A t : TerminalAfter(t, q \o r) = TerminalAfter(TerminalAfter(t, q), r)
  BY <1>1, ReadsOn
<1>3. q \o r \in Seq(Shown) /\ (r # <<>> => q \o r # <<>>)
  BY <1>1, ConcatProperties, EmptySeq
<1>4. ASSUME NEW t \in Terminals, t.parser = "ground"
      PROVE  TerminalAfter(t, q \o r) \in Terminals /\ TerminalAfter(t, q \o r).parser = "ground"
  <2>1. PICK u : u = TerminalAfter(t, q)
    OBVIOUS
  <2>2. u \in Terminals /\ u.parser = "ground"
    BY <1>4, <2>1 DEF Settles
  <2>3. TerminalAfter(u, r) \in Terminals /\ TerminalAfter(u, r).parser = "ground"
    BY <2>2 DEF Settles
  <2>. QED BY <1>2, <2>1, <2>3
<1>. QED BY <1>2, <1>3, <1>4 DEF Settles

(* A bell at ground changes nothing, nor does nothing.                     *)
LEMMA BellSettles == Settles(<<BEL>>)
<1>1. <<BEL>> \in Seq(Shown)
  <2>1. BEL \in Shown
    BY ByteFacts
  <2>. QED BY <2>1
<1>2. ASSUME NEW t \in Terminals, t.parser = "ground"
      PROVE  TerminalAfter(t, <<BEL>>) \in Terminals /\ TerminalAfter(t, <<BEL>>).parser = "ground"
  <2>1. BEL # ESC /\ BEL \notin DOMAIN Lead
    BY LeadFacts DEF BEL, ESC
  <2>. QED BY <1>2, <2>1, PlainFits, ReadsByte DEF Fits
<1>. QED BY <1>1, <1>2 DEF Settles

LEMMA NothingSettles == Settles(<<>>)
BY EmptySeq, ReadsNothing DEF Settles

(* A title with the mark, and one without.                                 *)
LEMMA TitleTells ==
  ASSUME NEW q, Settles(q), NEW text \in Seq(Text), NEW lk \in BOOLEAN, lk <=> Marked(text)
  PROVE  Tells(q \o set_title(text), lk) /\ q \o set_title(text) # <<>>
<1>1. PICK r : r = set_title(text)
  OBVIOUS
<1>2. Settles(r) /\ r # <<>> /\ \A t \in Terminals : TerminalAfter(t, r).title = text
  BY <1>1, ReadsTitle
<1>3. /\ Settles(q \o r) /\ q \o r # <<>>
      /\ \A t \in Terminals : TerminalAfter(t, q \o r) = TerminalAfter(TerminalAfter(t, q), r)
  BY <1>2, SettlesOn
<1>4. ASSUME NEW t \in Terminals, t.parser = "ground"
      PROVE  lk <=> Marked(TerminalAfter(t, q \o r).title)
  <2>1. PICK u \in Terminals : u = TerminalAfter(t, q)
    BY <1>4 DEF Settles
  <2>2. TerminalAfter(t, q \o r).title = text
    BY <1>2, <1>3, <2>1
  <2>. QED BY <2>2
<1>. QED BY <1>1, <1>3, <1>4 DEF Tells

(* The last title of the command, or the name, is without the mark.        *)
Plain == base_title \in Seq(Text) /\ ~Marked(base_title)

LEMMA BaseTells ==
  ASSUME Plain, NEW lk \in BOOLEAN
  PROVE  LET text == (IF lk THEN <<LOCK_PREFIX>> ELSE <<>>) \o base_title
         IN  text \in Seq(Text) /\ (lk <=> Marked(text))
<1>1. CASE lk
  <2>1. PICK b \in Seq(Text) : b = base_title
    BY DEF Plain
  <2>2. <<LOCK_PREFIX>> \o b \in Seq(Text) /\ <<LOCK_PREFIX>> \o b # <<>>
        /\ Head(<<LOCK_PREFIX>> \o b) = LOCK_PREFIX
    BY InFront, ByteFacts
  <2>. QED BY <1>1, <2>1, <2>2 DEF Marked
<1>2. CASE ~lk
  <2>1. <<>> \o base_title = base_title
    BY ConcatEmptySeq DEF Plain
  <2>. QED BY <1>2, <2>1 DEF Plain
<1>. QED BY <1>1, <1>2

(* The hint has the mark.                                                  *)
LEMMA HintTells == HintText \in Seq(Text) /\ Marked(HintText)
<1>1. HintText \in Seq(Text)
  <2>1. PICK l \in Text, h \in Text : l = LOCK_PREFIX /\ h = "HINT"
    BY ByteFacts
  <2>2. <<l, h>> \in Seq(Text)
    BY <2>1
  <2>. QED BY <2>1, <2>2 DEF HintText
<1>2. HintText # <<>> /\ Head(HintText) = LOCK_PREFIX
  BY DEF HintText
<1>. QED BY <1>1, <1>2 DEF Marked

(* The queue can be added to.                                              *)
Sound(o) == o \in Owns /\ Settles(o.to_user)

(* It tells what the lock is, and no hint is shown while unlocked.         *)
Truthful(o, lk) ==
  /\ o \in Owns
  /\ o.flash_on => lk
  /\ o.to_user # <<>> => Tells(o.to_user, lk)

LEMMA TruthfulIsSound == \A o, lk : Truthful(o, lk) => Sound(o)
BY NothingSettles DEF Truthful, Sound, Tells

(* keylock's own title tells the lock, whatever was queued before.         *)
LEMMA QueuesTitle ==
  ASSUME Plain, NEW o, Sound(o), NEW lk \in BOOLEAN, o.flash_on => lk
  PROVE  Truthful(queue_title(o, lk), lk) /\ queue_title(o, lk).to_user # <<>>
<1>1. PICK text \in Seq(Text) :
         /\ text = (IF lk THEN <<LOCK_PREFIX>> ELSE <<>>) \o base_title
         /\ lk <=> Marked(text)
  BY BaseTells
<1>2. PICK q : q = o.to_user \o set_title(text)
  OBVIOUS
<1>3. Tells(q, lk) /\ q # <<>> /\ q \in Seq(Shown)
  <2>1. Settles(o.to_user)
    BY DEF Sound
  <2>2. Tells(q, lk) /\ q # <<>>
    BY <1>1, <1>2, <2>1, TitleTells
  <2>. QED BY <2>2 DEF Tells, Settles
<1>4. queue_title(o, lk) = [o EXCEPT !.to_user = q]
  BY <1>1, <1>2 DEF queue_title
<1>. QED BY <1>3, <1>4 DEF Truthful, Sound, Owns

LEMMA ChangesState ==
  ASSUME Plain, NEW o, Sound(o), NEW lk \in BOOLEAN
  PROVE  Truthful(state_changed(o, lk), lk) /\ state_changed(o, lk).to_user # <<>>
<1>1. PICK off : off = [o EXCEPT !.flash_on = FALSE]
  OBVIOUS
<1>2. Sound(off) /\ ~off.flash_on
  BY <1>1 DEF Sound, Owns
<1>3. Truthful(queue_title(off, lk), lk) /\ queue_title(off, lk).to_user # <<>>
  BY <1>2, QueuesTitle
<1>. QED BY <1>1, <1>3 DEF state_changed

(* The hint has the mark, which is right while locked.                     *)
LEMMA Flashes ==
  ASSUME NEW o, Sound(o)
  PROVE  /\ Sound(flash(o))
         /\ Truthful(o, TRUE) => Truthful(flash(o), TRUE)
         /\ flash(o).to_user = <<>> => o.to_user = <<>>
<1>1. CASE o.quiet
  BY <1>1 DEF flash
<1>2. CASE ~o.quiet
  <2>1. PICK q : q = o.to_user \o <<BEL>>
    OBVIOUS
  <2>2. Settles(q)
    BY <2>1, BellSettles, SettlesOn DEF Sound
  <2>3. PICK p : p = q \o set_title(HintText)
    OBVIOUS
  <2>4. Tells(p, TRUE) /\ p # <<>> /\ Settles(p) /\ p \in Seq(Shown)
    <3>1. Tells(p, TRUE) /\ p # <<>>
      BY <2>2, <2>3, HintTells, TitleTells
    <3>. QED BY <3>1 DEF Tells, Settles
  <2>5. flash(o) = [to_user |-> p, flash_on |-> TRUE, quiet |-> TRUE]
    BY <1>2, <2>1, <2>3 DEF flash
  <2>6. flash(o) \in Owns /\ flash(o).to_user = p
    <3>1. [to_user |-> p, flash_on |-> TRUE, quiet |-> TRUE] \in Owns
      BY <2>4 DEF Owns
    <3>. QED BY <2>5, <3>1
  <2>. QED BY <2>4, <2>6 DEF Sound, Truthful
<1>. QED BY <1>1, <1>2

(* However many events one call reports, the queue tells the lock after    *)
(* all of them.                                                            *)
LEMMA AppliesReports ==
  ASSUME Plain, NEW lk \in BOOLEAN, NEW o, Truthful(o, lk), NEW events \in Reports(lk),
         NEW new, new = LockAfter(events, lk)
  PROVE  /\ new \in BOOLEAN /\ Truthful(apply(o, events, new), new)
         /\ apply(o, events, new).to_user = <<>> => o.to_user = <<>> /\ new = lk
<1>1. Sound(o)
  BY TruthfulIsSound
<1>2. PICK n \in Nat : n = Len(events)
  BY ReportFacts
<1>3. PICK f : /\ f[0] = o
               /\ \A k \in 1..n : f[k] = React(f[k - 1], events[k], new)
               /\ apply(o, events, new) = f[n]
  BY <1>2, Applied
<1>4. new \in BOOLEAN
  BY LocksAfter
<1>5. \A k \in 0..n : Sound(f[k])
  <2>. DEFINE P == {k \in 0..n : Sound(f[k])}
  <2>1. 0 \in P
    BY <1>1, <1>3
  <2>2. ASSUME NEW k \in 0..n, k \in P, k < n PROVE k + 1 \in P
    <3>1. k + 1 \in 1..n /\ k + 1 \in 0..n /\ (k + 1) - 1 = k
      BY <2>2
    <3>2. f[k + 1] = React(f[k], events[k + 1], new) /\ Sound(f[k])
      BY <1>3, <2>2, <3>1
    <3>3. Sound(flash(f[k])) /\ Sound(state_changed(f[k], new))
      BY <1>4, <3>2, Flashes, ChangesState, TruthfulIsSound
    <3>4. Sound(f[k + 1])
      BY <3>2, <3>3 DEF React
    <3>. QED BY <3>1, <3>4
  <2>. HIDE DEF P
  <2>3. 0..n \subseteq P
    BY <2>1, <2>2, UpTo
  <2>. QED BY <2>3 DEF P
<1>0. /\ \A i \in 1..n : events[i] = "DroppedInput" <=> (lk /\ i = 1) \/ (~lk /\ i = 2)
      /\ ~lk /\ n > 0 => events[1] = "Lock"
  BY <1>2, ReportFacts
<1>6. CASE n = 0
  <2>1. new = lk /\ apply(o, events, new) = o
    BY <1>2, <1>3, <1>6, LocksAfter
  <2>. QED BY <2>1
<1>7. CASE n > 0 /\ events[n] # "DroppedInput"
  <2>1. n \in 1..n /\ n - 1 \in 0..n
    BY <1>7
  <2>2. apply(o, events, new) = state_changed(f[n - 1], new) /\ Sound(f[n - 1])
    BY <1>3, <1>5, <1>7, <2>1 DEF React
  <2>. QED BY <1>4, <2>2, ChangesState
<1>8. CASE lk /\ n = 1
  <2>1. events[1] = "DroppedInput" /\ new = TRUE
    <3>0. 1 \in 1..n
      BY <1>8
    <3>1. events[1] = "DroppedInput"
      BY <1>0, <1>8, <3>0
    <3>2. new = lk
      BY <1>2, <1>8, LocksAfter, Zenon
    <3>3. lk = TRUE
      BY <1>8
    <3>. QED BY <3>1, <3>2, <3>3
  <2>2. f[1] = React(f[0], events[1], new)
    <3>1. 1 \in 1..n /\ 1 - 1 = 0
      BY <1>8
    <3>2. f[1] = React(f[1 - 1], events[1], new)
      BY <1>3, <3>1
    <3>. QED BY <3>1, <3>2
  <2>3. apply(o, events, new) = flash(o)
    <3>1. apply(o, events, new) = f[1]
      BY <1>3, <1>8
    <3>2. f[1] = flash(f[0])
      BY <2>1, <2>2 DEF React
    <3>. QED BY <1>3, <3>1, <3>2, Zenon
  <2>4. lk = TRUE /\ Truthful(o, TRUE)
    BY <1>8
  <2>5. /\ Truthful(flash(o), TRUE)
        /\ flash(o).to_user = <<>> => o.to_user = <<>>
    BY <1>1, <2>4, Flashes
  <2>. QED BY <2>1, <2>3, <2>4, <2>5
<1>9. CASE ~lk /\ n = 2
  <2>1. events[1] = "Lock" /\ events[2] = "DroppedInput" /\ new = TRUE
    <3>0. 2 \in 1..n /\ n > 0
      BY <1>9
    <3>1. events[1] = "Lock" /\ events[2] = "DroppedInput"
      BY <1>0, <1>9, <3>0
    <3>2. new = TRUE
      BY <1>2, <1>9, LocksAfter, Zenon
    <3>. QED BY <3>1, <3>2
  <2>2. /\ f[1] = React(f[0], events[1], new)
        /\ f[2] = React(f[1], events[2], new)
    <3>1. 1 \in 1..n /\ 2 \in 1..n /\ 1 - 1 = 0 /\ 2 - 1 = 1
      BY <1>9
    <3>2. /\ f[1] = React(f[1 - 1], events[1], new)
          /\ f[2] = React(f[2 - 1], events[2], new)
      BY <1>3, <3>1
    <3>. QED BY <3>1, <3>2
  <2>3. f[1] = state_changed(o, TRUE) /\ f[2] = flash(f[1])
    BY <1>3, <2>1, <2>2 DEF React
  <2>4. /\ Truthful(state_changed(o, TRUE), TRUE) /\ Sound(state_changed(o, TRUE))
        /\ state_changed(o, TRUE).to_user # <<>>
    BY <1>1, ChangesState, TruthfulIsSound
  <2>5. /\ Truthful(flash(state_changed(o, TRUE)), TRUE)
        /\ flash(state_changed(o, TRUE)).to_user # <<>>
    BY <2>4, Flashes
  <2>. QED BY <1>3, <1>9, <2>1, <2>3, <2>5
<1>10. n > 0 /\ events[n] = "DroppedInput" => (lk /\ n = 1) \/ (~lk /\ n = 2)
  BY <1>0
<1>. QED BY <1>6, <1>7, <1>8, <1>9, <1>10

(* The same for the escape timeout, after which the lock is as before...   *)
LEMMA AppliesFlush ==
  ASSUME NEW lk \in BOOLEAN, NEW o, Truthful(o, lk), NEW events \in FlushReports(lk)
  PROVE  /\ Truthful(apply(o, events, lk), lk)
         /\ apply(o, events, lk).to_user = <<>> => o.to_user = <<>>
<1>1. CASE events = <<>>
  <2>1. Len(events) = 0
    BY <1>1, EmptySeq
  <2>2. apply(o, events, lk) = o
    <3>1. Len(events) \in Nat
      BY <2>1
    <3>. QED BY <2>1, <3>1, Applied
  <2>. QED BY <2>2
<1>2. CASE lk /\ events = <<"DroppedInput">>
  <2>1. lk = TRUE
    BY <1>2
  <2>2. apply(o, events, lk) = flash(o)
    <3>1. Len(events) = 1 /\ events[1] = "DroppedInput"
      BY <1>2
    <3>2. Len(events) \in Nat /\ 1 \in 1..Len(events) /\ 1 - 1 = 0
      BY <3>1
    <3>3. PICK f : /\ f[0] = o
                   /\ \A k \in 1..Len(events) : f[k] = React(f[k - 1], events[k], lk)
                   /\ apply(o, events, lk) = f[Len(events)]
      BY <3>2, Applied
    <3>4. f[1] = React(f[1 - 1], events[1], lk)
      BY <3>2, <3>3
    <3>5. f[1] = flash(f[0])
      BY <3>1, <3>2, <3>4 DEF React
    <3>. QED BY <3>1, <3>3, <3>5, Zenon
  <2>3. Truthful(o, TRUE) /\ Sound(o)
    BY <2>1, TruthfulIsSound
  <2>4. /\ Truthful(flash(o), TRUE)
        /\ flash(o).to_user = <<>> => o.to_user = <<>>
    BY <2>3, Flashes
  <2>. QED BY <2>1, <2>2, <2>4
<1>. QED BY <1>1, <1>2 DEF FlushReports

(* ...and for the end of the hint.                                         *)
LEMMA EndsFlash ==
  ASSUME Plain, locked \in BOOLEAN, NEW o, Truthful(o, locked)
  PROVE  /\ Truthful(AfterFlash(o), locked)
         /\ AfterFlash(o).to_user = <<>> => o.to_user = <<>>
<1>1. CASE ~(o.flash_on /\ ~o.quiet)
  BY <1>1 DEF AfterFlash
<1>2. CASE o.flash_on /\ ~o.quiet
  <2>1. PICK off : off = [o EXCEPT !.flash_on = FALSE]
    OBVIOUS
  <2>2. Truthful(off, locked) /\ off.to_user = o.to_user
    BY <2>1 DEF Truthful, Owns
  <2>3. AfterFlash(o) = IF locked THEN queue_title(off, locked) ELSE off
    BY <1>2, <2>1 DEF AfterFlash
  <2>4. CASE locked
    <3>1. Sound(off)
      BY <2>2, TruthfulIsSound
    <3>. QED BY <2>3, <2>4, <3>1, QueuesTitle
  <2>5. CASE ~locked
    BY <2>2, <2>3, <2>5
  <2>. QED BY <2>4, <2>5
<1>. QED BY <1>1, <1>2

-------------------------------------------------------------------------------
(* The loop.                                                               *)

Phases == {"start", "poll", "child", "control", "timers", "drain", "done"}

(* What the title shows, or what waits to make it so.                      *)
Shows ==
  /\ pc = "start" => own.to_user = <<>> /\ ~Marked(terminal.title)
  /\ pc = "poll" /\ ~in_sequence => own.to_user = <<>>
  /\ own.to_user = <<>> /\ pc \notin {"start", "done"} => (locked <=> Marked(terminal.title))
  /\ ExitUnmarks

(* The inductive invariant.                                                *)
DInv ==
  /\ IInv
  /\ Fits(terminal, state, remaining) /\ osc \in Seq(Text)
  /\ Plain
  /\ pc \in Phases /\ locked \in BOOLEAN
  /\ Truthful(own, locked)
  /\ Shows

(* The step of InsertsBetween.                                             *)
Inserts == terminal' # terminal /\ pc' # pc => AtGround(terminal)

(* Neither the filter nor what it has read of the command changes.         *)
LEMMA FilterRests ==
  ASSUME DInv, UNCHANGED <<state, remaining, osc, last_title>>,
         written' \in Seq(Byte \cup {LOCK_PREFIX}), taken' \in Byte
  PROVE  /\ IInv' /\ osc' \in Seq(Text) /\ Plain' /\ in_sequence' = in_sequence
         /\ \A t : Fits(t, state, remaining) => Fits(t, state', remaining')
<1>1. IInv'
  BY DEF DInv, IInv, TypeOK, OscBounded
<1>2. Plain'
  BY DEF DInv, Plain, base_title
<1>. QED BY <1>1, <1>2 DEF DInv, in_sequence

LEMMA FilterUnchanged ==
  ASSUME DInv, UNCHANGED fvars
  PROVE  /\ IInv' /\ osc' \in Seq(Text) /\ Plain' /\ in_sequence' = in_sequence
         /\ \A t : Fits(t, state, remaining) => Fits(t, state', remaining')
<1>1. written' \in Seq(Byte \cup {LOCK_PREFIX}) /\ taken' \in Byte
  BY DEF DInv, IInv, TypeOK, fvars
<1>. QED BY <1>1, FilterRests DEF fvars

(* The queue is written between sequences, or waits.                       *)
LEMMA Emits ==
  ASSUME DInv, NEW o, Truthful(o, locked), emit_queued(o)
  PROVE  /\ Fits(terminal', state, remaining)
         /\ Truthful(own', locked)
         /\ ~in_sequence => own'.to_user = <<>>
         /\ terminal' # terminal => AtGround(terminal)
         /\ own'.to_user = <<>> =>
              \/ o.to_user = <<>> /\ terminal' = terminal
              \/ locked <=> Marked(terminal'.title)
<1>1. CASE o.to_user = <<>> \/ in_sequence
  <2>1. own' = o /\ terminal' = terminal
    BY <1>1 DEF emit_queued
  <2>. QED BY <1>1, <2>1 DEF DInv
<1>2. CASE ~(o.to_user = <<>> \/ in_sequence)
  <2>1. own' = [o EXCEPT !.to_user = <<>>] /\ terminal' = TerminalAfter(terminal, o.to_user)
    BY <1>2 DEF emit_queued
  <2>2. state = "Ground" /\ terminal \in Terminals /\ terminal.parser = "ground"
    BY <1>2 DEF in_sequence, DInv, Fits
  <2>3. Tells(o.to_user, locked)
    BY <1>2 DEF Truthful
  <2>4. /\ terminal' \in Terminals /\ terminal'.parser = "ground"
        /\ locked <=> Marked(terminal'.title)
    BY <2>1, <2>2, <2>3 DEF Tells, Settles
  <2>5. Truthful(own', locked) /\ own'.to_user = <<>>
    <3>1. PICK q \in Seq(Shown) : q = <<>>
      BY EmptySeq
    <3>2. own' = [o EXCEPT !.to_user = q]
      BY <2>1, <3>1
    <3>. QED BY <3>1, <3>2 DEF Truthful, Owns
  <2>. QED BY <2>2, <2>4, <2>5 DEF Fits, AtGround
<1>. QED BY <1>1, <1>2

(* A byte of the command's output.                                         *)
LEMMA ReadsChild ==
  ASSUME Unknown = "excluded", DInv, NEW b \in Byte, read_child(b)
  PROVE  DInv'
<1>1. /\ pc \in {"child", "drain"} /\ step(b, locked) /\ Known(b)
      /\ pc' = pc /\ locked' = locked /\ own' = own /\ locked \in BOOLEAN
      /\ terminal' = IF terminal = Lost THEN Lost ELSE TerminalAfter(terminal, written')
  BY DEF read_child, Write, loopvars, DInv
<1>2. terminal # Lost
  BY DEF DInv, Fits, Terminals, Parsers, Lost, Fresh
<1>3. TypeOK /\ Fits(terminal, state, remaining) /\ osc \in Seq(Text) /\ osc \in Seq(Byte)
  BY DEF DInv, IInv, TypeOK
<1>4. /\ Fits(terminal', state', remaining') /\ osc' \in Seq(Text)
      /\ \/ terminal'.title = terminal.title /\ last_title' = last_title
         \/ /\ IsTitle(osc) /\ last_title' = <<Tail(osc)>>
            /\ terminal'.title = (IF locked THEN <<LOCK_PREFIX>> ELSE <<>>) \o Tail(osc)
  BY <1>1, <1>2, <1>3, StepFits
<1>5. IInv'
  BY <1>1, StepKeeps DEF DInv
<1>6. CASE terminal'.title = terminal.title /\ last_title' = last_title
  <2>1. Plain'
    BY <1>6 DEF DInv, Plain, base_title
  <2>2. Shows'
    BY <1>1, <1>6 DEF DInv, Shows, ExitUnmarks
  <2>. QED BY <1>1, <1>4, <1>5, <2>1, <2>2 DEF DInv
<1>7. CASE /\ IsTitle(osc) /\ last_title' = <<Tail(osc)>>
           /\ terminal'.title = (IF locked THEN <<LOCK_PREFIX>> ELSE <<>>) \o Tail(osc)
  <2>1. Tail(osc) \in Seq(Text) /\ Tail(osc) \in Seq(Byte)
    BY <1>3, <1>7, HeadTailProperties DEF IsTitle
  <2>2. ~Marked(Tail(osc))
    <3>1. Tail(osc) # <<>> => Head(Tail(osc)) \in Byte
      BY <2>1, HeadTailProperties
    <3>. QED BY <3>1, ByteFacts DEF Marked
  <2>3. base_title' = Tail(osc)
    BY <1>7 DEF base_title
  <2>4. Plain'
    BY <2>1, <2>2, <2>3 DEF Plain
  <2>5. locked <=> Marked(terminal'.title)
    <3>1. CASE locked
      <4>1. PICK s \in Seq(Text) : s = Tail(osc)
        BY <2>1
      <4>2. <<LOCK_PREFIX>> \o s # <<>> /\ Head(<<LOCK_PREFIX>> \o s) = LOCK_PREFIX
        BY InFront, ByteFacts
      <4>. QED BY <1>7, <3>1, <4>1, <4>2 DEF Marked
    <3>2. CASE ~locked
      <4>1. <<>> \o Tail(osc) = Tail(osc)
        BY <2>1, ConcatEmptySeq
      <4>. QED BY <1>7, <2>2, <3>2, <4>1
    <3>. QED BY <3>1, <3>2
  <2>6. Shows'
    BY <1>1, <2>5 DEF Shows, ExitUnmarks
  <2>. QED BY <1>1, <1>4, <1>5, <2>4, <2>6 DEF DInv
<1>. QED BY <1>4, <1>6, <1>7

(* An action that changes neither the title, nor the queue, nor the lock.  *)
LEMMA Passes ==
  ASSUME DInv, UNCHANGED <<fvars, terminal, locked>>, pc' \in Phases \ {"start", "done"},
         pc \notin {"start", "done"}, pc' = "poll" => pc = "poll",
         Truthful(own', locked), own'.to_user = own.to_user
  PROVE  DInv'
<1>1. /\ IInv' /\ osc' \in Seq(Text) /\ Plain' /\ in_sequence' = in_sequence
      /\ Fits(terminal', state', remaining')
  BY FilterUnchanged DEF DInv
<1>2. Shows'
  BY <1>1 DEF DInv, Shows, ExitUnmarks
<1>. QED BY <1>1, <1>2 DEF DInv

(* The lock changes, or a hint is queued.                                  *)
LEMMA Queues ==
  ASSUME DInv, UNCHANGED <<fvars, terminal>>, pc' \in {"child", "control", "timers"},
         pc \notin {"start", "done"}, locked' \in BOOLEAN, Truthful(own', locked'),
         own'.to_user = <<>> => own.to_user = <<>> /\ locked' = locked
  PROVE  DInv'
<1>1. /\ IInv' /\ osc' \in Seq(Text) /\ Plain' /\ in_sequence' = in_sequence
      /\ Fits(terminal', state', remaining')
  BY FilterUnchanged DEF DInv
<1>2. Shows'
  BY DEF DInv, Shows, ExitUnmarks
<1>. QED BY <1>1, <1>2 DEF DInv, Phases

(* Every step of the loop keeps the invariant, and inserts only where a    *)
(* sequence or a character of the command is complete.                     *)
LEMMA LoopKeeps ==
  ASSUME Unknown = "excluded", DInv, [DNext]_dvars
  PROVE  DInv' /\ Inserts
<1>. USE DEF Phases
<1>1. CASE Start
  <2>1. pc = "start" /\ pc' = "poll" /\ UNCHANGED <<fvars, locked>>
    BY <1>1 DEF Start
  <2>2. /\ IInv' /\ osc' \in Seq(Text) /\ Plain' /\ in_sequence' = in_sequence
        /\ \A t : Fits(t, state, remaining) => Fits(t, state', remaining')
    BY <2>1, FilterUnchanged
  <2>3. /\ own.to_user = <<>> /\ ~Marked(terminal.title)
        /\ Truthful(own, locked) /\ Plain /\ locked \in BOOLEAN
        /\ Fits(terminal, state, remaining)
    BY <2>1 DEF DInv, Shows
  <2>4. CASE locked
    <3>1. emit_queued(queue_title(own, locked))
      BY <1>1, <2>4 DEF Start
    <3>2. Truthful(queue_title(own, locked), locked) /\ queue_title(own, locked).to_user # <<>>
      BY <2>3, <2>4, QueuesTitle, TruthfulIsSound
    <3>3. /\ Fits(terminal', state, remaining) /\ Truthful(own', locked)
          /\ ~in_sequence => own'.to_user = <<>>
          /\ terminal' # terminal => AtGround(terminal)
          /\ own'.to_user = <<>> => (locked <=> Marked(terminal'.title))
      BY <3>1, <3>2, Emits
    <3>4. Shows'
      BY <2>1, <2>2, <3>3 DEF Shows, ExitUnmarks
    <3>. QED BY <2>1, <2>2, <2>3, <3>3, <3>4 DEF DInv, Inserts
  <2>5. CASE ~locked
    <3>1. UNCHANGED <<own, terminal>>
      BY <1>1, <2>5 DEF Start
    <3>2. Shows'
      BY <2>1, <2>3, <2>5, <3>1 DEF Shows, ExitUnmarks
    <3>. QED BY <2>1, <2>2, <2>3, <3>1, <3>2 DEF DInv, Inserts
  <2>. QED BY <2>4, <2>5
<1>2. CASE read_stdin
  <2>1. PICK events \in Reports(locked) :
           locked' = LockAfter(events, locked) /\ own' = apply(own, events, locked')
    BY <1>2 DEF read_stdin
  <2>2. /\ locked' \in BOOLEAN /\ Truthful(own', locked')
        /\ own'.to_user = <<>> => own.to_user = <<>> /\ locked' = locked
    BY <2>1, AppliesReports DEF DInv
  <2>3. /\ UNCHANGED <<fvars, terminal>> /\ pc' \in {"child", "control", "timers"}
        /\ pc \notin {"start", "done"}
    BY <1>2 DEF read_stdin
  <2>. QED BY <2>2, <2>3, Queues DEF Inserts
<1>3. CASE NoInput
  BY <1>3, Passes DEF NoInput, DInv, Inserts
<1>4. CASE Timeout
  BY <1>4, Passes DEF Timeout, DInv, Inserts
<1>5. ASSUME NEW b \in Byte, read_child(b) PROVE DInv' /\ Inserts
  BY <1>5, ReadsChild DEF Inserts, read_child, loopvars
<1>6. CASE ChildRead
  <2>1. /\ pc = "child" /\ pc' \in {"control", "timers"}
        /\ UNCHANGED <<state, remaining, osc, last_title, terminal, locked, own>>
        /\ written' = <<>> /\ taken' = BEL
    BY <1>6 DEF ChildRead
  <2>2. written' \in Seq(Byte \cup {LOCK_PREFIX}) /\ taken' \in Byte
    BY <2>1, EmptySeq, ConstantFacts
  <2>3. /\ IInv' /\ osc' \in Seq(Text) /\ Plain' /\ Fits(terminal', state', remaining')
    BY <2>1, <2>2, FilterRests DEF DInv
  <2>4. Shows'
    BY <2>1 DEF DInv, Shows, ExitUnmarks
  <2>. QED BY <2>1, <2>3, <2>4 DEF DInv, Inserts
<1>7. CASE serve_control
  <2>1. pc = "control" /\ pc' = "timers" /\ UNCHANGED <<fvars, terminal>>
    BY <1>7 DEF serve_control
  <2>2. CASE UNCHANGED <<locked, own>>
    BY <2>1, <2>2, Passes DEF DInv, Inserts
  <2>3. CASE locked' \in BOOLEAN /\ own' = state_changed(own, locked')
    <3>1. Truthful(own', locked') /\ own'.to_user # <<>>
      BY <2>3, ChangesState, TruthfulIsSound DEF DInv
    <3>. QED BY <2>1, <2>3, <3>1, Queues DEF Inserts
  <2>. QED BY <1>7, <2>2, <2>3 DEF serve_control
<1>8. CASE EndIteration
  <2>1. pc = "timers" /\ pc' = "poll" /\ UNCHANGED <<fvars, locked>>
    BY <1>8 DEF EndIteration
  <2>2. PICK events \in FlushReports(locked) : emit_queued(AfterFlash(apply(own, events, locked)))
    BY <1>8 DEF EndIteration
  <2>3. PICK a : a = apply(own, events, locked)
    OBVIOUS
  <2>4. Truthful(a, locked) /\ (a.to_user = <<>> => own.to_user = <<>>)
    BY <2>3, AppliesFlush DEF DInv
  <2>5. PICK o : o = AfterFlash(a)
    OBVIOUS
  <2>6. Truthful(o, locked) /\ (o.to_user = <<>> => own.to_user = <<>>)
    BY <2>4, <2>5, EndsFlash DEF DInv
  <2>7. /\ Fits(terminal', state, remaining) /\ Truthful(own', locked)
        /\ ~in_sequence => own'.to_user = <<>>
        /\ terminal' # terminal => AtGround(terminal)
        /\ own'.to_user = <<>> =>
             \/ o.to_user = <<>> /\ terminal' = terminal
             \/ locked <=> Marked(terminal'.title)
    BY <2>2, <2>3, <2>5, <2>6, Emits
  <2>8. /\ IInv' /\ osc' \in Seq(Text) /\ Plain' /\ in_sequence' = in_sequence
        /\ \A t : Fits(t, state, remaining) => Fits(t, state', remaining')
    BY <2>1, FilterUnchanged
  <2>9. own.to_user = <<>> => (locked <=> Marked(terminal.title))
    BY <2>1 DEF DInv, Shows
  <2>10. Shows'
    BY <2>1, <2>6, <2>7, <2>8, <2>9 DEF Shows, ExitUnmarks
  <2>. QED BY <2>1, <2>7, <2>8, <2>10 DEF DInv, Inserts
<1>9. CASE Elapse
  <2>1. /\ UNCHANGED <<fvars, terminal, pc, locked>> /\ own' = [own EXCEPT !.quiet = FALSE]
        /\ pc # "done"
    BY <1>9 DEF Elapse
  <2>2. Truthful(own', locked) /\ own'.to_user = own.to_user
    BY <2>1 DEF DInv, Truthful, Owns
  <2>3. CASE pc = "start"
    <3>1. /\ IInv' /\ osc' \in Seq(Text) /\ Plain' /\ Fits(terminal', state', remaining')
      BY <2>1, FilterUnchanged DEF DInv
    <3>2. Shows'
      BY <2>1, <2>2, <2>3 DEF DInv, Shows, ExitUnmarks
    <3>. QED BY <2>1, <2>2, <3>1, <3>2 DEF DInv, Inserts
  <2>4. CASE pc # "start"
    BY <2>1, <2>2, <2>4, Passes DEF DInv, Inserts
  <2>. QED BY <2>3, <2>4
<1>10. CASE CommandExits
  BY <1>10, Passes DEF CommandExits, DInv, Inserts
<1>11. CASE reset_title
  <2>1. /\ pc = "drain" /\ pc' = "done" /\ UNCHANGED <<fvars, locked, own>>
        /\ terminal' = IF locked /\ ~in_sequence
                       THEN TerminalAfter(terminal, set_title(base_title)) ELSE terminal
    BY <1>11 DEF reset_title
  <2>2. /\ IInv' /\ osc' \in Seq(Text) /\ Plain' /\ in_sequence' = in_sequence
        /\ \A t : Fits(t, state, remaining) => Fits(t, state', remaining')
    BY <2>1, FilterUnchanged
  <2>3. CASE locked /\ ~in_sequence
    <3>1. state = "Ground" /\ terminal \in Terminals /\ terminal.parser = "ground"
      BY <2>3 DEF in_sequence, DInv, Fits
    <3>2. base_title \in Seq(Text) /\ ~Marked(base_title)
      BY DEF DInv, Plain
    <3>3. PICK q : q = set_title(base_title)
      OBVIOUS
    <3>4. Settles(q) /\ \A t \in Terminals : TerminalAfter(t, q).title = base_title
      BY <3>2, <3>3, ReadsTitle
    <3>5. terminal' = TerminalAfter(terminal, q)
      BY <2>1, <2>3, <3>3
    <3>6. /\ terminal' \in Terminals /\ terminal'.parser = "ground"
          /\ ~Marked(terminal'.title)
      BY <3>1, <3>2, <3>4, <3>5 DEF Settles
    <3>7. Fits(terminal', state, remaining)
      BY <3>1, <3>6 DEF Fits
    <3>8. Shows'
      BY <2>1, <3>6 DEF Shows, ExitUnmarks
    <3>. QED BY <2>1, <2>2, <3>1, <3>7, <3>8 DEF DInv, Inserts, AtGround
  <2>4. CASE ~(locked /\ ~in_sequence)
    <3>1. terminal' = terminal
      BY <2>1, <2>4
    <3>2. Shows'
      BY <2>1, <2>2, <2>4, <3>1 DEF DInv, Shows, ExitUnmarks
    <3>. QED BY <2>1, <2>2, <3>1, <3>2 DEF DInv, Inserts
  <2>. QED BY <2>3, <2>4
<1>12. CASE UNCHANGED dvars
  <2>1. UNCHANGED fvars /\ UNCHANGED <<terminal, pc, locked, own>>
    BY <1>12 DEF dvars, loopvars
  <2>2. /\ IInv' /\ osc' \in Seq(Text) /\ Plain' /\ in_sequence' = in_sequence
        /\ Fits(terminal', state', remaining')
    BY <2>1, FilterUnchanged DEF DInv
  <2>3. Shows'
    BY <2>1, <2>2 DEF DInv, Shows, ExitUnmarks
  <2>. QED BY <2>1, <2>2, <2>3 DEF DInv, Inserts
<1>. QED
  BY <1>1, <1>2, <1>3, <1>4, <1>5, <1>6, <1>7, <1>8, <1>9, <1>10, <1>11, <1>12 DEF DNext

(* At the start the title is not keylock's.                                *)
LEMMA LoopStarts == DInit => DInv
<1>. SUFFICES ASSUME DInit PROVE DInv
  OBVIOUS
<1>1. Init /\ terminal = Fresh /\ pc = "start" /\ locked \in BOOLEAN
      /\ own = [to_user |-> <<>>, flash_on |-> FALSE, quiet |-> FALSE]
  BY DEF DInit, TInit
<1>2. IInv
  BY <1>1, Initial
<1>3. Fits(terminal, state, remaining) /\ osc \in Seq(Text)
  BY <1>1, FreshFits, EmptySeq DEF Init, Fits
<1>4. Plain
  <2>1. base_title = NameText
    BY <1>1 DEF Init, base_title
  <2>2. PICK n \in Text : n = "NAME"
    BY ByteFacts
  <2>3. <<n>> \in Seq(Text) /\ <<n>> # <<>> /\ Head(<<n>>) # LOCK_PREFIX
    BY <2>2 DEF LOCK_PREFIX
  <2>. QED BY <2>1, <2>2, <2>3 DEF Plain, NameText, Marked
<1>5. Truthful(own, locked) /\ own.to_user = <<>>
  <2>1. PICK q \in Seq(Shown) : q = <<>>
    BY EmptySeq
  <2>2. own = [to_user |-> q, flash_on |-> FALSE, quiet |-> FALSE]
    BY <1>1, <2>1
  <2>. QED BY <2>1, <2>2 DEF Truthful, Owns
<1>6. Shows
  BY <1>1, <1>5, FreshFits DEF Shows, ExitUnmarks, Marked
<1>. QED BY <1>1, <1>2, <1>3, <1>4, <1>5, <1>6 DEF DInv, Phases

(* Every reachable state has the invariant.                                *)
LEMMA LoopInvariant == ASSUME Unknown = "excluded" PROVE DSpec => []DInv
<1>1. DInv /\ [DNext]_dvars => DInv'
  BY LoopKeeps
<1>. QED BY LoopStarts, <1>1, PTL DEF DSpec

(* At the top of the loop the title starts with the mark exactly while the *)
(* session is locked, unless the command is in the middle of a sequence:   *)
(* for every output the filter knows, whatever is typed and asked          *)
(* meanwhile (relay.rs:334-379).                                           *)
THEOREM DisplayShowsLock == ASSUME Unknown = "excluded" PROVE DSpec => []TitleShowsLock
<1>1. DInv => TitleShowsLock
  BY DEF DInv, Shows, TitleShowsLock
<1>. QED BY LoopInvariant, <1>1, PTL

(* The title that waits is the one that the lock calls for, and the hint   *)
(* is on only while the session is locked (relay.rs:206-216, 284-286).     *)
THEOREM DisplayQueueTells == ASSUME Unknown = "excluded" PROVE DSpec => []QueueTellsLock
<1>1. DInv => QueueTellsLock
  <2>. SUFFICES ASSUME DInv PROVE QueueTellsLock
    OBVIOUS
  <2>1. own.to_user # <<>> => Tells(own.to_user, locked)
    BY DEF DInv, Truthful
  <2>. QED BY <2>1, FreshFits DEF DInv, Truthful, Tells, QueueTellsLock
<1>. QED BY LoopInvariant, <1>1, PTL

(* The mark does not outlive the command, unless the command left a        *)
(* sequence unfinished (relay.rs:70-76, 366-370).                          *)
THEOREM DisplayExitUnmarks == ASSUME Unknown = "excluded" PROVE DSpec => []ExitUnmarks
<1>1. DInv => ExitUnmarks
  BY DEF DInv, Shows
<1>. QED BY LoopInvariant, <1>1, PTL

(* keylock's own output never lands within a sequence or a character of    *)
(* the command's (relay.rs:334-379).                                       *)
THEOREM DisplayInsertsBetween == ASSUME Unknown = "excluded" PROVE DSpec => InsertsBetween
<1>1. DInv /\ [DNext]_dvars => [Inserts]_dvars
  BY LoopKeeps
<1>. QED BY LoopInvariant, <1>1, PTL DEF DSpec, InsertsBetween, Inserts
================================================================================
