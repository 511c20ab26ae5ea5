------------------------------ MODULE RelayProofs ------------------------------
(***************************************************************************)
(* Theorems about Relay, for every limit of its queue and of the signal    *)
(* pipe, and every number of keys and events.                              *)
(***************************************************************************)
EXTENDS Relay, SequenceTheorems, TLAPS

(* Keys in the order they were typed.                                      *)
Sorted(s) == \A i, j \in DOMAIN s : i < j => s[i] < s[j]

Under(A, B) == \A a \in A, b \in B : a < b

(* The way of the keys, from the last that arrived to the last typed: what *)
(* reached the command, what waits for it, what the gate hands over, what  *)
(* it holds, and what was not read.                                        *)
Way(g, q, f, h, t) ==
  /\ Sorted(g) /\ Sorted(q) /\ Sorted(f) /\ Sorted(h) /\ Sorted(t)
  /\ Under(Range(g), Range(q) \cup Range(f) \cup Range(h) \cup Range(t))
  /\ Under(Range(q), Range(f) \cup Range(h) \cup Range(t))
  /\ Under(Range(f), Range(h) \cup Range(t))
  /\ Under(Range(h), Range(t))

(* The keys of it that the gate let pass, or may.                          *)
Past(g, q, f, h) == Range(g) \cup Range(q) \cup Range(f) \cup Range(h)

-------------------------------------------------------------------------------
(* The history: keys are numbers of keystrokes, those that wait the last.  *)
Keys ==
  /\ typed \in 0..MaxTyped /\ polled \in 0..typed /\ noticed \in 0..typed
  /\ guarded \subseteq 1..typed
  /\ Past(got, to_child, forward, held) \cup Range(tty) \subseteq 1..typed
  /\ \A i \in DOMAIN tty : tty[i] = typed - Len(tty) + i

(* A guarded key is not past the gate, and an unlocked gate is offered     *)
(* none but those that were left.                                          *)
Secret ==
  /\ Past(got, to_child, forward, held) \cap (guarded \ left) = {}
  /\ ~locked => Range(tty) \cap (guarded \ left) = {}

(* The keys that one read takes of those that waited when poll returned:   *)
(* before clients are served, all of them are read.                        *)
Noticed ==
  /\ pc \in {"signals", "wait"} => "stdin" \in ready \/ \A k \in Range(tty) : k > noticed
  /\ pc \in {"signals", "wait", "stdin"} => \A i \in DOMAIN tty : i > READ_SIZE => tty[i] > noticed
  /\ pc = "feed" => \A i \in DOMAIN tty : i > unread => tty[i] > noticed
  /\ pc \in {"write", "child", "control"} => \A k \in Range(tty) : k > noticed

(* A terminal is found closed when it holds nothing, and nothing comes     *)
(* into it unless it is opened again.                                      *)
Ending ==
  /\ output \in Nat
  /\ child = "reaped" => pc \in {"drain", "exited", "late", "failed", "done"}
  /\ pc = "start" => pty_open
  /\ ~pty_open /\ ~reopened => output = 0 /\ ~slave
  /\ LastOutput

IInv == TypeOK /\ Keys /\ Way(got, to_child, forward, held, tty) /\ Secret /\ Noticed /\ Ending

-------------------------------------------------------------------------------
(* Sequences.                                                              *)

(* The elements of a sequence, by their places.                            *)
LEMMA Places ==
  ASSUME NEW S, NEW s \in Seq(S)
  PROVE  /\ DOMAIN s = 1..Len(s) /\ Len(s) \in Nat
         /\ Range(s) \subseteq S
         /\ \A i \in 1..Len(s) : s[i] \in Range(s)
         /\ \A x \in Range(s) : \E i \in 1..Len(s) : s[i] = x
<1>1. DOMAIN s = 1..Len(s) /\ Len(s) \in Nat
  BY LenProperties
<1>2. Range(s) \subseteq S
  BY RangeOfSeq
<1>. QED BY <1>1, <1>2 DEF Range

(* The empty queue is sorted, and a queue of anything.                     *)
LEMMA NoPlaces ==
  /\ Range(<<>>) = {} /\ Sorted(<<>>) /\ \A S : <<>> \in Seq(S) /\ Len(<<>>) = 0
<1>1. \A S : <<>> \in Seq(S) /\ Len(<<>>) = 0
  BY EmptySeq
<1>2. DOMAIN <<>> = {}
  OBVIOUS
<1>. QED BY <1>1, <1>2 DEF Range, Sorted

(* What a concatenation holds, and when it is sorted.                      *)
LEMMA Joined ==
  ASSUME NEW s \in Seq(Nat), NEW t \in Seq(Nat)
  PROVE  /\ s \o t \in Seq(Nat) /\ Range(s \o t) = Range(s) \cup Range(t)
         /\ Len(s \o t) = Len(s) + Len(t)
         /\ Sorted(s) /\ Sorted(t) /\ Under(Range(s), Range(t)) => Sorted(s \o t)
<1>1. /\ s \o t \in Seq(Nat) /\ Len(s \o t) = Len(s) + Len(t)
      /\ \A i \in 1..Len(s) + Len(t) :
           (s \o t)[i] = IF i <= Len(s) THEN s[i] ELSE t[i - Len(s)]
  BY ConcatProperties
<1>2. Range(s \o t) = Range(s) \cup Range(t)
  BY RangeConcatenation
<1>3. ASSUME Sorted(s), Sorted(t), Under(Range(s), Range(t))
      PROVE  Sorted(s \o t)
  <2>1. SUFFICES ASSUME NEW i \in 1..Len(s) + Len(t), NEW j \in 1..Len(s) + Len(t), i < j
                 PROVE  (s \o t)[i] < (s \o t)[j]
    BY <1>1, Places DEF Sorted
  <2>2. /\ Len(s) \in Nat /\ Len(t) \in Nat
        /\ \A k \in 1..Len(s) : s[k] \in Range(s) /\ k \in DOMAIN s
        /\ \A k \in 1..Len(t) : t[k] \in Range(t) /\ k \in DOMAIN t
    BY Places
  <2>3. CASE j <= Len(s)
    BY <1>1, <1>3, <2>1, <2>2, <2>3 DEF Sorted
  <2>4. CASE i <= Len(s) /\ j > Len(s)
    <3>1. s[i] \in Range(s) /\ t[j - Len(s)] \in Range(t)
      BY <2>1, <2>2, <2>4
    <3>2. s[i] < t[j - Len(s)]
      BY <1>3, <3>1 DEF Under
    <3>. QED BY <1>1, <2>2, <2>4, <3>2
  <2>5. CASE i > Len(s)
    <3>1. i - Len(s) \in DOMAIN t /\ j - Len(s) \in DOMAIN t /\ i - Len(s) < j - Len(s)
      BY <2>1, <2>2, <2>5
    <3>2. t[i - Len(s)] < t[j - Len(s)]
      BY <1>3, <3>1 DEF Sorted
    <3>. QED BY <1>1, <2>1, <2>2, <2>5, <3>2
  <2>. QED BY <2>1, <2>2, <2>3, <2>4, <2>5
<1>. QED BY <1>1, <1>2, <1>3

(* A part of a sorted sequence.                                            *)
LEMMA Parted ==
  ASSUME NEW S, NEW s \in Seq(S), NEW m \in 1..Len(s) + 1, NEW n \in 0..Len(s)
  PROVE  /\ SubSeq(s, m, n) \in Seq(S)
         /\ Range(SubSeq(s, m, n)) \subseteq Range(s)
         /\ Len(SubSeq(s, m, n)) <= Len(s)
         /\ Len(SubSeq(s, m, n)) = IF m <= n THEN n - m + 1 ELSE 0
         /\ \A i \in 1..Len(SubSeq(s, m, n)) :
              m + i - 1 \in m..n /\ SubSeq(s, m, n)[i] = s[m + i - 1]
         /\ Sorted(s) => Sorted(SubSeq(s, m, n))
<1>1. Len(s) \in Nat /\ DOMAIN s = 1..Len(s) /\ \A i \in 1..Len(s) : s[i] \in S
  BY Places
<1>2. m \in Int /\ n \in Int /\ \A i \in m..n : s[i] \in S
  BY <1>1
<1>3. /\ SubSeq(s, m, n) \in Seq(S)
      /\ Len(SubSeq(s, m, n)) = IF m <= n THEN n - m + 1 ELSE 0
      /\ \A i \in 1..n - m + 1 : SubSeq(s, m, n)[i] = s[m + i - 1]
  BY <1>2, SubSeqProperties
<1>4. Len(SubSeq(s, m, n)) <= Len(s)
  BY <1>1, <1>3
<1>. DEFINE part == SubSeq(s, m, n)
<1>5. /\ DOMAIN part = 1..Len(part)
      /\ \A i \in 1..Len(part) : m + i - 1 \in 1..Len(s) /\ part[i] = s[m + i - 1]
  <2>1. DOMAIN part = 1..Len(part)
    BY <1>3, Places
  <2>2. \A i \in 1..Len(part) : i \in 1..n - m + 1 /\ m + i - 1 \in 1..Len(s)
    BY <1>1, <1>3
  <2>. QED BY <1>3, <2>1, <2>2
<1>. HIDE DEF part
<1>6. Range(part) \subseteq Range(s)
  BY <1>1, <1>5 DEF Range
<1>7. Sorted(s) => Sorted(part)
  BY <1>1, <1>3, <1>5 DEF Sorted, part
<1>8. \A i \in 1..Len(part) : m + i - 1 \in m..n /\ part[i] = s[m + i - 1]
  BY <1>1, <1>3, <1>5 DEF part
<1>. QED BY <1>3, <1>4, <1>6, <1>7, <1>8 DEF part

(* A sorted sequence cut in two.                                           *)
LEMMA Cut ==
  ASSUME NEW s \in Seq(Nat), NEW n \in 0..Len(s), Sorted(s)
  PROVE  /\ SubSeq(s, 1, n) \in Seq(Nat) /\ SubSeq(s, n + 1, Len(s)) \in Seq(Nat)
         /\ Range(SubSeq(s, 1, n)) \subseteq Range(s)
         /\ Range(SubSeq(s, n + 1, Len(s))) \subseteq Range(s)
         /\ Sorted(SubSeq(s, 1, n)) /\ Sorted(SubSeq(s, n + 1, Len(s)))
         /\ Under(Range(SubSeq(s, 1, n)), Range(SubSeq(s, n + 1, Len(s))))
<1>. DEFINE a == SubSeq(s, 1, n)
            b == SubSeq(s, n + 1, Len(s))
<1>1. Len(s) \in Nat /\ DOMAIN s = 1..Len(s)
  BY Places
<1>2. /\ 1 \in 1..Len(s) + 1 /\ n + 1 \in 1..Len(s) + 1
      /\ n \in 0..Len(s) /\ Len(s) \in 0..Len(s)
  BY <1>1
<1>3. /\ a \in Seq(Nat) /\ Range(a) \subseteq Range(s) /\ Sorted(a)
      /\ \A i \in 1..Len(a) : 1 + i - 1 \in 1..n /\ a[i] = s[1 + i - 1]
  BY <1>2, Parted
<1>4. /\ b \in Seq(Nat) /\ Range(b) \subseteq Range(s) /\ Sorted(b)
      /\ \A i \in 1..Len(b) : n + 1 + i - 1 \in n + 1..Len(s) /\ b[i] = s[n + 1 + i - 1]
  BY <1>2, Parted
<1>. HIDE DEF a, b
<1>5. Under(Range(a), Range(b))
  <2>1. SUFFICES ASSUME NEW x \in Range(a), NEW y \in Range(b) PROVE x < y
    BY DEF Under
  <2>2. PICK i \in 1..Len(a) : a[i] = x
    BY <1>3, Places
  <2>3. PICK j \in 1..Len(b) : b[j] = y
    BY <1>4, Places
  <2>4. PICK k \in 1..n : x = s[k]
    BY <1>3, <2>2
  <2>5. PICK l \in n + 1..Len(s) : y = s[l]
    BY <1>4, <2>3
  <2>6. k \in 1..Len(s) /\ l \in 1..Len(s) /\ k < l
    BY <1>1
  <2>. QED BY <1>1, <2>4, <2>5, <2>6 DEF Sorted
<1>. QED BY <1>3, <1>4, <1>5 DEF a, b

(* The first of a sorted sequence, and the others.                         *)
LEMMA First ==
  ASSUME NEW s \in Seq(Nat), s # <<>>, Sorted(s)
  PROVE  /\ Head(s) \in Nat /\ Tail(s) \in Seq(Nat) /\ Head(s) \in Range(s)
         /\ Range(Tail(s)) \subseteq Range(s) /\ Sorted(Tail(s))
         /\ Len(s) \in Nat \ {0} /\ Len(Tail(s)) = Len(s) - 1
         /\ \A i \in 1..Len(s) - 1 : Tail(s)[i] = s[i + 1]
         /\ Under({Head(s)}, Range(Tail(s)))
<1>1. /\ Head(s) \in Nat /\ Tail(s) \in Seq(Nat) /\ Len(Tail(s)) = Len(s) - 1
      /\ \A i \in 1..Len(Tail(s)) : Tail(s)[i] = s[i + 1]
  BY HeadTailProperties
<1>2. Len(s) \in Nat \ {0} /\ Head(s) = s[1] /\ DOMAIN s = 1..Len(s)
  BY EmptySeq, Places
<1>3. 1 \in 1..Len(s) /\ \A i \in 1..Len(s) - 1 : i + 1 \in 1..Len(s) /\ i + 1 > 1
  BY <1>2
<1>4. DOMAIN Tail(s) = 1..Len(s) - 1
  BY <1>1, Places
<1>5. Head(s) \in Range(s)
  BY <1>2, <1>3, Places
<1>6. Range(Tail(s)) \subseteq Range(s)
  <2>1. ASSUME NEW x \in Range(Tail(s)) PROVE x \in Range(s)
    <3>1. PICK i \in 1..Len(s) - 1 : Tail(s)[i] = x
      BY <1>1, Places
    <3>. QED BY <1>1, <1>3, <3>1, Places
  <2>. QED BY <2>1
<1>7. Sorted(Tail(s))
  <2>1. SUFFICES ASSUME NEW i \in 1..Len(s) - 1, NEW j \in 1..Len(s) - 1, i < j
                 PROVE  Tail(s)[i] < Tail(s)[j]
    BY <1>4 DEF Sorted
  <2>2. i + 1 \in DOMAIN s /\ j + 1 \in DOMAIN s /\ i + 1 < j + 1
    BY <1>2, <2>1
  <2>3. s[i + 1] < s[j + 1]
    BY <2>2 DEF Sorted
  <2>. QED BY <1>1, <2>3
<1>8. Under({Head(s)}, Range(Tail(s)))
  <2>1. ASSUME NEW x \in Range(Tail(s)) PROVE Head(s) < x
    <3>1. PICK i \in 1..Len(s) - 1 : Tail(s)[i] = x
      BY <1>1, Places
    <3>2. s[1] < s[i + 1]
      BY <1>2, <1>3 DEF Sorted
    <3>. QED BY <1>1, <1>2, <3>1, <3>2
  <2>. QED BY <2>1 DEF Under
<1>. QED BY <1>1, <1>2, <1>5, <1>6, <1>7, <1>8

(* One more at the end.                                                    *)
LEMMA Added ==
  ASSUME NEW s \in Seq(Nat), NEW k \in Nat
  PROVE  /\ Append(s, k) \in Seq(Nat) /\ Range(Append(s, k)) = Range(s) \cup {k}
         /\ Len(Append(s, k)) = Len(s) + 1
         /\ \A i \in 1..Len(s) : Append(s, k)[i] = s[i]
         /\ Append(s, k)[Len(s) + 1] = k
         /\ Sorted(s) /\ Under(Range(s), {k}) => Sorted(Append(s, k))
<1>1. /\ Append(s, k) \in Seq(Nat) /\ Len(Append(s, k)) = Len(s) + 1
      /\ \A i \in 1..Len(s) : Append(s, k)[i] = s[i]
      /\ Append(s, k)[Len(s) + 1] = k
  BY AppendProperties
<1>2. /\ DOMAIN Append(s, k) = 1..Len(s) + 1 /\ DOMAIN s = 1..Len(s) /\ Len(s) \in Nat
      /\ \A i \in 1..Len(s) : s[i] \in Range(s)
  BY <1>1, Places
<1>3. Range(Append(s, k)) = Range(s) \cup {k}
  BY <1>1, <1>2 DEF Range
<1>4. ASSUME Sorted(s), Under(Range(s), {k})
      PROVE  Sorted(Append(s, k))
  <2>1. SUFFICES ASSUME NEW i \in 1..Len(s) + 1, NEW j \in 1..Len(s) + 1, i < j
                 PROVE  Append(s, k)[i] < Append(s, k)[j]
    BY <1>2 DEF Sorted
  <2>2. CASE j \in 1..Len(s)
    BY <1>1, <1>2, <1>4, <2>1, <2>2 DEF Sorted
  <2>3. CASE j = Len(s) + 1
    <3>1. i \in 1..Len(s)
      BY <1>2, <2>1, <2>3
    <3>2. s[i] < k
      BY <1>2, <1>4, <3>1 DEF Under
    <3>. QED BY <1>1, <2>3, <3>1, <3>2
  <2>. QED BY <1>2, <2>1, <2>2, <2>3
<1>. QED BY <1>1, <1>3, <1>4

-------------------------------------------------------------------------------
(* What may happen on the way of the keys.                                 *)

(* The queue, the keys handed over, those held, or the key offered to the  *)
(* gate are lost.                                                          *)
LEMMA WayLoses ==
  ASSUME NEW g, NEW q, NEW f, NEW h, NEW t, Way(g, q, f, h, t)
  PROVE  /\ Way(g, <<>>, f, h, t) /\ Past(g, <<>>, f, h) \subseteq Past(g, q, f, h)
         /\ Way(g, q, <<>>, h, t) /\ Past(g, q, <<>>, h) \subseteq Past(g, q, f, h)
         /\ Way(g, q, f, <<>>, t) /\ Past(g, q, f, <<>>) \subseteq Past(g, q, f, h)
BY NoPlaces DEF Way, Past, Under

(* The command gets the first keys of the queue.                           *)
LEMMA WayWrites ==
  ASSUME NEW g \in Seq(Nat), NEW q \in Seq(Nat), NEW f, NEW h, NEW t, Way(g, q, f, h, t),
         NEW n \in 0..Len(q)
  PROVE  /\ Way(g \o SubSeq(q, 1, n), SubSeq(q, n + 1, Len(q)), f, h, t)
         /\ Past(g \o SubSeq(q, 1, n), SubSeq(q, n + 1, Len(q)), f, h) \subseteq Past(g, q, f, h)
<1>. DEFINE a == SubSeq(q, 1, n)
            b == SubSeq(q, n + 1, Len(q))
<1>1. /\ a \in Seq(Nat) /\ b \in Seq(Nat) /\ Range(a) \subseteq Range(q) /\ Range(b) \subseteq Range(q)
      /\ Sorted(a) /\ Sorted(b) /\ Under(Range(a), Range(b))
  BY Cut DEF Way
<1>. HIDE DEF a, b
<1>2. Under(Range(g), Range(a))
  BY <1>1 DEF Way, Under
<1>3. Range(g \o a) = Range(g) \cup Range(a) /\ Sorted(g \o a)
  BY <1>1, <1>2, Joined DEF Way
<1>4. Way(g \o a, b, f, h, t) /\ Past(g \o a, b, f, h) \subseteq Past(g, q, f, h)
  BY <1>1, <1>3 DEF Way, Past, Under
<1>. QED BY <1>4 DEF a, b

(* What was handed over is queued.                                         *)
LEMMA WayQueues ==
  ASSUME NEW g, NEW q \in Seq(Nat), NEW f \in Seq(Nat), NEW h, NEW t, Way(g, q, f, h, t)
  PROVE  Way(g, q \o f, <<>>, h, t) /\ Past(g, q \o f, <<>>, h) \subseteq Past(g, q, f, h)
<1>1. Range(q \o f) = Range(q) \cup Range(f) /\ Sorted(q \o f)
  <2>1. Under(Range(q), Range(f))
    BY DEF Way, Under
  <2>. QED BY <2>1, Joined DEF Way
<1>. QED BY <1>1, NoPlaces DEF Way, Past, Under

(* Of the keys that were held some are handed over; the others are lost,   *)
(* or all are held still.                                                  *)
LEMMA WayDecides ==
  ASSUME NEW g, NEW q, NEW f \in Seq(Nat), NEW h, NEW t, Way(g, q, f, h, t),
         NEW a \in Seq(Nat), Sorted(a), Range(a) \subseteq Range(h)
  PROVE  Way(g, q, f \o a, <<>>, t) /\ Past(g, q, f \o a, <<>>) \subseteq Past(g, q, f, h)
<1>1. Range(f \o a) = Range(f) \cup Range(a) /\ Sorted(f \o a)
  <2>1. Under(Range(f), Range(a))
    BY DEF Way, Under
  <2>. QED BY <2>1, Joined DEF Way
<1>. QED BY <1>1, NoPlaces DEF Way, Past, Under

(* The first key that waits is taken: the gate holds it, or it is lost.    *)
LEMMA WayTakes ==
  ASSUME NEW g, NEW q, NEW f, NEW h \in Seq(Nat), NEW t \in Seq(Nat), Way(g, q, f, h, t), t # <<>>
  PROVE  /\ Way(g, q, f, h, Tail(t))
         /\ Way(g, q, f, Append(h, Head(t)), Tail(t))
         /\ Past(g, q, f, Append(h, Head(t))) \subseteq Past(g, q, f, h) \cup {Head(t)}
<1>1. /\ Head(t) \in Nat /\ Head(t) \in Range(t) /\ Range(Tail(t)) \subseteq Range(t)
      /\ Sorted(Tail(t)) /\ Under({Head(t)}, Range(Tail(t)))
  BY First DEF Way
<1>2. /\ Range(Append(h, Head(t))) = Range(h) \cup {Head(t)}
      /\ Sorted(Append(h, Head(t)))
  <2>1. Under(Range(h), {Head(t)})
    BY <1>1 DEF Way, Under
  <2>. QED BY <1>1, <2>1, Added DEF Way
<1>. QED BY <1>1, <1>2 DEF Way, Past, Under

(* One more key is typed.                                                  *)
LEMMA WayGrows ==
  ASSUME NEW g, NEW q, NEW f, NEW h, NEW t \in Seq(Nat), Way(g, q, f, h, t), NEW k \in Nat,
         Under(Past(g, q, f, h) \cup Range(t), {k})
  PROVE  Way(g, q, f, h, Append(t, k))
<1>1. Range(Append(t, k)) = Range(t) \cup {k} /\ Sorted(Append(t, k))
  <2>1. Under(Range(t), {k})
    BY DEF Under
  <2>. QED BY <2>1, Added DEF Way
<1>. QED BY <1>1 DEF Way, Past, Under

(* The way as one sequence is in order.                                    *)
LEMMA WayInOrder ==
  ASSUME NEW g \in Seq(Nat), NEW q \in Seq(Nat), NEW f \in Seq(Nat), NEW h \in Seq(Nat),
         NEW t \in Seq(Nat), Way(g, q, f, h, t)
  PROVE  Sorted(g \o q \o f \o h \o t) /\ Range(g \o q \o f \o h) = Past(g, q, f, h)
<1>. DEFINE s1 == g \o q
            s2 == s1 \o f
            s3 == s2 \o h
<1>1. s1 \in Seq(Nat) /\ Range(s1) = Range(g) \cup Range(q) /\ Sorted(s1)
  <2>1. Under(Range(g), Range(q))
    BY DEF Way, Under
  <2>. QED BY <2>1, Joined DEF Way
<1>2. s2 \in Seq(Nat) /\ Range(s2) = Range(s1) \cup Range(f) /\ Sorted(s2)
  <2>. HIDE DEF s1
  <2>1. Under(Range(s1), Range(f))
    BY <1>1 DEF Way, Under
  <2>. QED BY <1>1, <2>1, Joined DEF Way
<1>3. s3 \in Seq(Nat) /\ Range(s3) = Range(s2) \cup Range(h) /\ Sorted(s3)
  <2>. HIDE DEF s1, s2
  <2>1. Under(Range(s2), Range(h))
    BY <1>1, <1>2 DEF Way, Under
  <2>. QED BY <1>2, <2>1, Joined DEF Way
<1>4. Sorted(s3 \o t)
  <2>. HIDE DEF s1, s2, s3
  <2>1. Under(Range(s3), Range(t))
    BY <1>1, <1>2, <1>3 DEF Way, Under
  <2>. QED BY <1>3, <2>1, Joined DEF Way
<1>5. Range(s3) = Past(g, q, f, h)
  <2>. HIDE DEF s1, s2, s3
  <2>. QED BY <1>1, <1>2, <1>3 DEF Past
<1>. QED BY <1>4, <1>5

-------------------------------------------------------------------------------
(* The phases, the keys and the gate.                                      *)

(* The phases of a turn of the loop by their number.                       *)
LEMMA PhaseNames ==
  /\ DOMAIN Phases = 1..5
  /\ Phases[1] = "signals" /\ Phases[2] = "stdin" /\ Phases[3] = "write"
  /\ Phases[4] = "child" /\ Phases[5] = "control"
  /\ Range(Phases) = {"signals", "stdin", "write", "child", "control"}
<1>1. /\ DOMAIN Phases = 1..5
      /\ Phases[1] = "signals" /\ Phases[2] = "stdin" /\ Phases[3] = "write"
      /\ Phases[4] = "child" /\ Phases[5] = "control"
  BY DEF Phases
<1>2. \A i \in 1..5 : i \in {1, 2, 3, 4, 5}
  OBVIOUS
<1>3. \A i \in {1, 2, 3, 4, 5} : i \in 1..5
  OBVIOUS
<1>4. Range(Phases) = {Phases[1], Phases[2], Phases[3], Phases[4], Phases[5]}
  BY <1>1, <1>2, <1>3 DEF Range
<1>. QED BY <1>1, <1>4

(* The phase i has something to do, and comes after p.                     *)
Later(p, r, i) == Phases[i] \in r /\ \A j \in 1..5 : Phases[j] = p => j < i

(* The next phase is the first later one that is ready, and else the       *)
(* timers.                                                                 *)
LEMMA PhaseFound ==
  ASSUME NEW p, NEW r
  PROVE  \/ PhaseAfter(p, r) = "timers" /\ \A i \in 1..5 : ~Later(p, r, i)
         \/ \E i \in 1..5 : /\ PhaseAfter(p, r) = Phases[i] /\ Later(p, r, i)
                            /\ \A k \in 1..5 : Later(p, r, k) => i <= k
<1>. DEFINE I == {i \in 1..5 : Later(p, r, i)}
<1>1. PhaseAfter(p, r) = IF I = {} THEN "timers" ELSE Phases[Min(I)]
  BY PhaseNames, Zenon DEF PhaseAfter, Later
<1>2. I \subseteq 1..5 /\ \A i \in 1..5 : i \in I <=> Later(p, r, i)
  OBVIOUS
<1>. HIDE DEF I
<1>3. I # {} => \E i \in I : \A k \in I : i <= k
  <2>. SUFFICES ASSUME ~\E i \in I : \A k \in I : i <= k PROVE I = {}
    OBVIOUS
  <2>1. \A i \in I : \E k \in I : k < i
    BY <1>2
  <2>2. 1 \notin I
    BY <1>2, <2>1
  <2>3. 2 \notin I
    BY <1>2, <2>1, <2>2
  <2>4. 3 \notin I
    BY <1>2, <2>1, <2>2, <2>3
  <2>5. 4 \notin I
    BY <1>2, <2>1, <2>2, <2>3, <2>4
  <2>6. 5 \notin I
    BY <1>2, <2>1, <2>2, <2>3, <2>4, <2>5
  <2>. QED BY <1>2, <2>2, <2>3, <2>4, <2>5, <2>6
<1>4. I # {} => Min(I) \in I /\ \A k \in I : Min(I) <= k
  BY <1>3 DEF Min
<1>. QED BY <1>1, <1>2, <1>4

(* The phases are taken in their order.                                    *)
LEMMA PhaseOrder ==
  ASSUME NEW r
  PROVE  /\ \A p : PhaseAfter(p, r) \in Range(Phases) \cup {"timers"}
         /\ \A p \in Range(Phases) : PhaseAfter(p, r) # "signals"
         /\ "stdin" \in r => /\ PhaseAfter("poll", r) \in {"signals", "stdin"}
                             /\ PhaseAfter("signals", r) = "stdin"
         /\ \A p \in {"stdin", "write", "child", "control"} :
              PhaseAfter(p, r) \in {"write", "child", "control", "timers"}
<1>0. \A i \in 1..5 : i \in {1, 2, 3, 4, 5}
  OBVIOUS
<1>1. ASSUME NEW p
      PROVE  PhaseAfter(p, r) \in Range(Phases) \cup {"timers"}
  BY PhaseNames, PhaseFound DEF Range
<1>2. ASSUME NEW p \in Range(Phases)
      PROVE  PhaseAfter(p, r) # "signals"
  <2>1. PICK j \in 1..5 : Phases[j] = p
    BY PhaseNames DEF Range
  <2>2. ~Later(p, r, 1)
    BY <2>1 DEF Later
  <2>3. \A i \in 1..5 : Phases[i] = "signals" => i = 1
    BY <1>0, PhaseNames
  <2>. QED BY <2>2, <2>3, PhaseFound
<1>3. ASSUME "stdin" \in r
      PROVE  /\ PhaseAfter("poll", r) \in {"signals", "stdin"}
             /\ PhaseAfter("signals", r) = "stdin"
  <2>1. Later("poll", r, 2)
    BY <1>0, <1>3, PhaseNames DEF Later
  <2>2. Later("signals", r, 2) /\ ~Later("signals", r, 1)
    BY <1>0, <1>3, PhaseNames DEF Later
  <2>3. \A i \in 1..5 : i <= 2 => i \in {1, 2}
    OBVIOUS
  <2>4. 2 \in 1..5
    OBVIOUS
  <2>5. PhaseAfter("poll", r) \in {Phases[1], Phases[2]}
    BY <2>1, <2>3, <2>4, PhaseFound
  <2>6. PhaseAfter("signals", r) = Phases[2]
    BY <2>2, <2>3, <2>4, PhaseFound
  <2>. QED BY <2>5, <2>6, PhaseNames
<1>4. ASSUME NEW p \in {"stdin", "write", "child", "control"}
      PROVE  PhaseAfter(p, r) \in {"write", "child", "control", "timers"}
  <2>1. ~Later(p, r, 1) /\ ~Later(p, r, 2)
    <3>1. \E j \in 2..5 : Phases[j] = p
      BY PhaseNames
    <3>. QED BY <3>1 DEF Later
  <2>2. \A i \in 1..5 : Later(p, r, i) => Phases[i] \in {"write", "child", "control"}
    BY <1>0, <2>1, PhaseNames
  <2>. QED BY <2>2, PhaseFound
<1>. QED BY <1>1, <1>2, <1>3, <1>4

(* Keys are numbers.                                                       *)
LEMMA KeyFacts ==
  /\ Key \subseteq Nat /\ \A s \in Seq(Key) : s \in Seq(Nat)
  /\ MaxTyped \in Nat /\ MAX_PENDING_INPUT \in Nat
<1>1. Key \subseteq Nat /\ MaxTyped \in Nat /\ MAX_PENDING_INPUT \in Nat
  BY RelayAssumption DEF Key
<1>. QED BY <1>1, SeqMonotonic

(* The smaller of two numbers, and what one read takes.                    *)
LEMMA OneReadFacts ==
  /\ \A a, b \in Int : Min({a, b}) = IF a <= b THEN a ELSE b
  /\ READ_SIZE \in Nat
  /\ \A n \in Nat : OneRead(n) = IF n <= READ_SIZE THEN n ELSE READ_SIZE
<1>1. ASSUME NEW a \in Int, NEW b \in Int
      PROVE  Min({a, b}) = IF a <= b THEN a ELSE b
  <2>1. \A y \in {a, b} : (IF a <= b THEN a ELSE b) <= y
    OBVIOUS
  <2>2. \A x \in {a, b} : (\A y \in {a, b} : x <= y) => x = IF a <= b THEN a ELSE b
    OBVIOUS
  <2>3. (IF a <= b THEN a ELSE b) \in {a, b}
    OBVIOUS
  <2>. QED BY <2>1, <2>2, <2>3 DEF Min
<1>2. READ_SIZE \in Nat
  BY RelayAssumption
<1>. QED BY <1>1, <1>2 DEF OneRead

(* What the gate decides about the keys it held.                           *)
LEMMA GateDecides ==
  ASSUME NEW h \in Seq(Key), NEW f \in Seq(Key), Sorted(h), G!Decide(h, f)
  PROVE  /\ locked' = locked \/ locked' = TRUE
         /\ \/ held' = h /\ forward' = f
            \/ /\ held' = <<>>
               /\ \E a \in Seq(Key) : forward' = f \o a /\ Sorted(a) /\ Range(a) \subseteq Range(h)
<1>1. CASE G!Hold(h, f)
  BY <1>1 DEF G!Hold
<1>2. CASE G!HandOver(h, f)
  BY <1>2 DEF G!HandOver
<1>3. CASE G!HandOverOne(h, f)
  <2>1. PICK k \in Key, m \in Key : h = <<k>> \o <<m>> /\ held' = <<>> /\ forward' = f \o <<k>>
    BY <1>3 DEF G!HandOverOne
  <2>2. <<k>> \in Seq(Key) /\ Sorted(<<k>>) /\ Range(<<k>>) = {k}
    BY DEF Sorted, Range
  <2>3. Range(h) = {k, m}
    <3>1. <<k>> \in Seq(Key) /\ <<m>> \in Seq(Key) /\ Range(<<m>>) = {m}
      BY DEF Range
    <3>2. ASSUME NEW s \in Seq(Key), NEW t \in Seq(Key)
          PROVE  Range(s \o t) = Range(s) \cup Range(t)
      BY KeyFacts, Joined
    <3>3. Range(<<k>> \o <<m>>) = Range(<<k>>) \cup Range(<<m>>)
      BY <3>1, <2>2, <3>2
    <3>. QED BY <2>1, <2>2, <3>1, <3>3
  <2>. QED BY <1>3, <2>1, <2>2, <2>3 DEF G!HandOverOne
<1>4. CASE G!Lock(h, f)
  <2>1. held' = <<>> /\ forward' = f /\ locked' = TRUE
    BY <1>4 DEF G!Lock
  <2>2. f = f \o <<>> /\ <<>> \in Seq(Key)
    BY ConcatEmptySeq, EmptySeq
  <2>. QED BY <2>1, <2>2, NoPlaces
<1>. QED BY <1>1, <1>2, <1>3, <1>4 DEF G!Decide

-------------------------------------------------------------------------------
(* The invariant: the way of the keys and their secret.                    *)

(* Queues of keys are queues of numbers.                                   *)
LEMMA Typed ==
  ASSUME TypeOK
  PROVE  /\ got \in Seq(Key) /\ to_child \in Seq(Key) /\ forward \in Seq(Key)
         /\ held \in Seq(Key) /\ tty \in Seq(Key)
         /\ got \in Seq(Nat) /\ to_child \in Seq(Nat) /\ forward \in Seq(Nat)
         /\ held \in Seq(Nat) /\ tty \in Seq(Nat)
         /\ locked \in BOOLEAN
BY KeyFacts DEF TypeOK

(* Writing to the command: keys go on, or are forgotten.                   *)
LEMMA WriteKeeps ==
  ASSUME NEW q \in Seq(Key), NEW f, NEW h, NEW t, got \in Seq(Key),
         Way(got, q, f, h, t), write_to_child(q)
  PROVE  /\ got' \in Seq(Key) /\ to_child' \in Seq(Key) /\ Len(to_child') <= Len(q)
         /\ Way(got', to_child', f, h, t)
         /\ Past(got', to_child', f, h) \subseteq Past(got, q, f, h)
<1>1. got \in Seq(Nat) /\ q \in Seq(Nat) /\ Len(q) \in Nat
  BY KeyFacts, Places
<1>2. CASE to_child' = <<>> /\ got' = got
  <2>1. Way(got, <<>>, f, h, t) /\ Past(got, <<>>, f, h) \subseteq Past(got, q, f, h)
    BY WayLoses
  <2>2. to_child' \in Seq(Key) /\ Len(to_child') = 0
    BY <1>2, NoPlaces
  <2>. QED BY <1>1, <1>2, <2>1, <2>2
<1>3. ASSUME NEW n \in 0..Len(q), got' = got \o SubSeq(q, 1, n), to_child' = SubSeq(q, n + 1, Len(q))
      PROVE  /\ got' \in Seq(Key) /\ to_child' \in Seq(Key) /\ Len(to_child') <= Len(q)
             /\ Way(got', to_child', f, h, t)
             /\ Past(got', to_child', f, h) \subseteq Past(got, q, f, h)
  <2>1. /\ 1 \in 1..Len(q) + 1 /\ n + 1 \in 1..Len(q) + 1
        /\ n \in 0..Len(q) /\ Len(q) \in 0..Len(q)
    BY <1>1
  <2>2. SubSeq(q, 1, n) \in Seq(Key)
    BY <2>1, Parted
  <2>3. SubSeq(q, n + 1, Len(q)) \in Seq(Key) /\ Len(SubSeq(q, n + 1, Len(q))) <= Len(q)
    BY <2>1, Parted
  <2>4. got \o SubSeq(q, 1, n) \in Seq(Key)
    BY <2>2, ConcatProperties
  <2>5. /\ Way(got \o SubSeq(q, 1, n), SubSeq(q, n + 1, Len(q)), f, h, t)
        /\ Past(got \o SubSeq(q, 1, n), SubSeq(q, n + 1, Len(q)), f, h) \subseteq Past(got, q, f, h)
    BY <1>1, WayWrites
  <2>. QED BY <1>3, <2>3, <2>4, <2>5
<1>. QED BY <1>2, <1>3 DEF write_to_child

(* The parts of the invariant that an action leaves when no key comes and  *)
(* none is guarded or set free.                                            *)
LEMMA SecretKept ==
  ASSUME Keys, Secret, locked' = locked \/ locked' = TRUE,
         UNCHANGED <<guarded, typed, polled, noticed, left, tty>>,
         Past(got', to_child', forward', held') \subseteq Past(got, to_child, forward, held)
  PROVE  Keys' /\ Secret'
BY DEF Keys, Secret

(* What the gate forwards joins the queue for the command or is dropped    *)
(* with what was full.                                                     *)
LEMMA ApplyKeeps ==
  ASSUME TypeOK, Keys, Way(got, to_child, forward, held, tty), Secret, apply,
         UNCHANGED <<tty, typed>>
  PROVE  /\ Keys' /\ Way(got', to_child', forward', held', tty') /\ Secret'
         /\ got' \in Seq(Key) /\ to_child' \in Seq(Key) /\ Len(to_child') <= MAX_PENDING_INPUT
         /\ UNCHANGED <<locked, held>> /\ forward' = <<>>
<1>1. UNCHANGED <<locked, held, guarded, polled, noticed, left>> /\ forward' = <<>>
  BY DEF apply, G!Begin, hist
<1>2. /\ Len(to_child) \in Nat /\ Len(forward) \in Nat /\ MAX_PENDING_INPUT \in Nat
      /\ Len(to_child) <= MAX_PENDING_INPUT
  BY Typed, Places, KeyFacts DEF TypeOK
<1>3. PICK q \in Seq(Key) : /\ Len(q) <= MAX_PENDING_INPUT /\ write_to_child(q)
                            /\ Way(got, q, <<>>, held, tty)
                            /\ Past(got, q, <<>>, held) \subseteq Past(got, to_child, forward, held)
  <2>1. CASE write_to_child(to_child)
    BY <1>2, <2>1, Typed, WayLoses
  <2>2. CASE /\ Len(to_child) + Len(forward) <= MAX_PENDING_INPUT
             /\ write_to_child(to_child \o forward)
    <3>1. /\ to_child \o forward \in Seq(Key)
          /\ Len(to_child \o forward) = Len(to_child) + Len(forward)
      BY Typed, ConcatProperties
    <3>2. /\ Way(got, to_child \o forward, <<>>, held, tty)
          /\ Past(got, to_child \o forward, <<>>, held) \subseteq Past(got, to_child, forward, held)
      BY Typed, WayQueues
    <3>. QED BY <2>2, <3>1, <3>2
  <2>. QED BY <2>1, <2>2 DEF apply
<1>4. /\ got' \in Seq(Key) /\ to_child' \in Seq(Key) /\ Len(to_child') <= Len(q)
      /\ Way(got', to_child', <<>>, held, tty)
      /\ Past(got', to_child', <<>>, held) \subseteq Past(got, q, <<>>, held)
  BY <1>3, Typed, WriteKeeps
<1>5. Len(to_child') <= MAX_PENDING_INPUT
  <2>1. Len(q) \in Nat /\ Len(to_child') \in Nat
    BY <1>4, Places
  <2>. QED BY <1>2, <1>3, <1>4, <2>1
<1>6. Past(got', to_child', forward', held') \subseteq Past(got, to_child, forward, held)
  BY <1>1, <1>3, <1>4
<1>7. Keys' /\ Secret'
  BY <1>1, <1>6, SecretKept
<1>. QED BY <1>1, <1>4, <1>5, <1>7

(* The command takes what it can.                                          *)
LEMMA PolloutKeeps ==
  ASSUME TypeOK, Keys, Way(got, to_child, forward, held, tty), Secret, pollout
  PROVE  /\ Keys' /\ Way(got', to_child', forward', held', tty') /\ Secret'
         /\ got' \in Seq(Key) /\ to_child' \in Seq(Key) /\ Len(to_child') <= MAX_PENDING_INPUT
<1>1. /\ UNCHANGED <<locked, held, forward, guarded, polled, noticed, left, tty, typed>>
      /\ write_to_child(to_child)
  BY DEF pollout, gate, env, hist
<1>2. /\ got' \in Seq(Key) /\ to_child' \in Seq(Key) /\ Len(to_child') <= Len(to_child)
      /\ Way(got', to_child', forward, held, tty)
      /\ Past(got', to_child', forward, held) \subseteq Past(got, to_child, forward, held)
  BY <1>1, Typed, WriteKeeps
<1>3. Len(to_child') <= MAX_PENDING_INPUT
  <2>1. Len(to_child) \in Nat /\ Len(to_child') \in Nat /\ Len(to_child) <= MAX_PENDING_INPUT
    BY <1>2, Typed, Places DEF TypeOK
  <2>. QED BY <1>2, <2>1, KeyFacts
<1>4. Keys' /\ Secret'
  BY <1>1, <1>2, SecretKept
<1>. QED BY <1>1, <1>2, <1>3, <1>4

(* The escape timeout releases what the gate held.                         *)
LEMMA FlushKeeps ==
  ASSUME TypeOK, Keys, Way(got, to_child, forward, held, tty), Secret, flush
  PROVE  /\ Keys' /\ Way(got', to_child', forward', held', tty') /\ Secret'
         /\ locked' \in BOOLEAN /\ held' \in Seq(Key) /\ forward' \in Seq(Key)
<1>1. UNCHANGED <<got, to_child, guarded, polled, noticed, left, tty, typed>> /\ G!Timeout
  BY DEF flush, env, hist
<1>2. /\ Way(got, to_child, <<>>, held, tty)
      /\ Past(got, to_child, <<>>, held) \subseteq Past(got, to_child, forward, held)
  BY WayLoses
<1>3. <<>> \in Seq(Key) /\ <<>> \in Seq(Nat)
  BY NoPlaces
<1>4. CASE /\ held' = held /\ forward' = <<>> /\ (locked' = locked \/ locked' = TRUE)
  <2>1. Keys' /\ Secret'
    BY <1>1, <1>2, <1>4, SecretKept
  <2>. QED BY <1>1, <1>2, <1>3, <1>4, <2>1, Typed
<1>5. CASE /\ ~locked /\ held' = <<>> /\ (locked' = locked \/ locked' = TRUE)
           /\ \E a \in Seq(Key) : forward' = <<>> \o a /\ Sorted(a) /\ Range(a) \subseteq Range(held)
  <2>1. PICK a \in Seq(Key) : forward' = <<>> \o a /\ Sorted(a) /\ Range(a) \subseteq Range(held)
    BY <1>5
  <2>2. a \in Seq(Nat) /\ <<>> \o a \in Seq(Key)
    BY <1>3, KeyFacts, ConcatProperties
  <2>3. /\ Way(got, to_child, <<>> \o a, <<>>, tty)
        /\ Past(got, to_child, <<>> \o a, <<>>) \subseteq Past(got, to_child, <<>>, held)
    BY <1>2, <1>3, <2>1, <2>2, WayDecides
  <2>4. Keys' /\ Secret'
    BY <1>1, <1>2, <1>5, <2>1, <2>3, SecretKept
  <2>. QED BY <1>1, <1>3, <1>5, <2>1, <2>2, <2>3, <2>4, Typed
<1>6. CASE ~locked /\ G!Decide(held, <<>>)
  <2>1. Sorted(held) /\ held \in Seq(Key)
    BY Typed DEF Way
  <2>. QED BY <1>3, <1>4, <1>5, <1>6, <2>1, GateDecides
<1>7. CASE locked /\ forward' = <<>> /\ UNCHANGED <<locked, held>>
  BY <1>4, <1>7
<1>. QED BY <1>1, <1>6, <1>7 DEF G!Timeout

(* A byte read is held, forwarded or consumed.                             *)
LEMMA FeedKeeps ==
  ASSUME TypeOK, Keys, Way(got, to_child, forward, held, tty), Secret, feed
  PROVE  /\ Keys' /\ Way(got', to_child', forward', held', tty') /\ Secret'
         /\ locked' \in BOOLEAN /\ held' \in Seq(Key) /\ forward' \in Seq(Key)
         /\ tty' \in Seq(Key) /\ unread' \in 0..Len(tty')
         /\ \A i \in 1..Len(tty') : i + 1 \in 1..Len(tty) /\ tty'[i] = tty[i + 1]
<1>. DEFINE k == Head(tty)
<1>1. /\ UNCHANGED <<got, to_child, typed, polled, noticed, left>>
      /\ G!Type(k) /\ tty' = Tail(tty)
      /\ unread > 0 /\ unread' = unread - 1
      /\ guarded' = IF locked /\ ~locked' THEN {x \in guarded : x <= k} ELSE guarded
  BY DEF feed, Guard
<1>2. unread \in 0..Len(tty) /\ Len(tty) \in Nat /\ tty # <<>>
  <2>1. unread \in 0..Len(tty) /\ Len(tty) \in Nat /\ unread # 0
    BY <1>1, Typed, Places DEF TypeOK
  <2>. QED BY <2>1, NoPlaces
<1>3. /\ k \in Range(tty) /\ Range(Tail(tty)) \subseteq Range(tty)
      /\ Under({k}, Range(Tail(tty))) /\ Len(Tail(tty)) = Len(tty) - 1
      /\ \A i \in 1..Len(tty) - 1 : Tail(tty)[i] = tty[i + 1]
  BY <1>2, Typed, First DEF Way
<1>4. Range(tty) \subseteq Key /\ Tail(tty) \in Seq(Key)
  BY <1>2, Typed, Places, HeadTailProperties
<1>5. k \in Key /\ k \in Nat /\ Range(tty) \subseteq Nat
  BY <1>3, <1>4, KeyFacts
<1>6. /\ Way(got, to_child, forward, held, Tail(tty))
      /\ Way(got, to_child, forward, Append(held, k), Tail(tty))
      /\ Past(got, to_child, forward, Append(held, k)) \subseteq Past(got, to_child, forward, held) \cup {k}
  BY <1>2, Typed, WayTakes
<1>7. /\ Append(held, k) \in Seq(Key) /\ Append(held, k) \in Seq(Nat)
      /\ Sorted(Append(held, k))
  BY <1>5, <1>6, Typed, KeyFacts, AppendProperties DEF Way
<1>8. unread' \in 0..Len(tty') /\ \A i \in 1..Len(tty') : i + 1 \in 1..Len(tty) /\ tty'[i] = tty[i + 1]
  BY <1>1, <1>2, <1>3
<1>0. \A i \in DOMAIN tty' : tty'[i] = typed' - Len(tty') + i
  <2>1. DOMAIN tty' = 1..Len(tty') /\ Len(tty') = Len(tty) - 1 /\ DOMAIN tty = 1..Len(tty)
    BY <1>1, <1>3, <1>4, Typed, Places
  <2>2. ASSUME NEW i \in 1..Len(tty') PROVE tty'[i] = typed' - Len(tty') + i
    <3>1. i + 1 \in DOMAIN tty /\ tty'[i] = tty[i + 1] /\ typed' = typed /\ typed \in Nat
      BY <1>1, <1>8, <2>1 DEF Keys
    <3>2. tty[i + 1] = typed - Len(tty) + (i + 1)
      BY <3>1 DEF Keys
    <3>. QED BY <1>2, <2>1, <3>1, <3>2
  <2>. QED BY <2>1, <2>2
<1>. HIDE DEF k
<1>9. CASE locked
  <2>1. UNCHANGED <<held, forward>> /\ locked' \in BOOLEAN
    BY <1>1, <1>9 DEF G!Type
  <2>2. Past(got', to_child', forward', held') = Past(got, to_child, forward, held)
    BY <1>1, <2>1
  <2>3. guarded' \subseteq guarded
    BY <1>1
  <2>4. Keys'
    BY <1>0, <1>1, <1>3, <2>2, <2>3 DEF Keys
  <2>5. ~locked' => Range(tty') \cap guarded' = {}
    <3>1. ASSUME NEW x \in Range(Tail(tty)), x \in guarded', ~locked' PROVE FALSE
      <4>1. x <= k
        BY <1>1, <1>9, <3>1
      <4>2. k < x
        BY <1>3 DEF Under
      <4>3. x \in Nat
        BY <1>3, <1>5
      <4>. QED BY <1>5, <4>1, <4>2, <4>3
    <3>. QED BY <1>1, <3>1
  <2>6. Secret'
    BY <1>1, <2>2, <2>3, <2>5 DEF Secret
  <2>. QED BY <1>1, <1>4, <1>6, <1>8, <2>1, <2>4, <2>6, Typed
<1>10. CASE ~locked
  <2>1. G!Decide(Append(held, k), forward) /\ guarded' = guarded
    BY <1>1, <1>10 DEF G!Type
  <2>2. /\ locked' = locked \/ locked' = TRUE
        /\ Way(got, to_child, forward', held', Tail(tty))
        /\ Past(got, to_child, forward', held') \subseteq Past(got, to_child, forward, held) \cup {k}
        /\ held' \in Seq(Key) /\ forward' \in Seq(Key)
    <3>1. CASE /\ held' = Append(held, k) /\ forward' = forward
               /\ (locked' = locked \/ locked' = TRUE)
      BY <1>6, <1>7, <3>1, Typed
    <3>2. CASE /\ held' = <<>> /\ (locked' = locked \/ locked' = TRUE)
               /\ \E a \in Seq(Key) : /\ forward' = forward \o a
                                      /\ Sorted(a) /\ Range(a) \subseteq Range(Append(held, k))
      <4>1. PICK a \in Seq(Key) : /\ forward' = forward \o a
                                  /\ Sorted(a) /\ Range(a) \subseteq Range(Append(held, k))
        BY <3>2
      <4>2. a \in Seq(Nat) /\ forward \o a \in Seq(Key) /\ <<>> \in Seq(Key)
        BY Typed, NoPlaces, KeyFacts, ConcatProperties
      <4>3. /\ Way(got, to_child, forward \o a, <<>>, Tail(tty))
            /\ Past(got, to_child, forward \o a, <<>>)
                 \subseteq Past(got, to_child, forward, Append(held, k))
        BY <1>6, <4>1, <4>2, Typed, WayDecides
      <4>. QED BY <1>6, <3>2, <4>1, <4>2, <4>3
    <3>. QED BY <1>7, <2>1, <3>1, <3>2, Typed, GateDecides
  <2>3. Keys'
    BY <1>0, <1>1, <1>3, <2>1, <2>2 DEF Keys
  <2>4. Secret'
    BY <1>1, <1>3, <1>10, <2>1, <2>2 DEF Secret
  <2>5. locked' \in BOOLEAN
    BY <2>2, Typed
  <2>. QED BY <1>1, <1>4, <1>8, <2>2, <2>3, <2>4, <2>5
<1>. QED BY <1>9, <1>10, Typed

(* A client is served: what the gate held or was handing over is lost, and *)
(* only the keys that poll had not seen, or the read had left, are free.   *)
LEMMA ServeKeeps ==
  ASSUME TypeOK, Keys, Way(got, to_child, forward, held, tty), Secret, Noticed, serve_one
  PROVE  /\ Keys' /\ Way(got', to_child', forward', held', tty') /\ Secret'
         /\ locked' \in BOOLEAN /\ held' \in Seq(Key) /\ forward' \in Seq(Key)
<1>1. /\ UNCHANGED <<got, to_child, typed, polled, noticed, tty>> /\ pc = "control"
      /\ UNCHANGED gate \/ G!Switch
      /\ guarded' = IF locked /\ ~locked' THEN {x \in guarded : x <= polled} ELSE guarded
      /\ left' = IF locked /\ ~locked' THEN left \cup {x \in guarded : x > noticed} ELSE left
  BY DEF serve_one, Guard, loop
<1>2. locked' \in BOOLEAN /\ (held' = held \/ held' = <<>>) /\ (forward' = forward \/ forward' = <<>>)
  BY <1>1, Typed DEF gate, G!Switch
<1>3. held' \in Seq(Key) /\ forward' \in Seq(Key)
  BY <1>2, Typed, NoPlaces
<1>4. /\ Way(got, to_child, forward', held', tty)
      /\ Past(got, to_child, forward', held') \subseteq Past(got, to_child, forward, held)
  <2>1. CASE held' = held /\ forward' = forward
    BY <2>1
  <2>2. CASE held' = <<>> /\ forward' = <<>>
    <3>1. /\ Way(got, to_child, <<>>, held, tty)
          /\ Past(got, to_child, <<>>, held) \subseteq Past(got, to_child, forward, held)
      BY WayLoses
    <3>2. /\ Way(got, to_child, <<>>, <<>>, tty)
          /\ Past(got, to_child, <<>>, <<>>) \subseteq Past(got, to_child, <<>>, held)
      BY <3>1, WayLoses
    <3>. QED BY <2>2, <3>1, <3>2
  <2>3. (held' = held /\ forward' = forward) \/ (held' = <<>> /\ forward' = <<>>)
    BY <1>1 DEF gate, G!Switch
  <2>. QED BY <2>1, <2>2, <2>3
<1>5. guarded' \subseteq guarded /\ guarded' \ left' \subseteq guarded \ left
  BY <1>1
<1>6. ~locked' => Range(tty) \cap (guarded' \ left') = {}
  <2>1. CASE ~locked
    BY <1>5, <2>1 DEF Secret
  <2>2. CASE locked
    BY <1>1, <1>5, <2>2 DEF Noticed
  <2>. QED BY <2>1, <2>2, Typed
<1>7. Keys'
  BY <1>1, <1>4, <1>5 DEF Keys
<1>8. Secret'
  BY <1>1, <1>4, <1>5, <1>6 DEF Secret
<1>. QED BY <1>1, <1>2, <1>3, <1>4, <1>7, <1>8

(* The user types: the key is the last, and guarded under a lock.          *)
LEMMA TypesKeeps ==
  ASSUME TypeOK, Keys, Way(got, to_child, forward, held, tty), Secret, UserTypes
  PROVE  /\ Keys' /\ Way(got', to_child', forward', held', tty') /\ Secret'
         /\ tty' \in Seq(Key) /\ Len(tty') = Len(tty) + 1
         /\ \A i \in 1..Len(tty) : tty'[i] = tty[i]
         /\ tty'[Len(tty) + 1] = typed + 1 /\ Range(tty') = Range(tty) \cup {typed + 1}
<1>1. /\ UNCHANGED <<got, to_child, forward, held, locked, polled, noticed, left>>
      /\ typed < MaxTyped /\ typed' = typed + 1 /\ tty' = Append(tty, typed + 1)
      /\ guarded' = IF locked THEN guarded \cup {typed + 1} ELSE guarded
  BY DEF UserTypes, loop, gate
<1>2. typed \in Nat /\ typed <= MaxTyped /\ MaxTyped \in Nat /\ typed + 1 \in Key /\ typed + 1 \in Nat
  BY <1>1, KeyFacts DEF Keys, Key
<1>3. Under(Past(got, to_child, forward, held) \cup Range(tty), {typed + 1})
  BY <1>2 DEF Keys, Under
<1>4. /\ Way(got, to_child, forward, held, Append(tty, typed + 1))
      /\ Append(tty, typed + 1) \in Seq(Key)
  BY <1>2, <1>3, Typed, WayGrows, AppendProperties
<1>5. /\ Range(tty') = Range(tty) \cup {typed + 1} /\ Len(tty') = Len(tty) + 1
      /\ \A i \in 1..Len(tty) : tty'[i] = tty[i]
      /\ tty'[Len(tty) + 1] = typed + 1
  BY <1>1, <1>2, Typed, Added
<1>6. Past(got', to_child', forward', held') = Past(got, to_child, forward, held)
  BY <1>1
<1>7. typed + 1 \notin guarded /\ typed + 1 \notin Past(got, to_child, forward, held)
  BY <1>2 DEF Keys
<1>8. Keys'
  <2>1. 1..typed \subseteq 1..typed + 1 /\ typed + 1 \in 1..typed + 1 /\ typed \in 0..typed + 1
    BY <1>2
  <2>2. typed' \in 0..MaxTyped /\ polled' \in 0..typed' /\ noticed' \in 0..typed'
    BY <1>1, <1>2 DEF Keys
  <2>3. \A i \in DOMAIN tty' : tty'[i] = typed' - Len(tty') + i
    <3>1. /\ DOMAIN tty' = 1..Len(tty) + 1 /\ DOMAIN tty = 1..Len(tty) /\ Len(tty) \in Nat
      BY <1>1, <1>4, <1>5, Typed, Places
    <3>2. ASSUME NEW i \in 1..Len(tty) PROVE tty'[i] = typed' - Len(tty') + i
      <4>1. tty[i] = typed - Len(tty) + i
        BY <3>1 DEF Keys
      <4>. QED BY <1>1, <1>2, <1>5, <3>1, <4>1
    <3>3. tty'[Len(tty) + 1] = typed' - Len(tty') + (Len(tty) + 1)
      BY <1>1, <1>2, <1>5, <3>1
    <3>. QED BY <3>1, <3>2, <3>3
  <2>. QED BY <1>1, <1>5, <1>6, <2>1, <2>2, <2>3 DEF Keys
<1>9. Secret'
  BY <1>1, <1>5, <1>6, <1>7 DEF Secret
<1>. QED BY <1>1, <1>4, <1>5, <1>8, <1>9

-------------------------------------------------------------------------------
(* The steps that move no key: they leave the way as it is, and the gate.  *)
Still ==
  /\ UNCHANGED <<got, to_child, forward, held, tty, locked, typed, guarded, left>>
  /\ polled' \in {polled, typed}
  /\ noticed' \in {noticed, Min({noticed, typed - Len(tty)}), typed - Len(tty) + OneRead(Len(tty))}

Elsewhere ==
  \/ spawn \/ enable \/ finish \/ poll \/ read_signals \/ try_wait \/ read_stdin
  \/ stdin_retried \/ child_phase \/ served \/ no_flush \/ drain
  \/ TerminalGoes \/ ClientAsks \/ SignalComes \/ CommandWrites \/ CommandCloses
  \/ CommandReopens \/ CommandExits \/ UNCHANGED vars

Moving == feed \/ fed \/ pollout \/ flush \/ flushed \/ serve_one \/ UserTypes

(* Every step is one or the other.                                         *)
LEMMA Steps ==
  ASSUME [Next]_vars
  PROVE  Elsewhere \/ Moving
BY DEF Next, Loop, Environment, Elsewhere, Moving

(* Elsewhere in the loop the input stays as it is.                         *)
LEMMA ElsewhereStill ==
  ASSUME Elsewhere
  PROVE  Still
<1>1. CASE spawn
  BY <1>1 DEF spawn, Still, gate, hist
<1>2. CASE enable
  BY <1>2 DEF enable, Still, gate, env, hist
<1>3. CASE finish
  BY <1>3 DEF finish, Still, gate, env, hist
<1>4. CASE poll
  BY <1>4 DEF poll, Still, gate, env
<1>5. CASE read_signals
  BY <1>5 DEF read_signals, Still, gate, env, hist
<1>6. CASE try_wait
  BY <1>6 DEF try_wait, Still, gate, env, hist
<1>7. CASE read_stdin
  BY <1>7 DEF read_stdin, Still, gate, env, hist
<1>14. CASE stdin_retried
  BY <1>14 DEF stdin_retried, Still, gate
<1>8. CASE child_phase
  BY <1>8 DEF child_phase, Still, gate, env, hist
<1>9. CASE served \/ no_flush
  BY <1>9 DEF served, no_flush, Still, gate, env, hist
<1>10. CASE drain
  BY <1>10 DEF drain, Still, gate, env, hist
<1>11. CASE TerminalGoes \/ ClientAsks \/ SignalComes
  BY <1>11 DEF TerminalGoes, ClientAsks, SignalComes, Still, loop, gate, hist
<1>12. CASE CommandWrites \/ CommandCloses \/ CommandReopens \/ CommandExits
  BY <1>12 DEF CommandWrites, CommandCloses, CommandReopens, CommandExits, Still, loop, gate, hist
<1>13. CASE UNCHANGED vars
  BY <1>13 DEF Still, vars, loop, gate, env, hist
<1>. QED BY <1>1, <1>2, <1>3, <1>4, <1>5, <1>6, <1>7, <1>8, <1>9, <1>10, <1>11, <1>12, <1>13, <1>14
     DEF Elsewhere

(* The keys' part of the type invariant, and that of the loop.             *)
KeysType ==
  /\ to_child \in Seq(Key) /\ Len(to_child) <= MAX_PENDING_INPUT
  /\ locked \in BOOLEAN /\ held \in Seq(Key) /\ forward \in Seq(Key)
  /\ tty \in Seq(Key) /\ got \in Seq(Key)

LoopType ==
  /\ pc \in Range(Phases) \cup {"start", "spawned", "poll", "wait", "feed", "timers", "flushed",
                                "drain", "exited", "late", "hangup", "failed", "done"}
  /\ ready \subseteq Range(Phases)
  /\ unread \in 0..Len(tty)
  /\ pty_open \in BOOLEAN
  /\ signals \in Seq(Signal) /\ Len(signals) <= MaxPipe
  /\ child \in {"none", "running", "zombie", "reaped"}

(* The type invariant is these two.                                        *)
LEMMA TypeParts == TypeOK <=> KeysType /\ LoopType
BY DEF TypeOK, KeysType, LoopType

(* No step breaks the order of the keys, or lets a guarded one pass.       *)
LEMMA NextKeepsKeys ==
  ASSUME TypeOK, Keys, Way(got, to_child, forward, held, tty), Secret, Noticed, [Next]_vars
  PROVE  KeysType' /\ Keys' /\ Way(got', to_child', forward', held', tty') /\ Secret'
<1>. USE TypeParts
<1>1. CASE Still
  <2>1. KeysType'
    BY <1>1 DEF Still, KeysType
  <2>2. polled' \in 0..typed /\ noticed' \in 0..typed
    <3>1. Len(tty) \in Nat /\ typed \in Nat /\ noticed \in 0..typed /\ Len(tty) <= typed
      <4>1. /\ Len(tty) \in Nat /\ DOMAIN tty = 1..Len(tty)
            /\ \A i \in 1..Len(tty) : tty[i] \in Range(tty)
        BY Typed, Places
      <4>2. typed \in Nat /\ noticed \in 0..typed
        BY KeyFacts DEF Keys
      <4>3. CASE Len(tty) > 0
        <5>1. 1 \in DOMAIN tty /\ tty[1] \in 1..typed
          BY <4>1, <4>3 DEF Keys
        <5>2. tty[1] = typed - Len(tty) + 1
          BY <5>1 DEF Keys
        <5>. QED BY <4>1, <4>2, <5>1, <5>2
      <4>. QED BY <4>1, <4>2, <4>3
    <3>2. Min({noticed, typed - Len(tty)}) \in 0..typed
      BY <3>1, OneReadFacts
    <3>3. typed - Len(tty) + OneRead(Len(tty)) \in 0..typed
      BY <3>1, OneReadFacts
    <3>. QED BY <1>1, <3>1, <3>2, <3>3, KeyFacts DEF Still, Keys
  <2>3. Keys' /\ Secret' /\ Way(got', to_child', forward', held', tty')
    BY <1>1, <2>2 DEF Still, Keys, Secret
  <2>. QED BY <2>1, <2>3
<1>2. CASE feed
  <2>1. UNCHANGED <<got, to_child>>
    BY <1>2 DEF feed
  <2>. QED BY <1>2, <2>1, FeedKeeps DEF KeysType
<1>3. CASE fed \/ flushed
  <2>1. apply /\ UNCHANGED <<tty, typed>>
    BY <1>3 DEF fed, flushed, env
  <2>2. <<>> \in Seq(Key)
    BY NoPlaces
  <2>. QED BY <2>1, <2>2, ApplyKeeps DEF KeysType
<1>4. CASE pollout
  <2>1. UNCHANGED <<locked, held, forward, tty>>
    BY <1>4 DEF pollout, gate, env
  <2>. QED BY <1>4, <2>1, PolloutKeeps DEF KeysType
<1>5. CASE flush
  <2>1. UNCHANGED <<got, to_child, tty>>
    BY <1>5 DEF flush, env
  <2>. QED BY <1>5, <2>1, FlushKeeps DEF KeysType
<1>6. CASE serve_one
  <2>1. UNCHANGED <<got, to_child, tty>>
    BY <1>6 DEF serve_one, loop
  <2>. QED BY <1>6, <2>1, ServeKeeps DEF KeysType
<1>7. CASE UserTypes
  <2>1. UNCHANGED <<got, to_child, locked, held, forward>>
    BY <1>7 DEF UserTypes, loop, gate
  <2>. QED BY <1>7, <2>1, TypesKeeps DEF KeysType
<1>. QED BY <1>1, <1>2, <1>3, <1>4, <1>5, <1>6, <1>7, Steps, ElsewhereStill DEF Moving

-------------------------------------------------------------------------------
(* The loop's part of the type invariant.                                  *)

(* The signal pipe never holds more than it can.                           *)
LEMMA SignalsType ==
  ASSUME LoopType
  PROVE  /\ \A s \in Signal : on_signal(s) => signals' \in Seq(Signal) /\ Len(signals') <= MaxPipe
         /\ read_signals => signals' \in Seq(Signal) /\ Len(signals') <= MaxPipe
<1>1. /\ signals \in Seq(Signal) /\ Len(signals) \in Nat /\ Len(signals) <= MaxPipe
      /\ MaxPipe \in Nat /\ SignalRead \in Nat
  BY RelayAssumption, Places DEF LoopType
<1>2. ASSUME NEW s \in Signal, on_signal(s)
      PROVE  signals' \in Seq(Signal) /\ Len(signals') <= MaxPipe
  <2>1. Append(signals, s) \in Seq(Signal) /\ Len(Append(signals, s)) = Len(signals) + 1
    BY <1>1, AppendProperties
  <2>. QED BY <1>1, <1>2, <2>1 DEF on_signal
<1>3. ASSUME read_signals
      PROVE  signals' \in Seq(Signal) /\ Len(signals') <= MaxPipe
  <2>. DEFINE n == IF Len(signals) < SignalRead THEN Len(signals) ELSE SignalRead
  <2>1. n \in 0..Len(signals) /\ 1 \in 1..Len(signals) + 1
    BY <1>1
  <2>2. Taken(signals) = SubSeq(signals, 1, n)
    BY DEF Taken
  <2>. HIDE DEF n
  <2>3. Len(Taken(signals)) <= Len(signals) /\ Taken(signals) \in Seq(Signal)
    BY <1>1, <2>1, <2>2, Parted
  <2>4. Len(Taken(signals)) \in Nat
    BY <2>3, Places
  <2>5. Len(Taken(signals)) + 1 \in 1..Len(signals) + 1 /\ Len(signals) \in 0..Len(signals)
    BY <1>1, <2>3, <2>4
  <2>6. PICK m \in 1..Len(signals) + 1 : signals' = SubSeq(signals, m, Len(signals))
    BY <1>3, <2>5 DEF read_signals
  <2>7. /\ SubSeq(signals, m, Len(signals)) \in Seq(Signal)
        /\ Len(SubSeq(signals, m, Len(signals))) <= Len(signals)
    BY <1>1, <2>5, Parted
  <2>8. Len(signals') \in Nat
    BY <2>6, <2>7, Places
  <2>. QED BY <1>1, <2>6, <2>7, <2>8
<1>. QED BY <1>2, <1>3

Names == Range(Phases) \cup {"start", "spawned", "poll", "wait", "feed", "timers", "flushed",
                             "drain", "exited", "late", "hangup", "failed", "done"}

(* The next phase is a place of the loop.                                  *)
LEMMA PhaseNamed == \A p, r : PhaseAfter(p, r) \in Names
BY PhaseOrder DEF Names

(* Every step keeps the loop's types.                                      *)
LEMMA NextKeepsLoop ==
  ASSUME TypeOK, Keys, Way(got, to_child, forward, held, tty), Secret, [Next]_vars
  PROVE  LoopType'
<1>. USE TypeParts
<1>0. /\ LoopType /\ pc \in Names /\ Len(tty) \in Nat
      /\ {"start", "spawned", "poll", "wait", "feed", "timers", "flushed",
          "drain", "exited", "late", "hangup", "failed", "done"} \subseteq Names
  BY Typed, Places DEF LoopType, Names
<1>1. pc' \in Names
  <2>1. CASE Elsewhere
    <3>1. CASE spawn \/ enable \/ finish \/ no_flush
      BY <1>0, <3>1 DEF spawn, enable, finish, no_flush
    <3>2. CASE poll \/ try_wait \/ stdin_retried \/ served \/ child_phase
      BY <1>0, <3>2, PhaseNamed DEF poll, try_wait, stdin_retried, served, Leave, child_phase
    <3>3. CASE read_signals
      BY <1>0, <3>3 DEF read_signals
    <3>4. CASE read_stdin
      BY <1>0, <3>4 DEF read_stdin
    <3>5. CASE drain
      BY <1>0, <3>5 DEF drain
    <3>6. CASE pc' = pc
      BY <1>0, <3>6
    <3>. QED BY <2>1, <3>1, <3>2, <3>3, <3>4, <3>5, <3>6 DEF Elsewhere, TerminalGoes, ClientAsks,
         SignalComes, CommandWrites, CommandCloses, CommandReopens, CommandExits, vars, loop
  <2>2. CASE Moving
    BY <1>0, <2>2, PhaseNamed DEF Moving, feed, fed, pollout, Leave, flush, flushed, serve_one,
         UserTypes, loop
  <2>. QED BY <2>1, <2>2, Steps
<1>2. ready' \subseteq Range(Phases)
  <2>1. CASE poll
    <3>1. Pollable \cup {"write"} \subseteq Range(Phases)
      BY PhaseNames DEF Pollable
    <3>. QED BY <2>1, <3>1 DEF poll
  <2>2. CASE ~poll
    <3>1. ready' = ready
      BY <2>2 DEF Next, Loop, Environment, spawn, enable, finish, read_signals, try_wait,
         read_stdin, stdin_retried, feed, fed, pollout, child_phase, serve_one, served, flush, flushed, no_flush,
         drain, UserTypes, TerminalGoes, ClientAsks, SignalComes, CommandWrites, CommandCloses,
         CommandReopens, CommandExits, vars, loop
    <3>. QED BY <1>0, <3>1 DEF LoopType
  <2>. QED BY <2>1, <2>2
<1>3. unread' \in 0..Len(tty')
  <2>1. CASE feed
    BY <2>1, FeedKeeps
  <2>2. CASE UserTypes
    <3>1. unread' = unread /\ Len(tty') = Len(tty) + 1
      BY <2>2, TypesKeeps DEF UserTypes, loop
    <3>. QED BY <1>0, <3>1 DEF LoopType
  <2>3. CASE read_stdin
    <3>1. tty' = tty /\ unread' \in {unread, OneRead(Len(tty))}
      BY <2>3 DEF read_stdin, env
    <3>2. OneRead(Len(tty)) \in 0..Len(tty)
      BY <1>0, OneReadFacts
    <3>. QED BY <1>0, <3>1, <3>2 DEF LoopType
  <2>4. CASE ~feed /\ ~UserTypes /\ ~read_stdin
    <3>1. unread' = unread /\ tty' = tty
      BY <2>4 DEF Next, Loop, Environment, spawn, enable, finish, poll, read_signals, try_wait,
         stdin_retried, fed, pollout, child_phase, serve_one, served, flush, flushed, no_flush,
         drain, TerminalGoes, ClientAsks, SignalComes, CommandWrites, CommandCloses,
         CommandReopens, CommandExits, vars, loop, env
    <3>. QED BY <1>0, <3>1 DEF LoopType
  <2>. QED BY <2>1, <2>2, <2>3, <2>4
<1>4. pty_open' \in BOOLEAN
  <2>1. CASE child_phase \/ drain
    BY <1>0, <2>1 DEF child_phase, drain, read_child, LoopType
  <2>2. CASE ~child_phase /\ ~drain
    <3>1. pty_open' = pty_open
      BY <2>2 DEF Next, Loop, Environment, spawn, enable, finish, poll, read_signals, try_wait,
         read_stdin, stdin_retried, feed, fed, pollout, serve_one, served, flush, flushed, no_flush,
         UserTypes, TerminalGoes, ClientAsks, SignalComes, CommandWrites, CommandCloses,
         CommandReopens, CommandExits, vars, loop
    <3>. QED BY <1>0, <3>1 DEF LoopType
  <2>. QED BY <2>1, <2>2
<1>5. signals' \in Seq(Signal) /\ Len(signals') <= MaxPipe
  <2>1. CASE read_signals
    BY <1>0, <2>1, SignalsType
  <2>2. CASE TerminalGoes \/ SignalComes \/ CommandExits
    <3>1. {"HUP", "TERM", "WINCH", "CHLD"} \subseteq Signal
      BY DEF Signal, Forwarded
    <3>2. \E s \in Signal : on_signal(s)
      BY <2>2, <3>1 DEF TerminalGoes, SignalComes, CommandExits
    <3>. QED BY <1>0, <3>2, SignalsType
  <2>3. CASE ~read_signals /\ ~TerminalGoes /\ ~SignalComes /\ ~CommandExits
    <3>1. signals' = signals
      BY <2>3 DEF Next, Loop, Environment, spawn, enable, finish, poll, try_wait,
         read_stdin, stdin_retried, feed, fed, pollout, child_phase, serve_one, served, flush, flushed, no_flush,
         drain, UserTypes, ClientAsks, CommandWrites, CommandCloses,
         CommandReopens, vars
    <3>. QED BY <1>0, <3>1 DEF LoopType
  <2>. QED BY <2>1, <2>2, <2>3
<1>6. child' \in {"none", "running", "zombie", "reaped"}
  <2>1. CASE spawn \/ try_wait \/ CommandExits
    BY <1>0, <2>1 DEF spawn, try_wait, CommandExits, LoopType
  <2>2. CASE ~spawn /\ ~try_wait /\ ~CommandExits
    <3>1. child' = child
      BY <2>2 DEF Next, Loop, Environment, enable, finish, poll, read_signals,
         read_stdin, stdin_retried, feed, fed, pollout, child_phase, serve_one, served, flush, flushed, no_flush,
         drain, UserTypes, TerminalGoes, ClientAsks, SignalComes, CommandWrites, CommandCloses,
         CommandReopens, vars, command
    <3>. QED BY <1>0, <3>1 DEF LoopType
  <2>. QED BY <2>1, <2>2
<1>. QED BY <1>1, <1>2, <1>3, <1>4, <1>5, <1>6 DEF LoopType, Names

-------------------------------------------------------------------------------
(* The keys that poll has not seen, and the end of the session.            *)

(* After signals and reading, the phases are those that follow.            *)
LEMMA NextKeepsNoticed ==
  ASSUME TypeOK, Keys, Way(got, to_child, forward, held, tty), Secret, Noticed, [Next]_vars
  PROVE  Noticed'
<1>1. /\ tty \in Seq(Nat) /\ Len(tty) \in Nat /\ DOMAIN tty = 1..Len(tty)
      /\ \A i \in 1..Len(tty) : tty[i] \in Range(tty) /\ tty[i] \in Nat
      /\ \A x \in Range(tty) : \E i \in 1..Len(tty) : tty[i] = x
      /\ unread \in 0..Len(tty) /\ typed \in Nat /\ noticed \in Nat /\ noticed <= typed
  BY Typed, Places, KeyFacts DEF TypeOK, Keys
<1>2. \A r : /\ \A p \in {"stdin", "write", "child", "control"} :
                  PhaseAfter(p, r) \notin {"signals", "wait", "stdin", "feed"}
             /\ PhaseAfter("poll", r) \notin {"wait", "feed"}
             /\ PhaseAfter("signals", r) \notin {"signals", "wait", "feed"}
             /\ "stdin" \in r => PhaseAfter("signals", r) = "stdin"
             /\ "stdin" \in r => PhaseAfter("poll", r) \in {"signals", "stdin"}
  BY PhaseOrder, PhaseNames
<1>3. CASE poll
  <2>1. /\ tty' = tty /\ pc' = PhaseAfter("poll", ready') /\ Pollable \subseteq ready'
        /\ noticed' = typed - Len(tty) + OneRead(Len(tty))
    BY <1>3 DEF poll, env
  <2>2. tty # <<>> => "stdin" \in ready'
    BY <2>1 DEF Pollable
  <2>3. CASE tty = <<>>
    <3>1. Range(tty') = {} /\ DOMAIN tty' = {}
      BY <2>1, <2>3, NoPlaces
    <3>. QED BY <1>2, <2>1, <3>1 DEF Noticed
  <2>5. ASSUME NEW i \in DOMAIN tty, i > READ_SIZE PROVE tty[i] > noticed'
    <3>1. tty[i] = typed - Len(tty) + i
      BY DEF Keys
    <3>. QED BY <1>1, <2>1, <2>5, <3>1, OneReadFacts
  <2>4. CASE "stdin" \in ready'
    BY <1>2, <2>1, <2>4, <2>5 DEF Noticed
  <2>. QED BY <2>2, <2>3, <2>4
<1>4. CASE read_signals
  BY <1>4 DEF read_signals, env, hist, Noticed
<1>5. CASE try_wait
  <2>1. /\ UNCHANGED <<ready, tty, noticed>> /\ pc = "wait"
        /\ pc' \in {"drain", PhaseAfter("signals", ready)}
    BY <1>5 DEF try_wait, env, hist
  <2>2. "stdin" \notin ready => \A i \in DOMAIN tty : tty[i] > noticed
    BY <1>1, <2>1 DEF Noticed
  <2>. QED BY <1>2, <2>1, <2>2 DEF Noticed
<1>6. CASE read_stdin
  <2>0. tty' = tty
    BY <1>6 DEF read_stdin, env
  <2>1. /\ tty' = tty /\ pc = "stdin" /\ noticed' = noticed
        /\ pc' = "hangup" \/ (pc' = "feed" /\ unread' = OneRead(Len(tty)))
    BY <1>6, <2>0 DEF read_stdin, hist
  <2>2. pc' = "feed" => \A i \in DOMAIN tty' : i > unread' => tty'[i] > noticed'
    <3>1. pc' = "feed" => \A i \in DOMAIN tty : i > unread' => i > READ_SIZE
      BY <1>1, <2>1, OneReadFacts
    <3>. QED BY <2>1, <3>1 DEF Noticed
  <2>3. pc' \in {"hangup", "feed"}
    BY <2>1
  <2>. QED BY <2>2, <2>3 DEF Noticed
<1>15. CASE stdin_retried
  <2>1. /\ tty' = tty /\ pc = "stdin" /\ pc' = PhaseAfter("stdin", ready)
        /\ noticed' = Min({noticed, typed - Len(tty)})
    BY <1>15 DEF stdin_retried, Leave
  <2>2. noticed' <= typed - Len(tty) /\ noticed' \in Int
    BY <1>1, <2>1, OneReadFacts
  <2>3. ASSUME NEW i \in DOMAIN tty PROVE tty[i] > noticed'
    <3>1. tty[i] = typed - Len(tty) + i
      BY DEF Keys
    <3>. QED BY <1>1, <2>2, <3>1
  <2>4. \A k \in Range(tty') : k > noticed'
    BY <1>1, <2>1, <2>3
  <2>. QED BY <1>2, <2>1, <2>4 DEF Noticed
<1>7. CASE feed
  <2>1. /\ pc = "feed" /\ pc' = "feed" /\ noticed' = noticed /\ unread' = unread - 1
    BY <1>7 DEF feed, Guard
  <2>2. /\ tty' \in Seq(Nat)
        /\ \A i \in 1..Len(tty') : i + 1 \in 1..Len(tty) /\ tty'[i] = tty[i + 1]
    BY <1>7, FeedKeeps, KeyFacts
  <2>3. DOMAIN tty' = 1..Len(tty') /\ Len(tty') \in Nat
    BY <2>2, Places
  <2>4. ASSUME NEW i \in DOMAIN tty', i > unread' PROVE tty'[i] > noticed'
    <3>1. i + 1 \in DOMAIN tty /\ i + 1 > unread /\ tty'[i] = tty[i + 1]
      BY <1>1, <2>1, <2>2, <2>3, <2>4
    <3>. QED BY <2>1, <3>1 DEF Noticed
  <2>. QED BY <2>1, <2>4 DEF Noticed
<1>8. CASE fed
  <2>1. /\ UNCHANGED <<tty, noticed>> /\ pc = "feed" /\ unread = 0
        /\ pc' = PhaseAfter("stdin", ready)
    BY <1>8 DEF fed, env, apply, hist
  <2>2. \A k \in Range(tty) : k > noticed
    BY <1>1, <2>1 DEF Noticed
  <2>. QED BY <1>2, <2>1, <2>2 DEF Noticed
<1>9. CASE pollout \/ child_phase \/ served
  <2>1. /\ UNCHANGED <<tty, noticed>> /\ pc \in {"write", "child", "control"}
        /\ pc' \in {"failed", PhaseAfter(pc, ready)}
    BY <1>9 DEF pollout, child_phase, served, Leave, env, hist
  <2>. QED BY <1>2, <2>1 DEF Noticed
<1>10. CASE UserTypes
  <2>1. UNCHANGED <<pc, ready, unread, noticed>>
    BY <1>10 DEF UserTypes, loop
  <2>2. /\ tty' \in Seq(Nat) /\ Len(tty') = Len(tty) + 1 /\ \A i \in 1..Len(tty) : tty'[i] = tty[i]
        /\ tty'[Len(tty) + 1] = typed + 1 /\ Range(tty') = Range(tty) \cup {typed + 1}
    BY <1>10, TypesKeeps, KeyFacts
  <2>3. DOMAIN tty' = 1..Len(tty) + 1
    BY <2>2, Places
  <2>4. typed + 1 > noticed
    BY <1>1
  <2>5. ASSUME NEW i \in DOMAIN tty', i > unread, pc = "feed" PROVE tty'[i] > noticed
    <3>1. CASE i \in 1..Len(tty)
      BY <1>1, <2>2, <2>5, <3>1 DEF Noticed
    <3>2. CASE i = Len(tty) + 1
      BY <2>2, <2>4, <3>2
    <3>. QED BY <1>1, <2>3, <3>1, <3>2
  <2>6. ASSUME NEW i \in DOMAIN tty', i > READ_SIZE, pc \in {"signals", "wait", "stdin"}
        PROVE  tty'[i] > noticed'
    <3>1. CASE i \in 1..Len(tty)
      BY <1>1, <2>1, <2>2, <2>6, <3>1 DEF Noticed
    <3>2. CASE i = Len(tty) + 1
      BY <2>1, <2>2, <2>4, <3>2
    <3>. QED BY <1>1, <2>3, <3>1, <3>2
  <2>. QED BY <2>1, <2>2, <2>4, <2>5, <2>6 DEF Noticed
<1>11. CASE UNCHANGED <<pc, ready, unread, tty, noticed>>
  BY <1>11 DEF Noticed
<1>12. CASE pc' \notin {"signals", "wait", "stdin", "feed", "write", "child", "control"}
  BY <1>12 DEF Noticed
<1>13. CASE spawn \/ enable \/ finish \/ flush \/ flushed \/ no_flush \/ drain
  BY <1>12, <1>13 DEF spawn, enable, finish, flush, flushed, no_flush, drain
<1>14. CASE \/ serve_one \/ TerminalGoes \/ ClientAsks \/ SignalComes \/ CommandWrites
            \/ CommandCloses \/ CommandReopens \/ CommandExits \/ UNCHANGED vars
  BY <1>11, <1>14 DEF serve_one, Guard, TerminalGoes, ClientAsks, SignalComes, CommandWrites,
     CommandCloses, CommandReopens, CommandExits, vars, loop, env, hist
<1>. QED BY <1>3, <1>4, <1>5, <1>6, <1>7, <1>8, <1>9, <1>10, <1>13, <1>14, <1>15, Steps
     DEF Elsewhere, Moving

(* The command is waited for once the loop is over, and what it wrote is   *)
(* read before the session ends in time.                                   *)
LEMMA NextKeepsEnding ==
  ASSUME Ending, [Next]_vars
  PROVE  Ending'
<1>. DEFINE End == {"drain", "exited", "late", "failed", "done"}
<1>1. CASE spawn
  BY <1>1 DEF spawn, Ending, LastOutput, hist
<1>2. CASE finish
  BY <1>2 DEF finish, Ending, LastOutput, hist, env, loop
<1>3. CASE try_wait
  <2>1. /\ UNCHANGED <<output, pty_open, reopened, slave>>
        /\ pc = "wait" /\ pc' # "exited" /\ pc' # "start"
    BY <1>3, PhaseOrder, PhaseNames DEF try_wait, hist, env
  <2>2. child' = "reaped" => pc' = "drain"
    BY <1>3, <2>1 DEF try_wait, Ending
  <2>. QED BY <2>1, <2>2 DEF Ending, LastOutput
<1>4. CASE drain
  <2>1. pc = "drain" /\ pc' \in End /\ child' = child /\ UNCHANGED <<reopened, slave>>
    BY <1>4 DEF drain, command, hist, env
  <2>2. output' \in Nat
    BY <1>4 DEF drain, read_child, Ending
  <2>3. pc' = "exited" => output' = 0 \/ reopened'
    BY <1>4, <2>1 DEF drain, read_child, Ending
  <2>4. ~pty_open' /\ ~reopened' => output' = 0 /\ ~slave'
    BY <1>4, <2>1 DEF drain, read_child, Ending
  <2>. QED BY <2>1, <2>2, <2>3, <2>4 DEF Ending, LastOutput
<1>5. CASE child_phase
  <2>1. /\ pc = "child" /\ pc' # "exited" /\ pc' # "start" /\ child' = child
        /\ UNCHANGED <<reopened, slave>>
    BY <1>5, PhaseOrder, PhaseNames DEF child_phase, command, hist, env
  <2>2. output' \in Nat
    BY <1>5 DEF child_phase, read_child, Ending
  <2>3. ~pty_open' /\ ~reopened' => output' = 0 /\ ~slave'
    <3>1. CASE output > 0 /\ pty_open' = pty_open
      <4>1. output # 0
        BY <3>1 DEF Ending
      <4>. QED BY <2>1, <3>1, <4>1, Zenon DEF Ending
    <3>2. CASE output = 0 /\ output' = output /\ pty_open' = (pty_open /\ slave)
      BY <2>1, <3>2, Zenon DEF Ending
    <3>. QED BY <1>5, <3>1, <3>2, Zenon DEF child_phase, read_child
  <2>. QED BY <2>1, <2>2, <2>3 DEF Ending, LastOutput
<1>6. CASE CommandWrites
  <2>1. /\ pc' = pc /\ pc # "exited" /\ child' = child /\ output' = output + 1
        /\ slave /\ UNCHANGED <<pty_open, slave, reopened>>
    BY <1>6 DEF CommandWrites, Happens, Ended, loop, command, hist
  <2>2. /\ pc' = "start" => pty_open'
        /\ ~pty_open' /\ ~reopened' => output' = 0 /\ ~slave'
        /\ child' = "reaped" => pc' \in End
        /\ LastOutput'
    BY <2>1, Zenon DEF Ending, LastOutput
  <2>3. output' \in Nat
    BY <2>1 DEF Ending
  <2>. QED BY <2>2, <2>3, Zenon DEF Ending
<1>7. CASE CommandExits
  <2>1. /\ pc' = pc /\ pc # "exited" /\ child' = "zombie" /\ output' = output
        /\ slave' = slave \/ slave' = FALSE
        /\ UNCHANGED <<pty_open, reopened>>
    BY <1>7 DEF CommandExits, Ended, loop, hist
  <2>2. child' # "reaped" /\ output' \in Nat /\ LastOutput'
    BY <2>1 DEF Ending, LastOutput
  <2>3. pc' = "start" => pty_open'
    BY <2>1, Zenon DEF Ending
  <2>4. ~pty_open' /\ ~reopened' => output' = 0 /\ ~slave'
    <3>1. ~pty_open /\ ~reopened => output' = 0 /\ ~slave
      BY <2>1, Zenon DEF Ending
    <3>2. ~slave => ~slave'
      BY <2>1, Zenon
    <3>. QED BY <2>1, <3>1, <3>2, Zenon
  <2>. QED BY <2>2, <2>3, <2>4, Zenon DEF Ending
<1>8. CASE /\ pc \notin End /\ pc' \notin {"start", "exited"}
           /\ UNCHANGED <<child, output, pty_open, reopened, slave>>
  BY <1>8 DEF Ending, LastOutput
<1>9. CASE UNCHANGED <<pc, child, output, pty_open, reopened, slave>>
  BY <1>9 DEF Ending, LastOutput
<1>10. CASE poll \/ stdin_retried \/ fed \/ pollout \/ served
  <2>1. /\ pc \in {"poll", "stdin", "feed", "write", "control"}
        /\ UNCHANGED <<child, output, pty_open, reopened, slave>>
    BY <1>10 DEF poll, stdin_retried, fed, apply, pollout, served, Leave, command, hist, env
  <2>2. \E p : pc' = PhaseAfter(p, ready')
    BY <1>10 DEF poll, stdin_retried, fed, pollout, served, Leave
  <2>3. pc' \notin {"start", "exited"}
    BY <2>2, PhaseOrder, PhaseNames
  <2>. QED BY <1>8, <2>1, <2>3
<1>11. CASE enable \/ read_signals \/ read_stdin \/ flush \/ flushed \/ no_flush
  BY <1>8, <1>11 DEF enable, read_signals, read_stdin, flush, flushed, apply, no_flush, command,
     hist, env
<1>12. CASE feed \/ serve_one \/ UserTypes \/ TerminalGoes \/ ClientAsks \/ SignalComes
  BY <1>9, <1>12 DEF feed, Guard, serve_one, UserTypes, TerminalGoes, ClientAsks, SignalComes,
     loop, command, hist
<1>13. CASE CommandCloses
  <2>1. UNCHANGED <<pc, child, output, pty_open, reopened>> /\ slave' = FALSE
    BY <1>13 DEF CommandCloses, loop, command, hist
  <2>. QED BY <2>1 DEF Ending, LastOutput
<1>14. CASE CommandReopens
  <2>1. UNCHANGED <<pc, child, output, pty_open>> /\ reopened' = (reopened \/ ~pty_open)
    BY <1>14 DEF CommandReopens, loop, command
  <2>. QED BY <2>1 DEF Ending, LastOutput
<1>15. CASE UNCHANGED vars
  BY <1>9, <1>15 DEF vars, loop, command, env, hist
<1>. QED BY <1>1, <1>2, <1>3, <1>4, <1>5, <1>6, <1>7, <1>10, <1>11, <1>12, <1>13, <1>14, <1>15,
     Steps DEF Elsewhere, Moving

-------------------------------------------------------------------------------
(* The theorems.                                                           *)

(* The invariant holds at the start, and every step keeps it.              *)
LEMMA InitIInv == Init => IInv
<1>. SUFFICES ASSUME Init PROVE IInv
  OBVIOUS
<1>1. /\ got = <<>> /\ to_child = <<>> /\ forward = <<>> /\ held = <<>> /\ tty = <<>>
      /\ signals = <<>> /\ locked \in BOOLEAN
      /\ typed = 0 /\ polled = 0 /\ noticed = 0 /\ guarded = {} /\ left = {}
      /\ pc = "start" /\ ready = {} /\ unread = 0 /\ pty_open = TRUE /\ child = "none" /\ output = 0
  BY DEF Init, G!Init
<1>2. TypeOK
  <2>1. <<>> \in Seq(Key) /\ <<>> \in Seq(Signal) /\ Len(<<>>) = 0
    BY NoPlaces
  <2>2. Len(to_child) <= MAX_PENDING_INPUT /\ Len(signals) <= MaxPipe
    BY <1>1, <2>1, RelayAssumption
  <2>3. unread \in 0..Len(tty)
    BY <1>1, <2>1
  <2>. QED BY <1>1, <2>1, <2>2, <2>3 DEF TypeOK
<1>3. Way(got, to_child, forward, held, tty)
  BY <1>1, NoPlaces DEF Way, Under
<1>4. Past(got, to_child, forward, held) = {} /\ Range(tty) = {} /\ DOMAIN tty = {}
  BY <1>1, NoPlaces DEF Past
<1>5. Keys
  BY <1>1, <1>4, KeyFacts DEF Keys
<1>6. Secret /\ Noticed /\ Ending
  BY <1>1, <1>4 DEF Secret, Noticed, Ending, LastOutput
<1>. QED BY <1>2, <1>3, <1>5, <1>6 DEF IInv

(* Every step keeps the invariant.                                         *)
LEMMA NextIInv == IInv /\ [Next]_vars => IInv'
<1>. SUFFICES ASSUME IInv, [Next]_vars PROVE IInv'
  OBVIOUS
<1>1. /\ TypeOK /\ Keys /\ Way(got, to_child, forward, held, tty) /\ Secret /\ Noticed /\ Ending
  BY DEF IInv
<1>2. KeysType' /\ Keys' /\ Way(got', to_child', forward', held', tty') /\ Secret'
  BY <1>1, NextKeepsKeys
<1>3. LoopType'
  BY <1>1, NextKeepsLoop
<1>4. TypeOK'
  BY <1>2, <1>3 DEF TypeOK, KeysType, LoopType
<1>5. Noticed' /\ Ending'
  BY <1>1, NextKeepsNoticed, NextKeepsEnding
<1>. QED BY <1>2, <1>4, <1>5 DEF IInv

(* Every reachable state has it.                                           *)
LEMMA AlwaysIInv == Spec => []IInv
BY InitIInv, NextIInv, PTL DEF Spec

(* Every variable of the loop keeps its type; the input that waits for the *)
(* command and the signal pipe keep within their limits (relay.rs:218-236, *)
(* 418-436).                                                               *)
THEOREM RelayTypeOK == Spec => []TypeOK
<1>1. IInv => TypeOK
  BY DEF IInv
<1>. QED BY <1>1, AlwaysIInv, PTL

(* No key that was typed under the lock reaches the command, or waits on   *)
(* its way to it, unless a read had to leave it when a client unlocked:    *)
(* whatever the limits of the queue and of a read, however many keys are   *)
(* typed and clients ask (relay.rs:154-172, 190-236).                      *)
THEOREM RelayNothingLeaks == Spec => []NothingLeaks
<1>1. IInv => NothingLeaks
  <2>. SUFFICES ASSUME IInv PROVE NothingLeaks
    OBVIOUS
  <2>1. Range(got \o to_child \o forward \o held) = Past(got, to_child, forward, held)
    BY Typed, WayInOrder DEF IInv
  <2>. QED BY <2>1 DEF IInv, Secret, NothingLeaks
<1>. QED BY <1>1, AlwaysIInv, PTL

(* The keys keep their order and arrive at most once, through every        *)
(* partial write, timeout, overflow and switch of the lock                 *)
(* (relay.rs:199-236).                                                     *)
THEOREM RelayInOrder == Spec => []InOrder
<1>1. IInv => InOrder
  <2>. SUFFICES ASSUME IInv PROVE InOrder
    OBVIOUS
  <2>1. Sorted(got \o to_child \o forward \o held \o tty)
    BY Typed, WayInOrder DEF IInv
  <2>. QED BY <2>1 DEF Sorted, InOrder
<1>. QED BY <1>1, AlwaysIInv, PTL

(* When the session ends in time, everything the command wrote has been    *)
(* read, unless it opened its terminal again after the loop had found it   *)
(* closed (relay.rs:121-125, 255, 262-268).                                *)
THEOREM RelayLastOutput == Spec => []LastOutput
<1>1. IInv => LastOutput
  BY DEF IInv, Ending
<1>. QED BY <1>1, AlwaysIInv, PTL

(* Signals are passed on only while the command has not been waited for    *)
(* (relay.rs:289-316).                                                     *)
THEOREM RelayKillsOwnChild == Spec => KillsOwnChild
<1>1. IInv => (pc = "signals" => child # "reaped")
  BY DEF IInv, Ending
<1>. QED BY <1>1, AlwaysIInv, PTL DEF KillsOwnChild
===============================================================================
