----------------------------- MODULE SessionsProofs -----------------------------
(***************************************************************************)
(* Theorems about Sessions, for every number of sessions and clients and   *)
(* every set of names, options and sockets found in the directory.         *)
(***************************************************************************)
EXTENDS Sessions, SequenceTheorems, WellFoundedInduction, TLAPS

(* A sequence ranges over the set of its elements.                         *)
LEMMA RangeIn ==
  ASSUME NEW S, NEW n \in Seq(S)
  PROVE  Range(n) \subseteq S
<1>1. DOMAIN n = 1..Len(n)
  BY LenProperties
<1>2. \A i \in 1..Len(n) : n[i] \in S
  BY ElementOfSeq
<1>. QED BY <1>1, <1>2 DEF Range

(* A sequence, possibly with one more element.                             *)
LEMMA MaybeAppended ==
  ASSUME NEW S, NEW seq \in Seq(S), NEW e \in S, NEW more, more = seq \/ more = Append(seq, e)
  PROVE  /\ Len(seq) \in Nat
         /\ Len(more) \in {Len(seq), Len(seq) + 1}
         /\ \A j \in 1..Len(seq) : more[j] = seq[j]
         /\ \A j \in 1..Len(more) : j \notin 1..Len(seq) => more[j] = e
<1>1. CASE more = seq
  BY <1>1
<1>2. CASE more = Append(seq, e)
  <2>1. /\ Len(more) = Len(seq) + 1
        /\ \A j \in 1..Len(seq) : more[j] = seq[j]
        /\ more[Len(seq) + 1] = e
    BY <1>2, AppendProperties
  <2>2. Len(seq) \in Nat
    OBVIOUS
  <2>3. \A j \in 1..Len(more) : j \notin 1..Len(seq) => j = Len(seq) + 1
    BY <2>1, <2>2
  <2>. QED BY <2>1, <2>2, <2>3
<1>. QED BY <1>1, <1>2

(* A sequence with one element replaced.                                   *)
LEMMA OneReplaced ==
  ASSUME NEW S, NEW seq \in Seq(S), NEW k \in 1..Len(seq), NEW e \in S,
         NEW written, written = [seq EXCEPT ![k] = e]
  PROVE  /\ written \in Seq(S)
         /\ Len(written) = Len(seq)
         /\ \A j \in 1..Len(seq) : j # k => written[j] = seq[j]
         /\ written[k] = e
<1>1. DOMAIN seq = 1..Len(seq) /\ Len(seq) \in Nat
  BY LenProperties
<1>. QED BY <1>1, ExceptSeq

(* Min of a set of indices is the least of them.                           *)
LEMMA MinFacts ==
  ASSUME NEW I, I \subseteq Nat, I # {}
  PROVE  Min(I) \in I /\ \A i \in I : Min(I) <= i
<1>. DEFINE less == {ss \in Nat \X Nat : ss[1] < ss[2]}
<1>1. IsWellFoundedOn(less, Nat)
  BY NatLessThanWellFounded DEF OpToRel
<1>2. \E i \in I : \A j \in I : ~(<<j, i>> \in less)
  <2>. HIDE DEF less
  <2>. QED BY <1>1, WFMin, Zenon
<1>3. \E i \in I : \A j \in I : ~(j < i)
  <2>1. \A i, j \in Nat : j < i => <<j, i>> \in less
    OBVIOUS
  <2>. QED BY <1>2, <2>1, Zenon
<1>4. \E i \in I : \A j \in I : i <= j
  BY <1>3
<1>. QED BY <1>4 DEF Min

(* The constants, as the proofs use them.                                  *)
LEMMA LengthFacts == MAX_NAME \in Nat /\ MAX_NAME >= 4
BY SessionsAssumption, Zenon

(* Plain characters, '_' and '-' may stand in a name.                      *)
LEMMA CharFacts == Plain \subseteq NameChars /\ "_" \in NameChars /\ "-" \in NameChars
BY SessionsAssumption, Zenon DEF NameChars

(* What the command line may hand to the session is a text or nothing.     *)
LEMMA OptionFacts == \A opt \in Options : opt.given \in BOOLEAN /\ opt.text \in Seq(STRING)
<1>1. Options \subseteq [given : BOOLEAN, text : Seq(STRING)]
  BY SessionsAssumption, Zenon
<1>. QED BY <1>1

(* A request has a name and one of the four lines.                         *)
LEMMA RequestFacts ==
  \A r \in Requests : r.name \in Seq(STRING) /\ r.line \in {"lock", "unlock", "status", "ls"}
<1>1. Requests \subseteq [name : Seq(STRING), line : {"lock", "unlock", "status", "ls"}]
  BY SessionsAssumption, Zenon
<1>. QED BY <1>1

(* The room for a name is between nothing and MAX_NAME.                    *)
LEMMA RoomFacts == \A space \in Spaces : name_room(space) \in 0..MAX_NAME
<1>. SUFFICES ASSUME NEW space \in Spaces PROVE name_room(space) \in 0..MAX_NAME
  OBVIOUS
<1>. DEFINE cut == IF space > 0 THEN space ELSE 0
<1>1. Spaces \subseteq Int
  BY SessionsAssumption, Zenon
<1>2. cut \in Nat
  BY <1>1
<1>. HIDE DEF cut
<1>3. Min({cut, MAX_NAME}) \in {cut, MAX_NAME} /\ Min({cut, MAX_NAME}) <= MAX_NAME
  BY <1>2, LengthFacts, MinFacts
<1>4. name_room(space) = Min({cut, MAX_NAME})
  BY DEF name_room, cut
<1>. QED BY <1>2, <1>3, <1>4, LengthFacts

(* The files there from the start: well typed, the foreign ones without a  *)
(* session's name.                                                         *)
LEMMA SocketFacts ==
  /\ Leftover \subseteq Seq(NameChars) /\ Foreign \subseteq Seq(NameChars)
  /\ \A n \in Foreign : ~valid_name(n)
BY DirectoryAssumption, Zenon

(* Sessions, clients and the owners that are no process are distinct.      *)
LEMMA ProcessFacts ==
  /\ Session \cap Client = {}
  /\ DEAD \notin Session /\ FOREIGN \notin Session /\ NONE \notin Session
  /\ DEAD # FOREIGN
<1>1. /\ Session \cap Client = {}
      /\ DEAD \notin Session /\ FOREIGN \notin Session /\ NONE \notin Session
  BY DirectoryAssumption, Zenon
<1>2. DEAD # FOREIGN
  BY DEF DEAD, FOREIGN
<1>. QED BY <1>1, <1>2

(* There are nine further attempts, each with a digit for its name.        *)
LEMMA DigitFacts == MAX_ATTEMPT = 9 /\ \A k \in 1..MAX_ATTEMPT : Digit[k] \in NameChars
<1>1. /\ "1" \in NameChars /\ "2" \in NameChars /\ "3" \in NameChars
      /\ "4" \in NameChars /\ "5" \in NameChars /\ "6" \in NameChars
      /\ "7" \in NameChars /\ "8" \in NameChars /\ "9" \in NameChars
  BY SessionsAssumption, Zenon DEF NameChars
<1>2. Digit \in Seq(NameChars) /\ Len(Digit) = 9
  BY <1>1 DEF Digit
<1>3. MAX_ATTEMPT = 9
  BY <1>2 DEF MAX_ATTEMPT
<1>4. \A k \in 1..9 : Digit[k] \in NameChars
  BY <1>2, ElementOfSeq
<1>. QED BY <1>3, <1>4

(* The default name is a valid name.                                       *)
LEMMA DefaultFacts == Default \in Seq(NameChars) /\ valid_name(Default)
<1>1. Default \in Seq(Plain) /\ Len(Default) \in 1..MAX_NAME /\ "." \notin Plain
  BY SessionsAssumption, Zenon
<1>2. Default \in Seq(NameChars)
  BY <1>1, CharFacts, SeqMonotonic
<1>3. Default # <<>> /\ Len(Default) <= MAX_NAME
  BY <1>1, LengthFacts, EmptySeq
<1>4. Head(Default) \in Plain
  BY <1>1, <1>3, HeadTailProperties
<1>5. Range(Default) \subseteq NameChars
  BY <1>2, RangeIn
<1>. QED BY <1>1, <1>2, <1>3, <1>4, <1>5 DEF valid_name

(* The characters of a valid name.                                         *)
LEMMA ValidChars ==
  ASSUME NEW S, NEW n \in Seq(S), valid_name(n)
  PROVE  n \in Seq(NameChars)
<1>1. \A i \in 1..Len(n) : n[i] \in NameChars
  BY DEF valid_name, Range
<1>. QED BY <1>1

(* A front of a name, and of a valid name.                                 *)
LEMMA TruncateFacts ==
  ASSUME NEW n \in Seq(NameChars), NEW max \in Nat
  PROVE  /\ truncate(n, max) \in Seq(NameChars)
         /\ Len(truncate(n, max)) <= max
         /\ Len(truncate(n, max)) <= Len(n)
         /\ max > 0 /\ n # <<>> => truncate(n, max) # <<>> /\ Head(truncate(n, max)) = Head(n)
<1>. DEFINE last == Min({max, Len(n)})
<1>1. Len(n) \in Nat
  OBVIOUS
<1>2. last \in {max, Len(n)} /\ last <= max /\ last <= Len(n)
  BY <1>1, MinFacts
<1>3. truncate(n, max) = SubSeq(n, 1, last)
  BY DEF truncate
<1>. HIDE DEF last
<1>. QED BY <1>1, <1>2, <1>3

(* What is left of a name without its leading dots.                        *)
LEMMA TrimFacts ==
  ASSUME NEW n \in Seq(NameChars)
  PROVE  /\ trim_dots(n) \in Seq(NameChars)
         /\ trim_dots(n) # <<>> => Head(trim_dots(n)) # "."
<1>. DEFINE I == {i \in 1..Len(n) : n[i] # "."}
            first == IF I # {} THEN Min(I) ELSE 0
<1>1. Len(n) \in Nat /\ <<>> \in Seq(NameChars)
  BY EmptySeq
<1>2. CASE I = {}
  <2>1. trim_dots(n) = <<>>
    BY <1>2 DEF trim_dots, SelectInSeq
  <2>. QED BY <1>1, <2>1
<1>3. CASE I # {}
  <2>1. I \subseteq Nat
    BY <1>1
  <2>2. Min(I) \in I
    BY <1>3, <2>1, MinFacts, Zenon
  <2>3. Min(I) \in 1..Len(n) /\ n[Min(I)] # "."
    BY <2>2
  <2>4. trim_dots(n) = IF Min(I) = 0 THEN <<>> ELSE SubSeq(n, Min(I), Len(n))
    BY <1>3, Zenon DEF trim_dots, SelectInSeq
  <2>. HIDE DEF I
  <2>. QED BY <1>1, <2>3, <2>4
<1>. QED BY <1>2, <1>3

(* The file name of any command makes a valid name.                        *)
LEMMA DefaultNameValid ==
  ASSUME NEW command \in Seq(STRING)
  PROVE  default_name(command) \in Seq(NameChars) /\ valid_name(default_name(command))
<1>. DEFINE clean == [i \in DOMAIN command |->
                        IF command[i] \in NameChars THEN command[i] ELSE "_"]
            short == truncate(trim_dots(clean), MAX_NAME - 4)
<1>1. clean \in Seq(NameChars)
  <2>1. DOMAIN command = 1..Len(command) /\ Len(command) \in Nat
    BY LenProperties
  <2>2. clean \in [1..Len(command) -> NameChars]
    BY <2>1, CharFacts, Zenon
  <2>. HIDE DEF clean
  <2>. QED BY <2>1, <2>2
<1>2. default_name(command) = IF short = <<>> THEN Default ELSE short
  BY DEF default_name
<1>. HIDE DEF clean
<1>3. MAX_NAME - 4 \in Nat /\ MAX_NAME - 4 <= MAX_NAME
  BY LengthFacts
<1>4. /\ trim_dots(clean) \in Seq(NameChars)
      /\ trim_dots(clean) # <<>> => Head(trim_dots(clean)) # "."
  BY <1>1, TrimFacts
<1>5. /\ short \in Seq(NameChars)
      /\ Len(short) <= MAX_NAME - 4 /\ Len(short) <= Len(trim_dots(clean))
      /\ MAX_NAME - 4 > 0 /\ trim_dots(clean) # <<>> => Head(short) = Head(trim_dots(clean))
  BY <1>3, <1>4, TruncateFacts
<1>. HIDE DEF short
<1>6. ASSUME short # <<>>  PROVE valid_name(short)
  <2>1. Len(short) \in Nat \ {0} /\ Len(short) <= MAX_NAME
    BY <1>3, <1>5, <1>6, EmptySeq, LengthFacts
  <2>2. trim_dots(clean) # <<>> /\ MAX_NAME - 4 > 0
    BY <1>3, <1>4, <1>5, <2>1, EmptySeq
  <2>3. Head(short) # "."
    BY <1>4, <1>5, <2>2
  <2>4. Range(short) \subseteq NameChars
    BY <1>5, RangeIn
  <2>. QED BY <1>6, <2>1, <2>3, <2>4 DEF valid_name
<1>. QED BY <1>2, <1>5, <1>6, DefaultFacts

(* So a session is always started with a valid name.                       *)
LEMMA BaseValid ==
  ASSUME NEW opt \in Options, ~(opt.given /\ ~valid_name(opt.text))
  PROVE  base_of(opt) \in Seq(NameChars) /\ valid_name(base_of(opt))
<1>1. opt.text \in Seq(STRING)
  BY OptionFacts
<1>. QED BY <1>1, ValidChars, DefaultNameValid DEF base_of

(* And so is the name of each of its attempts, which fits the socket path. *)
LEMMA NameOfValid ==
  ASSUME NEW s \in Session, base[s] \in Seq(NameChars), valid_name(base[s]),
         attempt[s] \in 1..MAX_ATTEMPT, room \in 0..MAX_NAME, keep(attempt[s]) > 0
  PROVE  /\ name_of(s) \in Seq(NameChars)
         /\ valid_name(name_of(s))
         /\ name_of(s) # <<>>
         /\ Len(name_of(s)) <= room
<1>. DEFINE k == attempt[s]
            front == truncate(base[s], keep(k))
<1>1. /\ suffix(k) \in Seq(NameChars) /\ Len(suffix(k)) \in {0, 2}
  <2>1. Digit[k] \in NameChars /\ "-" \in NameChars
    BY CharFacts, DigitFacts
  <2>. QED BY <2>1, EmptySeq DEF suffix
<1>2. keep(k) \in Nat /\ keep(k) = room - Len(suffix(k)) /\ room \in Nat /\ room <= MAX_NAME
  BY <1>1, LengthFacts DEF keep
<1>3. base[s] # <<>> /\ Head(base[s]) # "."
  BY DEF valid_name
<1>4. /\ front \in Seq(NameChars) /\ front # <<>> /\ Len(front) <= keep(k)
      /\ Head(front) = Head(base[s])
  BY <1>2, <1>3, TruncateFacts
<1>5. name_of(s) = front \o suffix(k)
  BY DEF name_of
<1>. HIDE DEF front, k
<1>6. /\ name_of(s) \in Seq(NameChars)
      /\ Len(name_of(s)) = Len(front) + Len(suffix(k))
      /\ Len(front) \in Nat \ {0}
      /\ name_of(s)[1] = front[1]
  BY <1>1, <1>4, <1>5, EmptySeq, ConcatProperties
<1>7. Len(name_of(s)) <= room /\ Len(name_of(s)) <= MAX_NAME /\ name_of(s) # <<>>
  BY <1>1, <1>2, <1>4, <1>6, LengthFacts, EmptySeq
<1>8. Head(name_of(s)) # "."
  BY <1>3, <1>4, <1>6, <1>7, HeadTailProperties
<1>9. Range(name_of(s)) \subseteq NameChars
  BY <1>6, RangeIn
<1>. QED BY <1>6, <1>7, <1>8, <1>9 DEF valid_name

-------------------------------------------------------------------------------
(* The stages of a session that listens, and of one that has a name.       *)
Serving == {"chmod", "up", "closing", "closed"}
Bound   == {"bound", "chmod", "up", "closing"}
Named   == {"probe", "remove", "bind", "bound", "in_use", "gone"} \cup Serving
Stages  == Failed \cup Named \cup {"idle", "begin", "ended"}
Steps   == {"ask", "connected", "waiting", "readdir", "next", "purge", "done"}

Line  == {"", "lock", "unlock", "status"}
Entry == [from : Session \cup Client, line : Line]

(* The types that TypeOK leaves open.                                      *)
Shape ==
  /\ pc \in [Session \cup Client -> Stages \cup Steps]
  /\ base \in [Session -> Seq(NameChars)]
  /\ attempt \in [Session -> 1..MAX_ATTEMPT + 1]
  /\ name \in [Session -> Seq(NameChars)]
  /\ backlog \in [Session -> Seq(Entry)]
  /\ request \in [Client -> Requests]
  /\ target \in [Client -> Seq(STRING \cup NameChars)]
  /\ conn \in [Client -> Session \cup {NONE}]
  /\ reply \in [Client -> {"", "locked", "unlocked"}]
  /\ todo \in [Client -> SUBSET Seq(NameChars)]
  /\ stale \in [Client -> SUBSET (Seq(NameChars) \X (Session \cup {DEAD}))]

(* A session has a name from its first attempt to its end.                 *)
NamesGiven ==
  \A s \in Session :
    /\ pc[s] \in {"begin", "probe"} => valid_name(base[s])
    /\ pc[s] \in Named => name[s] # <<>>

(* A socket's file names the session that made it, as long as that one     *)
(* runs.                                                                   *)
Owners ==
  /\ FOREIGN \in listening
  /\ \A s \in Session : s \in listening <=> pc[s] \in Serving
  /\ \A n \in DOMAIN file :
       /\ file[n] = FOREIGN => ~valid_name(n)
       /\ file[n] \in Session =>
            \/ pc[file[n]] = "ended"
            \/ pc[file[n]] \in Bound /\ name[file[n]] = n

(* A client that lists has read the directory, or is about to, and asks    *)
(* for no name twice.                                                      *)
Lists ==
  \A c \in Client :
    /\ pc[c] \in {"readdir", "next", "purge"} => Listing(c)
    /\ Listing(c) => target[c] \notin todo[c] \/ pc[c] \in {"readdir", "next"}
    /\ ~Listing(c) => target[c] = request[c].name
    /\ Listing(c) /\ pc[c] = "done" => todo[c] = {}
    /\ Listing(c) /\ pc[c] = "ask" => valid_name(target[c])
    /\ \A n \in todo[c] : valid_name(n)

(* The client c has asked the session s, and will not again.               *)
Asked(c, s) ==
  IF Listing(c)
  THEN /\ pc[c] # "readdir"
       /\ name[s] \notin todo[c]
       /\ pc[c] = "ask" => target[c] # name[s]
  ELSE pc[c] \in {"connected", "waiting", "done"}

(* The connections that wait: one for each client, and a request is what   *)
(* its client wrote on it.                                                 *)
Connection(s, i) ==
  LET entry == backlog[s][i] IN
  /\ entry.from \in Client =>
       /\ Asked(entry.from, s)
       /\ \A j \in 1..Len(backlog[s]) : backlog[s][j].from = entry.from => j = i
  /\ entry.line # "" =>
       /\ entry.from \in Client
       /\ conn[entry.from] = s => pc[entry.from] = "waiting"

Connections ==
  \A s \in Session :
    /\ backlog[s] # <<>> => s \in listening
    /\ \A i \in 1..Len(backlog[s]) : Connection(s, i)

(* A dead socket that list saw belongs to nobody who could revive it, and  *)
(* while its file is there list has still to ask or to remove it.          *)
Cleaning ==
  \A c \in Client : \A d \in stale[c] :
    /\ Listing(c)
    /\ valid_name(d[1])
    /\ d[2] = DEAD \/ pc[d[2]] = "ended"
    /\ d[1] \in DOMAIN file /\ file[d[1]] = d[2] =>
         d[1] \in todo[c] \/ (pc[c] \in {"ask", "purge"} /\ target[c] = d[1])

IInv == TypeOK /\ Shape /\ NamesGiven /\ Owners /\ Lists /\ Connections /\ Cleaning

Exclusive == \A p, q \in Session \cup Client : Critical(p) /\ Critical(q) => p = q

Undisturbed ==
  /\ Exclusive
  /\ \A s \in Session :
       /\ pc[s] \in Bound => name[s] \in DOMAIN file /\ file[name[s]] = s
       /\ pc[s] = "remove" => ~Live(name[s])
       /\ pc[s] = "bind" => name[s] \notin DOMAIN file
       /\ pc[s] \notin {"in_use", "gone"}
  /\ \A c \in Client : pc[c] = "purge" => ~Live(target[c])

-------------------------------------------------------------------------------
(* Types.                                                                  *)

(* The start is well typed and well shaped.                                *)
LEMMA InitTyped == Init => TypeOK /\ Shape
<1>. SUFFICES ASSUME Init PROVE TypeOK /\ Shape
  OBVIOUS
<1>1. room \in 0..MAX_NAME
  BY RoomFacts DEF Init
<1>2. DOMAIN file \subseteq Seq(NameChars) /\ Range(file) \subseteq {DEAD, FOREIGN}
  <2>1. CASE dir = "absent"
    <3>1. file = <<>>
      BY <2>1, Zenon DEF Init
    <3>2. DOMAIN file = {}
      BY <3>1
    <3>. QED BY <3>2 DEF Range
  <2>2. CASE dir # "absent"
    BY <2>2, SocketFacts DEF Init, Range
  <2>. QED BY <2>1, <2>2
<1>3. /\ base \in [Session -> Seq(NameChars)]
      /\ name \in [Session -> Seq(NameChars)]
      /\ backlog \in [Session -> Seq(Entry)]
  <2>1. <<>> \in Seq(NameChars) /\ <<>> \in Seq(Entry)
    BY EmptySeq
  <2>. QED BY <2>1 DEF Init
<1>4. request \in [Client -> Requests] /\ target \in [Client -> Seq(STRING \cup NameChars)]
  <2>1. \A r \in Requests : r.name \in Seq(STRING \cup NameChars)
    BY RequestFacts, SeqMonotonic
  <2>. QED BY <2>1 DEF Init
<1>5. pc \in [Session \cup Client -> Stages \cup Steps]
  BY DEF Init, Stages, Steps
<1>6. /\ attempt \in [Session -> 1..MAX_ATTEMPT + 1]
      /\ conn \in [Client -> Session \cup {NONE}]
      /\ reply \in [Client -> {"", "locked", "unlocked"}]
      /\ todo \in [Client -> SUBSET Seq(NameChars)]
      /\ stale \in [Client -> SUBSET (Seq(NameChars) \X (Session \cup {DEAD}))]
  <2>1. 1 \in 1..MAX_ATTEMPT + 1
    BY DigitFacts
  <2>. QED BY <2>1, Zenon DEF Init
<1>7. Shape
  BY <1>3, <1>4, <1>5, <1>6 DEF Shape
<1>8. \A s \in Session :
        /\ pc[s] = "idle" /\ name[s] = <<>>
        /\ backlog[s] \in Seq([from : Session \cup Client, line : {"", "lock", "unlock", "status"}])
  BY <1>3 DEF Init, Entry, Line
<1>9. \A c \in Client : pc[c] \in {"ask", "readdir"} /\ conn[c] \notin Session /\ reply[c] = ""
  BY ProcessFacts DEF Init
<1>. QED BY <1>1, <1>2, <1>7, <1>8, <1>9 DEF Init, TypeOK

(* A process goes on to one of its own stages.                             *)
LEMMA GoType ==
  ASSUME Shape
  PROVE  /\ \A s \in Session, where \in Stages :
              Go(s, where) => /\ pc' \in [Session \cup Client -> Stages \cup Steps]
                              /\ pc'[s] = where
                              /\ \A q \in Session \ {s} : pc'[q] = pc[q]
                              /\ \A c \in Client : pc'[c] = pc[c]
         /\ \A c \in Client, where \in Steps :
              Go(c, where) => /\ pc' \in [Session \cup Client -> Stages \cup Steps]
                              /\ pc'[c] = where
                              /\ \A d \in Client \ {c} : pc'[d] = pc[d]
                              /\ \A s \in Session : pc'[s] = pc[s]
<1>1. pc \in [Session \cup Client -> Stages \cup Steps]
  BY DEF Shape
<1>2. ASSUME NEW p \in Session \cup Client, NEW where \in Stages \cup Steps, Go(p, where)
      PROVE  /\ pc' \in [Session \cup Client -> Stages \cup Steps]
             /\ pc'[p] = where
             /\ \A q \in (Session \cup Client) \ {p} : pc'[q] = pc[q]
  BY <1>1, <1>2 DEF Go
<1>3. \A s \in Session, c \in Client : s # c
  BY ProcessFacts
<1>. QED BY <1>2, <1>3

-------------------------------------------------------------------------------
(* What a step of a session leaves to the clients: what they have asked,   *)
(* the files of the dead, and their connections that are not dropped.      *)
LEMMA ListsUndisturbed ==
  ASSUME IInv,
         UNCHANGED <<request, target, answer, todo, stale>>,
         \A c \in Client : pc'[c] = pc[c],
         \A s \in Session : pc[s] = "ended" => pc'[s] = "ended",
         \A n \in DOMAIN file' :
           \/ n \in DOMAIN file /\ file'[n] = file[n]
           \/ file'[n] \in Session /\ pc[file'[n]] # "ended"
  PROVE  /\ \A c \in Client : Listing(c)' = Listing(c)
         /\ Lists' /\ Cleaning'
<1>1. \A c \in Client : Listing(c)' = Listing(c)
  BY DEF Listing
<1>2. Lists'
  BY <1>1 DEF IInv, Lists
<1>3. Cleaning'
  <2>1. SUFFICES ASSUME NEW c \in Client, NEW d \in stale[c]
                 PROVE  /\ Listing(c)
                        /\ valid_name(d[1])
                        /\ d[2] = DEAD \/ pc'[d[2]] = "ended"
                        /\ d[1] \in DOMAIN file' /\ file'[d[1]] = d[2] =>
                             d[1] \in todo[c] \/ (pc[c] \in {"ask", "purge"} /\ target[c] = d[1])
    BY <1>1 DEF Cleaning
  <2>2. /\ Listing(c)
        /\ valid_name(d[1])
        /\ d[2] = DEAD \/ pc[d[2]] = "ended"
        /\ d[1] \in DOMAIN file /\ file[d[1]] = d[2] =>
             d[1] \in todo[c] \/ (pc[c] \in {"ask", "purge"} /\ target[c] = d[1])
    BY DEF IInv, Cleaning
  <2>3. d \in Seq(NameChars) \X (Session \cup {DEAD})
    BY Zenon DEF IInv, Shape
  <2>. QED BY <2>2, <2>3, ProcessFacts
<1>. QED BY <1>1, <1>2, <1>3

(* What a session does to others' clients is at most to take its own from  *)
(* its queue or to close: the clients stay as the invariant has them.      *)
LEMMA ClientsUndisturbed ==
  ASSUME IInv,
         UNCHANGED <<request, target, conn, answer, todo, stale>>,
         \A c \in Client : pc'[c] = pc[c],
         \A s \in Session :
           /\ pc[s] = "ended" => pc'[s] = "ended"
           /\ \/ backlog'[s] = <<>>
              \/ backlog'[s] = backlog[s] /\ s \in listening' /\ name'[s] = name[s]
              \/ backlog'[s] = backlog[s] /\ backlog[s] = <<>>,
         \A n \in DOMAIN file' :
           \/ n \in DOMAIN file /\ file'[n] = file[n]
           \/ file'[n] \in Session /\ pc[file'[n]] # "ended"
  PROVE  Lists' /\ Connections' /\ Cleaning'
<1>1. Lists' /\ Cleaning' /\ \A c \in Client : Listing(c)' = Listing(c)
  BY ListsUndisturbed
<1>2. Connections'
  <2>1. SUFFICES ASSUME NEW s \in Session, backlog'[s] # <<>>
                 PROVE  /\ s \in listening'
                        /\ \A i \in 1..Len(backlog'[s]) : Connection(s, i)'
    BY EmptySeq DEF Connections
  <2>2. backlog'[s] = backlog[s] /\ s \in listening' /\ name'[s] = name[s]
    BY <2>1
  <2>3. \A c \in Client : Asked(c, s) => Asked(c, s)'
    BY <1>1, <2>2 DEF Asked
  <2>4. ASSUME NEW i \in 1..Len(backlog[s]) PROVE Connection(s, i)'
    <3>1. Connection(s, i)
      BY DEF IInv, Connections
    <3>. QED BY <2>2, <2>3, <3>1 DEF Connection
  <2>. QED BY <2>2, <2>4
<1>. QED BY <1>1, <1>2

(* The directory's type, told by file: of this state and of the next.      *)
LEMMA FileType ==
  /\ TypeOK => \A n \in DOMAIN file : n \in Seq(NameChars) /\ file[n] \in Session \cup {DEAD, FOREIGN}
  /\ (\A n \in DOMAIN file' : n \in Seq(NameChars) /\ file'[n] \in Session \cup {DEAD, FOREIGN})
       => /\ DOMAIN file' \subseteq Seq(NameChars)
          /\ Range(file') \subseteq Session \cup {DEAD, FOREIGN}
BY Zenon DEF TypeOK, Range

(* One lemma per action: a session asks for its name and room.             *)
LEMMA RunKeeps ==
  ASSUME IInv, NEW s \in Session, Run(s)
  PROVE  IInv'
<1>. USE DEF socketvars, fixed, clientvars, history
<1>1. /\ pc[s] = "idle"
      /\ pc' \in [Session \cup Client -> Stages \cup Steps]
      /\ pc'[s] \in {"usage", "begin"}
      /\ \A q \in Session \ {s} : pc'[q] = pc[q]
      /\ \A c \in Client : pc'[c] = pc[c]
  BY GoType DEF IInv, Run, Stages, Failed
<1>2. /\ dir' \in {"absent", "private", "refused"}
      /\ base' \in [Session -> Seq(NameChars)]
      /\ \A q \in Session \ {s} : base'[q] = base[q]
      /\ pc'[s] = "begin" => valid_name(base'[s])
  <2>1. base \in [Session -> Seq(NameChars)] /\ dir \in {"absent", "private", "refused"}
    BY DEF IInv, TypeOK, Shape
  <2>2. PICK opt \in Options :
          IF opt.given /\ ~valid_name(opt.text)
          THEN Go(s, "usage") /\ UNCHANGED <<dir, base>>
          ELSE /\ dir' = ensure_dir(dir)
               /\ Go(s, IF dir = "refused" THEN "usage" ELSE "begin")
               /\ base' = [base EXCEPT ![s] = base_of(opt)]
    BY DEF Run
  <2>3. CASE opt.given /\ ~valid_name(opt.text)
    <3>1. pc'[s] = "usage"
      BY <2>2, <2>3, GoType DEF IInv, Stages, Failed
    <3>. QED BY <2>1, <2>2, <2>3, <3>1
  <2>4. CASE ~(opt.given /\ ~valid_name(opt.text))
    <3>1. base_of(opt) \in Seq(NameChars) /\ valid_name(base_of(opt))
      BY <2>4, BaseValid
    <3>. QED BY <2>1, <2>2, <2>4, <3>1 DEF ensure_dir
  <2>. QED BY <2>3, <2>4
<1>3. UNCHANGED <<file, listening, room, request, attempt, name, lock, backlog, target, conn,
                  reply, answer, todo, stale, performed>>
  BY DEF Run
<1>4. Shape'
  BY <1>1, <1>2, <1>3 DEF IInv, Shape
<1>5. TypeOK'
  BY <1>1, <1>2, <1>3 DEF IInv, TypeOK, Failed
<1>6. NamesGiven'
  BY <1>1, <1>2, <1>3 DEF IInv, NamesGiven, Named, Serving
<1>7. Owners'
  BY <1>1, <1>3 DEF IInv, Owners, Bound, Serving
<1>8. Lists' /\ Connections' /\ Cleaning'
  BY <1>1, <1>3, ClientsUndisturbed DEF IInv, Connections
<1>. QED BY <1>4, <1>5, <1>6, <1>7, <1>8 DEF IInv

(* It tries the next name.                                                 *)
LEMMA AttemptKeeps ==
  ASSUME IInv, NEW s \in Session, Attempt(s)
  PROVE  IInv'
<1>1. /\ pc[s] = "begin"
      /\ pc' \in [Session \cup Client -> Stages \cup Steps]
      /\ pc'[s] \in {"no_room", "probe", "bind"}
      /\ \A q \in Session \ {s} : pc'[q] = pc[q]
      /\ \A c \in Client : pc'[c] = pc[c]
  BY GoType DEF IInv, Attempt, Stages, Failed, Named
<1>2. UNCHANGED <<dir, file, listening, room, request, base, lock, backlog, target, conn,
                  reply, answer, todo, stale, performed>>
  BY DEF Attempt, socketvars, given, fixed, clientvars, history
<1>3. attempt' \in [Session -> 1..MAX_ATTEMPT + 1]
  <2>1. /\ attempt \in [Session -> 1..MAX_ATTEMPT + 1] /\ attempt[s] <= MAX_ATTEMPT
        /\ attempt' = [attempt EXCEPT ![s] = attempt[s] + 1]
    BY DEF IInv, Shape, Attempt, next_attempt
  <2>2. attempt[s] + 1 \in 1..MAX_ATTEMPT + 1
    BY <2>1, DigitFacts
  <2>. QED BY <2>1, <2>2
<1>4. /\ name' \in [Session -> Seq(NameChars)]
      /\ \A q \in Session \ {s} : name'[q] = name[q]
      /\ \/ pc'[s] = "no_room" /\ name'[s] = name[s]
         \/ name'[s] # <<>> /\ valid_name(name'[s]) /\ Len(name'[s]) <= room
  <2>1. name \in [Session -> Seq(NameChars)]
    BY DEF IInv, Shape
  <2>2. CASE keep(attempt[s]) <= 0 /\ Go(s, "no_room") /\ UNCHANGED name
    <3>1. pc'[s] = "no_room"
      BY <2>2, GoType DEF IInv, Stages, Failed
    <3>. QED BY <2>1, <2>2, <3>1
  <2>3. CASE keep(attempt[s]) > 0 /\ name' = [name EXCEPT ![s] = name_of(s)]
    <3>1. base[s] \in Seq(NameChars) /\ valid_name(base[s]) /\ room \in 0..MAX_NAME
      BY <1>1 DEF IInv, TypeOK, Shape, NamesGiven
    <3>2. attempt[s] \in 1..MAX_ATTEMPT
      <4>1. attempt[s] \in 1..MAX_ATTEMPT + 1 /\ attempt[s] <= MAX_ATTEMPT
        BY DEF IInv, Shape, Attempt
      <4>. QED BY <4>1, DigitFacts
    <3>3. /\ name_of(s) \in Seq(NameChars) /\ valid_name(name_of(s))
          /\ name_of(s) # <<>> /\ Len(name_of(s)) <= room
      BY <2>3, <3>1, <3>2, NameOfValid
    <3>. QED BY <2>1, <2>3, <3>3
  <2>. QED BY <2>2, <2>3 DEF Attempt
<1>5. s \notin listening /\ backlog[s] = <<>>
  BY <1>1 DEF IInv, Owners, Serving, Connections
<1>6. Shape'
  BY <1>1, <1>2, <1>3, <1>4 DEF IInv, Shape
<1>7. TypeOK'
  BY <1>1, <1>2, <1>4 DEF IInv, TypeOK, Failed
<1>8. NamesGiven'
  BY <1>1, <1>2, <1>4 DEF IInv, NamesGiven, Named, Serving
<1>9. Owners'
  <2>1. \A n \in DOMAIN file : file[n] # s
    BY <1>1 DEF IInv, Owners, Bound
  <2>. QED BY <1>1, <1>2, <1>4, <2>1 DEF IInv, Owners, Bound, Serving
<1>10. Lists' /\ Connections' /\ Cleaning'
  BY <1>1, <1>2, <1>4, <1>5, ClientsUndisturbed DEF IInv, Connections
<1>. QED BY <1>6, <1>7, <1>8, <1>9, <1>10 DEF IInv

(* It removes the dead session's file.                                     *)
LEMMA RemoveKeeps ==
  ASSUME IInv, NEW s \in Session, RemoveStale(s)
  PROVE  IInv'
<1>1. /\ pc[s] = "remove"
      /\ pc' \in [Session \cup Client -> Stages \cup Steps]
      /\ pc'[s] = "bind"
      /\ \A q \in Session \ {s} : pc'[q] = pc[q]
      /\ \A c \in Client : pc'[c] = pc[c]
  BY GoType DEF IInv, RemoveStale, Stages, Named
<1>2. UNCHANGED <<dir, listening, room, request, base, attempt, name, lock, backlog, target,
                  conn, reply, answer, todo, stale, performed>>
  BY DEF RemoveStale, given, fixed, sessionvars, clientvars, history
<1>3. DOMAIN file' \subseteq DOMAIN file /\ \A n \in DOMAIN file' : file'[n] = file[n]
  BY DEF RemoveStale, Without
<1>4. Shape'
  BY <1>1, <1>2 DEF IInv, Shape
<1>5. TypeOK'
  <2>1. DOMAIN file' \subseteq Seq(NameChars) /\ Range(file') \subseteq Session \cup {DEAD, FOREIGN}
    BY <1>3, FileType DEF IInv
  <2>. QED BY <1>1, <1>2, <2>1 DEF IInv, TypeOK, Failed
<1>6. NamesGiven'
  BY <1>1, <1>2 DEF IInv, NamesGiven, Named, Serving
<1>7. Owners'
  BY <1>1, <1>2, <1>3 DEF IInv, Owners, Bound, Serving
<1>8. Lists' /\ Connections' /\ Cleaning'
  BY <1>1, <1>2, <1>3, ClientsUndisturbed DEF IInv, Connections
<1>. QED BY <1>4, <1>5, <1>6, <1>7, <1>8 DEF IInv

(* It binds.                                                               *)
LEMMA BindKeeps ==
  ASSUME IInv, NEW s \in Session, Bind(s)
  PROVE  IInv'
<1>1. /\ pc[s] = "bind"
      /\ pc' \in [Session \cup Client -> Stages \cup Steps]
      /\ pc'[s] \in {"in_use", "bound"}
      /\ \A q \in Session \ {s} : pc'[q] = pc[q]
      /\ \A c \in Client : pc'[c] = pc[c]
  BY GoType DEF IInv, Bind, Stages, Named
<1>2. UNCHANGED <<dir, listening, room, request, base, attempt, name, lock, backlog, target,
                  conn, reply, answer, todo, stale, performed>>
  BY DEF Bind, given, fixed, sessionvars, clientvars, history
<1>3. /\ DOMAIN file' \subseteq DOMAIN file \cup {name[s]}
      /\ \A n \in DOMAIN file' :
           \/ n \in DOMAIN file /\ file'[n] = file[n]
           \/ n = name[s] /\ file'[n] = s /\ pc'[s] = "bound"
  <2>1. CASE UNCHANGED file
    BY <2>1
  <2>2. CASE name[s] \notin DOMAIN file /\ Go(s, "bound") /\ file' = With(name[s], s)
    <3>1. pc'[s] = "bound"
      BY <2>2, GoType DEF IInv, Stages, Named
    <3>. QED BY <2>2, <3>1 DEF With
  <2>. QED BY <2>1, <2>2 DEF Bind
<1>4. name[s] \in Seq(NameChars)
  BY DEF IInv, Shape
<1>5. Shape'
  BY <1>1, <1>2 DEF IInv, Shape
<1>6. TypeOK'
  <2>1. DOMAIN file' \subseteq Seq(NameChars) /\ Range(file') \subseteq Session \cup {DEAD, FOREIGN}
    BY <1>3, <1>4, FileType DEF IInv
  <2>. QED BY <1>1, <1>2, <2>1 DEF IInv, TypeOK, Failed
<1>7. NamesGiven'
  BY <1>1, <1>2 DEF IInv, NamesGiven, Named, Serving
<1>8. Owners'
  BY <1>1, <1>2, <1>3, ProcessFacts DEF IInv, Owners, Bound, Serving
<1>9. Lists' /\ Connections' /\ Cleaning'
  BY <1>1, <1>2, <1>3, ClientsUndisturbed DEF IInv, Connections
<1>. QED BY <1>5, <1>6, <1>7, <1>8, <1>9 DEF IInv

(* It listens.                                                             *)
LEMMA ListenKeeps ==
  ASSUME IInv, NEW s \in Session, Listen(s)
  PROVE  IInv'
<1>1. /\ pc[s] = "bound"
      /\ pc' \in [Session \cup Client -> Stages \cup Steps]
      /\ pc'[s] = "chmod"
      /\ \A q \in Session \ {s} : pc'[q] = pc[q]
      /\ \A c \in Client : pc'[c] = pc[c]
  BY GoType DEF IInv, Listen, Stages, Named, Serving
<1>2. UNCHANGED <<dir, file, room, request, base, attempt, name, lock, backlog, target,
                  conn, reply, answer, todo, stale, performed>>
  BY DEF Listen, given, fixed, sessionvars, clientvars, history
<1>3. listening' = listening \cup {s}
  BY DEF Listen
<1>4. Shape'
  BY <1>1, <1>2 DEF IInv, Shape
<1>5. TypeOK'
  BY <1>1, <1>2, <1>3 DEF IInv, TypeOK, Failed
<1>6. NamesGiven'
  BY <1>1, <1>2 DEF IInv, NamesGiven, Named, Serving
<1>7. Owners'
  BY <1>1, <1>2, <1>3, ProcessFacts DEF IInv, Owners, Bound, Serving
<1>8. Lists' /\ Connections' /\ Cleaning'
  BY <1>1, <1>2, <1>3, ClientsUndisturbed DEF IInv, Connections
<1>. QED BY <1>4, <1>5, <1>6, <1>7, <1>8 DEF IInv

(* It restricts the socket's mode.                                         *)
LEMMA ChmodKeeps ==
  ASSUME IInv, NEW s \in Session, Chmod(s)
  PROVE  IInv'
<1>1. /\ pc[s] = "chmod"
      /\ pc' \in [Session \cup Client -> Stages \cup Steps]
      /\ pc'[s] \in {"up", "gone"}
      /\ \A q \in Session \ {s} : pc'[q] = pc[q]
      /\ \A c \in Client : pc'[c] = pc[c]
  BY GoType DEF IInv, Chmod, Stages, Named, Serving
<1>2. UNCHANGED <<dir, file, room, request, base, attempt, name, lock, target,
                  conn, reply, answer, todo, stale, performed>>
  BY DEF Chmod, given, fixed, sessionvars, clientvars, history
<1>3. \/ pc'[s] = "up" /\ UNCHANGED <<listening, backlog>>
      \/ /\ pc'[s] = "gone" /\ name[s] \notin DOMAIN file
         /\ listening' = listening \ {s} /\ backlog' = [backlog EXCEPT ![s] = <<>>]
  BY GoType DEF IInv, Chmod, Stages, Named, Serving
<1>4. /\ backlog' \in [Session -> Seq(Entry)]
      /\ backlog'[s] = <<>> \/ (pc'[s] = "up" /\ UNCHANGED backlog)
      /\ \A q \in Session \ {s} : backlog'[q] = backlog[q]
  <2>1. backlog \in [Session -> Seq(Entry)] /\ <<>> \in Seq(Entry)
    BY EmptySeq DEF IInv, Shape
  <2>2. CASE pc'[s] = "up" /\ UNCHANGED <<listening, backlog>>
    BY <2>1, <2>2
  <2>3. CASE backlog' = [backlog EXCEPT ![s] = <<>>]
    <3>1. backlog' \in [Session -> Seq(Entry)]
      BY <2>1, <2>3
    <3>2. backlog'[s] = <<>> /\ \A q \in Session \ {s} : backlog'[q] = backlog[q]
      BY <2>1, <2>3
    <3>. QED BY <3>1, <3>2
  <2>. QED BY <1>3, <2>2, <2>3
<1>5. Shape'
  BY <1>1, <1>2, <1>4 DEF IInv, Shape
<1>6. TypeOK'
  BY <1>1, <1>2, <1>3, <1>4 DEF IInv, TypeOK, Failed, Entry, Line
<1>7. NamesGiven'
  BY <1>1, <1>2 DEF IInv, NamesGiven, Named, Serving
<1>8. Owners'
  BY <1>1, <1>2, <1>3, ProcessFacts DEF IInv, Owners, Bound, Serving
<1>9. Lists' /\ Connections' /\ Cleaning'
  BY <1>1, <1>2, <1>3, <1>4, ClientsUndisturbed DEF IInv, Connections
<1>. QED BY <1>5, <1>6, <1>7, <1>8, <1>9 DEF IInv

(* Its user switches the lock.                                             *)
LEMMA SwitchKeeps ==
  ASSUME IInv, NEW s \in Session, Switch(s)
  PROVE  IInv'
<1>1. UNCHANGED <<dir, file, listening, room, pc, request, base, attempt, name, backlog, target,
                  conn, reply, answer, todo, stale, performed>>
  BY DEF Switch, socketvars, given, fixed, sessionvars, clientvars, history
<1>2. lock' \in [Session -> BOOLEAN]
  BY DEF IInv, TypeOK, Switch
<1>3. Shape' /\ TypeOK' /\ NamesGiven' /\ Owners'
  BY <1>1, <1>2 DEF IInv, Shape, TypeOK, NamesGiven, Owners
<1>4. Lists' /\ Connections' /\ Cleaning'
  BY <1>1, ClientsUndisturbed DEF IInv, Connections
<1>. QED BY <1>3, <1>4 DEF IInv

(* Its command ends.                                                       *)
LEMMA LeaveKeeps ==
  ASSUME IInv, NEW s \in Session, Leave(s)
  PROVE  IInv'
<1>1. /\ pc[s] = "up"
      /\ pc' \in [Session \cup Client -> Stages \cup Steps]
      /\ pc'[s] = "closing"
      /\ \A q \in Session \ {s} : pc'[q] = pc[q]
      /\ \A c \in Client : pc'[c] = pc[c]
  BY GoType DEF IInv, Leave, Stages, Named, Serving
<1>2. UNCHANGED <<dir, file, listening, room, request, base, attempt, name, lock, backlog, target,
                  conn, reply, answer, todo, stale, performed>>
  BY DEF Leave, socketvars, given, fixed, sessionvars, clientvars, history
<1>3. Shape'
  BY <1>1, <1>2 DEF IInv, Shape
<1>4. TypeOK'
  BY <1>1, <1>2 DEF IInv, TypeOK, Failed
<1>5. NamesGiven'
  BY <1>1, <1>2 DEF IInv, NamesGiven, Named, Serving
<1>6. Owners'
  BY <1>1, <1>2, ProcessFacts DEF IInv, Owners, Bound, Serving
<1>7. Lists' /\ Connections' /\ Cleaning'
  BY <1>1, <1>2, ClientsUndisturbed DEF IInv, Connections
<1>. QED BY <1>3, <1>4, <1>5, <1>6, <1>7 DEF IInv

(* It removes its file.                                                    *)
LEMMA UnlinkKeeps ==
  ASSUME IInv, NEW s \in Session, Unlink(s)
  PROVE  IInv'
<1>1. /\ pc[s] = "closing"
      /\ pc' \in [Session \cup Client -> Stages \cup Steps]
      /\ pc'[s] = "closed"
      /\ \A q \in Session \ {s} : pc'[q] = pc[q]
      /\ \A c \in Client : pc'[c] = pc[c]
  BY GoType DEF IInv, Unlink, Stages, Named, Serving
<1>2. UNCHANGED <<dir, listening, room, request, base, attempt, name, lock, backlog, target,
                  conn, reply, answer, todo, stale, performed>>
  BY DEF Unlink, given, fixed, sessionvars, clientvars, history
<1>3. /\ DOMAIN file' = DOMAIN file \ {name[s]}
      /\ \A n \in DOMAIN file' : file'[n] = file[n]
  BY DEF Unlink, Without
<1>4. Shape'
  BY <1>1, <1>2 DEF IInv, Shape
<1>5. TypeOK'
  <2>1. DOMAIN file' \subseteq Seq(NameChars) /\ Range(file') \subseteq Session \cup {DEAD, FOREIGN}
    BY <1>3, FileType DEF IInv
  <2>. QED BY <1>1, <1>2, <2>1 DEF IInv, TypeOK, Failed
<1>6. NamesGiven'
  BY <1>1, <1>2 DEF IInv, NamesGiven, Named, Serving
<1>7. Owners'
  BY <1>1, <1>2, <1>3, ProcessFacts DEF IInv, Owners, Bound, Serving
<1>8. Lists' /\ Connections' /\ Cleaning'
  BY <1>1, <1>2, <1>3, ClientsUndisturbed DEF IInv, Connections
<1>. QED BY <1>4, <1>5, <1>6, <1>7, <1>8 DEF IInv

(* It ends, or the kernel ends it.                                         *)
LEMMA CloseKeeps ==
  ASSUME IInv, NEW s \in Session, Close(s)
  PROVE  IInv'
<1>1. /\ pc' \in [Session \cup Client -> Stages \cup Steps]
      /\ pc'[s] = "ended"
      /\ \A q \in Session \ {s} : pc'[q] = pc[q]
      /\ \A c \in Client : pc'[c] = pc[c]
  BY GoType DEF IInv, Close, Stages
<1>2. UNCHANGED <<dir, file, room, request, target, conn, reply, answer, todo, stale, performed>>
  BY DEF Close, given, fixed, clientvars, history
<1>3. /\ base' \in [Session -> Seq(NameChars)]
      /\ name' \in [Session -> Seq(NameChars)]
      /\ backlog' \in [Session -> Seq(Entry)]
      /\ name'[s] = <<>> /\ backlog'[s] = <<>>
      /\ \A q \in Session \ {s} :
           base'[q] = base[q] /\ name'[q] = name[q] /\ backlog'[q] = backlog[q]
  <2>1. <<>> \in Seq(NameChars) /\ <<>> \in Seq(Entry)
    BY EmptySeq
  <2>. QED BY <2>1 DEF IInv, Shape, Close
<1>4. /\ attempt' \in [Session -> 1..MAX_ATTEMPT + 1]
      /\ lock' \in [Session -> BOOLEAN]
      /\ listening' = listening \ {s}
  <2>1. 1 \in 1..MAX_ATTEMPT + 1
    BY DigitFacts
  <2>2. attempt \in [Session -> 1..MAX_ATTEMPT + 1] /\ lock \in [Session -> BOOLEAN]
    BY DEF IInv, TypeOK, Shape
  <2>. QED BY <2>1, <2>2 DEF Close
<1>5. Shape'
  BY <1>1, <1>2, <1>3, <1>4 DEF IInv, Shape
<1>6. TypeOK'
  <2>1. \A q \in Session :
          /\ pc'[q] \in Failed \cup {"idle", "begin", "probe", "remove", "bind", "bound", "chmod",
                                     "up", "closing", "closed", "ended"}
          /\ name'[q] # <<>> => valid_name(name'[q]) /\ Len(name'[q]) <= room
    BY <1>1, <1>3 DEF IInv, TypeOK
  <2>2. \A q \in Session : backlog'[q] \in Seq(Entry)
    BY <1>3
  <2>. QED BY <1>1, <1>2, <1>4, <2>1, <2>2 DEF IInv, TypeOK, Entry, Line
<1>7. NamesGiven'
  BY <1>1, <1>3 DEF IInv, NamesGiven, Named, Serving
<1>8. Owners'
  <2>1. FOREIGN \in listening' /\ \A q \in Session : q \in listening' <=> pc'[q] \in Serving
    BY <1>1, <1>4, ProcessFacts DEF IInv, Owners, Serving
  <2>2. ASSUME NEW n \in DOMAIN file'
        PROVE  /\ file'[n] = FOREIGN => ~valid_name(n)
               /\ file'[n] \in Session =>
                    \/ pc'[file'[n]] = "ended"
                    \/ pc'[file'[n]] \in Bound /\ name'[file'[n]] = n
    <3>1. /\ file[n] = FOREIGN => ~valid_name(n)
          /\ file[n] \in Session =>
               pc[file[n]] = "ended" \/ (pc[file[n]] \in Bound /\ name[file[n]] = n)
      BY <1>2 DEF IInv, Owners
    <3>2. CASE file[n] = s
      BY <1>1, <1>2, <3>1, <3>2, ProcessFacts
    <3>3. CASE file[n] # s
      BY <1>1, <1>2, <1>3, <3>1, <3>3
    <3>. QED BY <3>2, <3>3
  <2>. QED BY <2>1, <2>2 DEF Owners
<1>9. Lists' /\ Connections' /\ Cleaning'
  BY <1>1, <1>2, <1>3, <1>4, ClientsUndisturbed DEF IInv, Connections
<1>. QED BY <1>5, <1>6, <1>7, <1>8, <1>9 DEF IInv

(* It asks whether somebody listens on the name.                           *)
LEMMA ProbeKeeps ==
  ASSUME IInv, NEW s \in Session, Probe(s)
  PROVE  IInv'
<1>1. /\ pc[s] = "probe"
      /\ pc' \in [Session \cup Client -> Stages \cup Steps]
      /\ pc'[s] \in {"begin", "remove"}
      /\ \A q \in Session \ {s} : pc'[q] = pc[q]
      /\ \A c \in Client : pc'[c] = pc[c]
  BY GoType DEF IInv, Probe, Stages, Named
<1>2. UNCHANGED <<dir, file, listening, room, request, base, attempt, name, lock, target,
                  conn, reply, answer, todo, stale, performed>>
  BY DEF Probe, socketvars, given, fixed, sessionvars, clientvars, history
<1>3. ASSUME backlog' # backlog
      PROVE  /\ file[name[s]] \in Session /\ file[name[s]] \in listening
             /\ backlog' = [backlog EXCEPT ![file[name[s]]] =
                              Append(backlog[file[name[s]]], [from |-> s, line |-> ""])]
  BY <1>3 DEF Probe, Live
<1>4. backlog \in [Session -> Seq(Entry)] /\ backlog' \in [Session -> Seq(Entry)]
  <2>1. [from |-> s, line |-> ""] \in Entry
    BY DEF Entry, Line
  <2>2. backlog \in [Session -> Seq(Entry)]
    BY DEF IInv, Shape
  <2>3. CASE backlog' # backlog
    <3>1. Append(backlog[file[name[s]]], [from |-> s, line |-> ""]) \in Seq(Entry)
      BY <1>3, <2>1, <2>2, <2>3, AppendProperties
    <3>. QED BY <1>3, <2>2, <2>3, <3>1
  <2>. QED BY <2>2, <2>3
<1>5. Shape'
  BY <1>1, <1>2, <1>4 DEF IInv, Shape
<1>6. TypeOK'
  BY <1>1, <1>2, <1>4 DEF IInv, TypeOK, Failed, Entry, Line
<1>7. NamesGiven'
  BY <1>1, <1>2 DEF IInv, NamesGiven, Named, Serving
<1>8. Owners'
  BY <1>1, <1>2 DEF IInv, Owners, Bound, Serving
<1>9. Lists' /\ Cleaning' /\ \A c \in Client : Listing(c)' = Listing(c)
  BY <1>1, <1>2, ListsUndisturbed
<1>10. Connections'
  <2>1. CASE backlog' = backlog
    BY <1>1, <1>2, <2>1, ClientsUndisturbed DEF IInv, Connections
  <2>2. CASE backlog' # backlog
    <3>. DEFINE t == file[name[s]]
                entry == [from |-> s, line |-> ""]
    <3>1. /\ t \in Session /\ t \in listening
          /\ backlog'[t] = Append(backlog[t], entry)
          /\ \A q \in Session \ {t} : backlog'[q] = backlog[q]
      BY <1>3, <1>4, <2>2
    <3>2. entry \in Entry /\ entry.from = s /\ entry.line = "" /\ s \notin Client
      BY ProcessFacts DEF Entry, Line
    <3>. HIDE DEF t, entry
    <3>3. SUFFICES ASSUME NEW q \in Session
                   PROVE  /\ backlog'[q] # <<>> => q \in listening'
                          /\ \A i \in 1..Len(backlog'[q]) : Connection(q, i)'
      BY DEF Connections
    <3>4. backlog'[q] # <<>> => q \in listening'
      BY <1>2, <3>1 DEF IInv, Connections
    <3>5. \A c \in Client : Asked(c, q) => Asked(c, q)'
      BY <1>1, <1>2, <1>9 DEF Asked
    <3>6. ASSUME NEW i \in 1..Len(backlog'[q]) PROVE Connection(q, i)'
      <4>1. /\ backlog[q] \in Seq(Entry)
            /\ entry \in Entry
            /\ backlog'[q] = backlog[q] \/ backlog'[q] = Append(backlog[q], entry)
        BY <1>4, <3>1, <3>2
      <4>2. /\ Len(backlog[q]) \in Nat
            /\ Len(backlog'[q]) \in {Len(backlog[q]), Len(backlog[q]) + 1}
            /\ \A j \in 1..Len(backlog[q]) : backlog'[q][j] = backlog[q][j]
            /\ \A j \in 1..Len(backlog'[q]) : j \notin 1..Len(backlog[q]) => backlog'[q][j] = entry
        BY <4>1, MaybeAppended
      <4>3. CASE i \in 1..Len(backlog[q])
        <5>1. Connection(q, i)
          BY <4>3 DEF IInv, Connections
        <5>. QED BY <1>1, <1>2, <3>2, <3>5, <4>2, <4>3, <5>1 DEF Connection
      <4>4. CASE i \notin 1..Len(backlog[q])
        <5>1. backlog'[q][i].from = s /\ backlog'[q][i].line = ""
          BY <3>2, <4>2, <4>4
        <5>. QED BY <3>2, <5>1 DEF Connection
      <4>. QED BY <4>3, <4>4
    <3>. QED BY <3>4, <3>6
  <2>. QED BY <2>1, <2>2
<1>. QED BY <1>5, <1>6, <1>7, <1>8, <1>9, <1>10 DEF IInv

(* It serves the client at the head of its queue.                          *)
LEMMA ServeKeeps ==
  ASSUME IInv, NEW s \in Session, serve_one(s)
  PROVE  IInv'
<1>. DEFINE entry == Head(backlog[s])
            c == entry.from
            line == entry.line
<1>1. /\ pc[s] = "up" /\ backlog[s] # <<>>
      /\ backlog' = [backlog EXCEPT ![s] = Tail(backlog[s])]
      /\ UNCHANGED <<dir, file, listening, room, pc, request, base, attempt, name, target,
                     conn, answer, todo, stale>>
  BY DEF serve_one, socketvars, given, fixed, sessionvars
<1>2. /\ backlog \in [Session -> Seq(Entry)]
      /\ backlog[s] \in Seq(Entry) /\ Len(backlog[s]) \in Nat \ {0}
      /\ entry = backlog[s][1] /\ entry \in Entry
      /\ Tail(backlog[s]) \in Seq(Entry)
      /\ Len(Tail(backlog[s])) = Len(backlog[s]) - 1
      /\ \A i \in 1..Len(backlog[s]) - 1 : Tail(backlog[s])[i] = backlog[s][i + 1]
  <2>1. backlog \in [Session -> Seq(Entry)]
    BY DEF IInv, Shape
  <2>2. backlog[s] \in Seq(Entry) /\ Len(backlog[s]) \in Nat \ {0}
    BY <1>1, <2>1, EmptySeq
  <2>3. 1 \in 1..Len(backlog[s])
    BY <2>2
  <2>. QED BY <1>1, <2>1, <2>2, <2>3, ElementOfSeq, HeadTailProperties
<1>3. /\ backlog' \in [Session -> Seq(Entry)]
      /\ backlog'[s] = Tail(backlog[s])
      /\ \A q \in Session \ {s} : backlog'[q] = backlog[q]
  BY <1>1, <1>2
<1>4. /\ line # "" => c \in Client /\ (conn[c] = s => pc[c] = "waiting")
      /\ line \in Line
  <2>1. 1 \in 1..Len(backlog[s])
    BY <1>2
  <2>2. Connection(s, 1)
    BY <2>1 DEF IInv, Connections
  <2>. QED BY <1>2, <2>2 DEF Connection, Entry
<1>. HIDE DEF entry
<1>5. lock' \in [Session -> BOOLEAN]
  <2>1. lock \in [Session -> BOOLEAN]
    BY DEF IInv, TypeOK
  <2>2. LockAfter(line, lock[s]) \in BOOLEAN
    BY <2>1 DEF LockAfter
  <2>3. lock' = lock \/ lock' = [lock EXCEPT ![s] = LockAfter(line, lock[s])]
    BY DEF serve_one, entry
  <2>. QED BY <2>1, <2>2, <2>3
<1>6. /\ reply' \in [Client -> {"", "locked", "unlocked"}]
      /\ \A d \in Client : reply'[d] = reply[d] \/ pc[d] = "waiting"
  <2>1. reply \in [Client -> {"", "locked", "unlocked"}]
    BY DEF IInv, Shape
  <2>2. answer_after(lock[s], line) \in {"locked", "unlocked"}
    BY DEF answer_after, state_line
  <2>3. CASE line = "" /\ reply' = reply
    BY <2>1, <2>3
  <2>4. CASE /\ line # ""
             /\ reply' = [reply EXCEPT ![c] =
                            IF conn[c] = s THEN answer_after(lock[s], line) ELSE reply[c]]
    BY <1>4, <2>1, <2>2, <2>4
  <2>5. \/ line = "" /\ reply' = reply
        \/ /\ line # ""
           /\ reply' = [reply EXCEPT ![c] =
                          IF conn[c] = s THEN answer_after(lock[s], line) ELSE reply[c]]
    BY DEF serve_one, entry
  <2>. QED BY <2>3, <2>4, <2>5
<1>7. Shape'
  BY <1>1, <1>3, <1>6 DEF IInv, Shape
<1>8. TypeOK'
  <2>1. \A d \in Client : reply'[d] \in {"", "locked", "unlocked"} /\ (reply'[d] # "" => pc[d] = "waiting")
    BY <1>6 DEF IInv, TypeOK
  <2>2. \A q \in Session : backlog'[q] \in Seq(Entry)
    BY <1>3
  <2>. QED BY <1>1, <1>5, <2>1, <2>2 DEF IInv, TypeOK, Entry, Line
<1>9. NamesGiven' /\ Owners'
  BY <1>1 DEF IInv, NamesGiven, Owners
<1>10. Lists' /\ Cleaning' /\ \A d \in Client : Listing(d)' = Listing(d)
  BY <1>1, ListsUndisturbed
<1>11. Connections'
  <2>1. \A d \in Client, q \in Session : Asked(d, q) => Asked(d, q)'
    BY <1>1, <1>10 DEF Asked
  <2>2. SUFFICES ASSUME NEW q \in Session
                 PROVE  /\ backlog'[q] # <<>> => q \in listening
                        /\ \A i \in 1..Len(backlog'[q]) : Connection(q, i)'
    BY <1>1 DEF Connections
  <2>3. CASE q = s
    <3>1. s \in listening
      BY <1>1 DEF IInv, Connections
    <3>2. ASSUME NEW i \in 1..Len(backlog'[s]) PROVE Connection(s, i)'
      <4>1. i + 1 \in 1..Len(backlog[s]) /\ backlog'[s][i] = backlog[s][i + 1]
        BY <1>2, <1>3
      <4>2. Connection(s, i + 1)
        BY <4>1 DEF IInv, Connections
      <4>3. \A j \in 1..Len(backlog'[s]) :
              j + 1 \in 1..Len(backlog[s]) /\ backlog'[s][j] = backlog[s][j + 1]
        BY <1>2, <1>3
      <4>4. i \in Nat /\ \A j \in 1..Len(backlog'[s]) : j \in Nat /\ (j + 1 = i + 1 => j = i)
        BY <1>2, <1>3
      <4>. QED BY <1>1, <2>1, <4>1, <4>2, <4>3, <4>4 DEF Connection
    <3>. QED BY <2>3, <3>1, <3>2
  <2>4. CASE q # s
    <3>1. backlog'[q] = backlog[q]
      BY <1>3, <2>4
    <3>2. \A i \in 1..Len(backlog[q]) : Connection(q, i)
      BY DEF IInv, Connections
    <3>3. \A i \in 1..Len(backlog[q]) : Connection(q, i)'
      BY <1>1, <2>1, <3>1, <3>2 DEF Connection
    <3>. QED BY <3>1, <3>3 DEF IInv, Connections
  <2>. QED BY <2>3, <2>4
<1>. QED BY <1>7, <1>8, <1>9, <1>10, <1>11 DEF IInv

-------------------------------------------------------------------------------
(* What a step of a client leaves to the sessions, and to other clients.   *)
LEMMA SessionsUndisturbed ==
  ASSUME IInv,
         UNCHANGED <<listening, base, name>>,
         \A s \in Session : pc'[s] = pc[s],
         \A n \in DOMAIN file' : n \in DOMAIN file /\ file'[n] = file[n]
  PROVE  NamesGiven' /\ Owners'
<1>1. NamesGiven'
  BY DEF IInv, NamesGiven
<1>2. Owners'
  BY DEF IInv, Owners
<1>. QED BY <1>1, <1>2

(* A client connects, or finds nobody.                                     *)
LEMMA ConnectKeeps ==
  ASSUME IInv, NEW c \in Client, Connect(c)
  PROVE  IInv'
<1>. DEFINE t == file[target[c]]
            entry == [from |-> c, line |-> ""]
<1>1. /\ pc[c] = "ask"
      /\ pc' \in [Session \cup Client -> Stages \cup Steps]
      /\ pc'[c] \in {"connected", "purge", "readdir"}
      /\ \A d \in Client \ {c} : pc'[d] = pc[d]
      /\ \A s \in Session : pc'[s] = pc[s]
  BY GoType DEF IInv, Connect, NoSession, Steps
<1>2. UNCHANGED <<dir, file, listening, room, request, base, attempt, name, lock, target,
                  reply, todo, stale, performed>>
  BY DEF Connect, socketvars, given, fixed, sessionvars, history
<1>3. \/ /\ valid_name(target[c]) /\ Live(target[c])
         /\ conn' = [conn EXCEPT ![c] = t]
         /\ backlog' = [backlog EXCEPT ![t] = Append(backlog[t], entry)]
         /\ pc'[c] = "connected"
         /\ UNCHANGED answer
      \/ /\ ~(valid_name(target[c]) /\ Live(target[c]))
         /\ Listing(c) /\ pc'[c] = "purge"
         /\ UNCHANGED <<answer, conn, backlog>>
      \/ /\ ~Listing(c) /\ pc'[c] = "readdir"
         /\ answer' = [answer EXCEPT ![c] = "no session"]
         /\ UNCHANGED <<conn, backlog>>
  BY GoType DEF IInv, Connect, NoSession, Steps
<1>4. ASSUME valid_name(target[c]), Live(target[c])
      PROVE  t \in Session /\ t \in listening /\ name[t] = target[c]
  <2>1. target[c] \in DOMAIN file /\ t \in listening
    BY <1>4 DEF Live
  <2>2. t \in Session
    BY <1>4, <2>1 DEF IInv, Owners, TypeOK
  <2>. QED BY <2>1, <2>2 DEF IInv, Owners, Serving
<1>5. /\ conn' \in [Client -> Session \cup {NONE}]
      /\ \A d \in Client \ {c} : conn'[d] = conn[d]
      /\ conn'[c] \in Session <=> pc'[c] = "connected"
  <2>1. conn \in [Client -> Session \cup {NONE}] /\ conn[c] \notin Session
    BY <1>1 DEF IInv, Shape, TypeOK
  <2>. QED BY <1>3, <1>4, <2>1
<1>6. backlog \in [Session -> Seq(Entry)] /\ backlog' \in [Session -> Seq(Entry)]
  <2>1. backlog \in [Session -> Seq(Entry)] /\ entry \in Entry
    BY DEF IInv, Shape, Entry, Line
  <2>. HIDE DEF entry
  <2>2. CASE UNCHANGED backlog
    BY <2>1, <2>2
  <2>3. CASE /\ valid_name(target[c]) /\ Live(target[c])
             /\ backlog' = [backlog EXCEPT ![t] = Append(backlog[t], entry)]
    <3>1. Append(backlog[t], entry) \in Seq(Entry)
      BY <1>4, <2>1, <2>3, AppendProperties
    <3>. QED BY <1>4, <2>1, <2>3, <3>1
  <2>. QED BY <1>3, <2>2, <2>3
<1>7. /\ answer' \in [Client -> {"", "locked", "unlocked", "no session", "error"}]
      /\ \A d \in Client \ {c} : answer'[d] = answer[d]
      /\ pc'[c] = "readdir" => answer'[c] = "no session"
      /\ pc'[c] # "readdir" => answer'[c] = answer[c]
  <2>1. answer \in [Client -> {"", "locked", "unlocked", "no session", "error"}]
    BY DEF IInv, TypeOK
  <2>. QED BY <1>3, <2>1
<1>8. Shape'
  BY <1>1, <1>2, <1>5, <1>6 DEF IInv, Shape
<1>9. TypeOK'
  <2>1. \A d \in Client : (conn'[d] \in Session) <=> pc'[d] \in {"connected", "waiting"}
    BY <1>1, <1>5 DEF IInv, TypeOK
  <2>2. \A q \in Session : backlog'[q] \in Seq(Entry)
    BY <1>6
  <2>3. \A d \in Client : /\ pc'[d] \in Steps
                          /\ reply'[d] \in {"", "locked", "unlocked"}
                          /\ reply'[d] # "" => pc'[d] = "waiting"
    BY <1>1, <1>2 DEF IInv, TypeOK, Steps
  <2>. QED BY <1>1, <1>2, <1>7, <2>1, <2>2, <2>3 DEF IInv, TypeOK, Entry, Line, Steps
<1>10. NamesGiven' /\ Owners'
  BY <1>1, <1>2, SessionsUndisturbed
<1>11. /\ \A d \in Client \ {c} : Listing(d)' = Listing(d)
       /\ Listing(c)' = (Listing(c) \/ pc'[c] = "readdir")
  BY <1>2, <1>7 DEF Listing
<1>12. Lists'
  BY <1>1, <1>2, <1>3, <1>11 DEF IInv, Lists
<1>13. Cleaning'
  <2>1. SUFFICES ASSUME NEW d \in Client, NEW e \in stale[d]
                 PROVE  /\ Listing(d)'
                        /\ valid_name(e[1])
                        /\ e[2] = DEAD \/ pc'[e[2]] = "ended"
                        /\ e[1] \in DOMAIN file /\ file[e[1]] = e[2] =>
                             e[1] \in todo[d] \/ (pc'[d] \in {"ask", "purge"} /\ target[d] = e[1])
    BY <1>2 DEF Cleaning
  <2>2. /\ Listing(d)
        /\ valid_name(e[1])
        /\ e[2] = DEAD \/ pc[e[2]] = "ended"
        /\ e[1] \in DOMAIN file /\ file[e[1]] = e[2] =>
             e[1] \in todo[d] \/ (pc[d] \in {"ask", "purge"} /\ target[d] = e[1])
    BY DEF IInv, Cleaning
  <2>3. e \in Seq(NameChars) \X (Session \cup {DEAD})
    BY Zenon DEF IInv, Shape
  <2>4. e[2] = DEAD \/ pc'[e[2]] = "ended"
    BY <1>1, <2>2, <2>3, ProcessFacts
  <2>5. CASE d = c /\ pc'[c] = "connected"
    <3>1. t \in Session /\ t \in listening
      BY <1>3, <1>4, <2>5
    <3>2. pc[t] # "ended" /\ t # DEAD
      BY <3>1, ProcessFacts DEF IInv, Owners, Serving
    <3>3. target[c] = e[1] => file[e[1]] # e[2]
      BY <2>2, <3>2
    <3>. QED BY <1>11, <2>2, <2>4, <2>5, <3>3
  <2>6. CASE ~(d = c /\ pc'[c] = "connected")
    BY <1>1, <1>3, <1>11, <2>2, <2>4, <2>6
  <2>. QED BY <2>5, <2>6
<1>14. Connections'
  <2>1. \A d \in Client, q \in Session : Asked(d, q) => Asked(d, q)'
    BY <1>1, <1>2, <1>3, <1>11 DEF Asked
  <2>2. \A q \in Session : ~(Asked(c, q) /\ name[q] = target[c])
    BY <1>1 DEF Asked
  <2>3. CASE UNCHANGED <<conn, backlog>>
    <3>1. \A q \in Session : \A i \in 1..Len(backlog[q]) : Connection(q, i) => Connection(q, i)'
      BY <1>1, <2>1, <2>3 DEF Connection, IInv, Shape, Entry
    <3>. QED BY <1>2, <2>3, <3>1 DEF IInv, Connections
  <2>4. CASE pc'[c] = "connected" /\ valid_name(target[c]) /\ Live(target[c])
    <3>1. PICK u \in Session :
            /\ u \in listening /\ name[u] = target[c]
            /\ backlog'[u] = Append(backlog[u], entry)
            /\ \A q \in Session \ {u} : backlog'[q] = backlog[q]
            /\ conn'[c] = u
      BY <1>3, <1>4, <1>5, <1>6, <2>4 DEF IInv, Shape
    <3>2. entry \in Entry /\ entry.from = c /\ entry.line = ""
      BY DEF Entry, Line
    <3>3. Asked(c, u)'
      <4>1. Listing(c) => name[u] \notin todo[c]
        BY <1>1, <3>1 DEF IInv, Lists
      <4>. QED BY <1>2, <1>11, <2>4, <3>1, <4>1 DEF Asked
    <3>. HIDE DEF t, entry
    <3>4. SUFFICES ASSUME NEW q \in Session
                   PROVE  /\ backlog'[q] # <<>> => q \in listening'
                          /\ \A i \in 1..Len(backlog'[q]) : Connection(q, i)'
      BY DEF Connections
    <3>5. backlog'[q] # <<>> => q \in listening'
      BY <1>2, <3>1 DEF IInv, Connections
    <3>6. ASSUME NEW i \in 1..Len(backlog'[q]) PROVE Connection(q, i)'
      <4>1. /\ backlog[q] \in Seq(Entry)
            /\ entry \in Entry
            /\ backlog'[q] = backlog[q] \/ backlog'[q] = Append(backlog[q], entry)
        BY <1>6, <3>1, <3>2
      <4>2. /\ Len(backlog[q]) \in Nat
            /\ Len(backlog'[q]) \in {Len(backlog[q]), Len(backlog[q]) + 1}
            /\ \A j \in 1..Len(backlog[q]) : backlog'[q][j] = backlog[q][j]
            /\ \A j \in 1..Len(backlog'[q]) : j \notin 1..Len(backlog[q]) => backlog'[q][j] = entry
        BY <4>1, MaybeAppended
      <4>3. q # u => backlog'[q] = backlog[q]
        BY <3>1
      <4>4. ASSUME NEW j \in 1..Len(backlog[q]), q = u PROVE backlog[q][j].from # c
        <5>1. Connection(q, j) /\ ~Asked(c, q)
          BY <2>2, <3>1, <4>4 DEF IInv, Connections
        <5>. QED BY <5>1 DEF Connection
      <4>5. CASE i \in 1..Len(backlog[q])
        <5>1. Connection(q, i) /\ (q = u => backlog[q][i].from # c)
          BY <4>4, <4>5 DEF IInv, Connections
        <5>2. \A j \in 1..Len(backlog'[q]) :
                \/ j \in 1..Len(backlog[q]) /\ backlog'[q][j] = backlog[q][j]
                \/ q = u /\ backlog'[q][j].from = c
          BY <3>2, <4>2, <4>3
        <5>3. \A d \in Client : backlog[q][i].from = d =>
                /\ Asked(d, q)'
                /\ \A j \in 1..Len(backlog'[q]) : backlog'[q][j].from = d => j = i
          BY <2>1, <5>1, <5>2 DEF Connection
        <5>4. backlog[q][i].line # "" =>
                /\ backlog[q][i].from \in Client
                /\ conn'[backlog[q][i].from] = q => pc'[backlog[q][i].from] = "waiting"
          BY <1>1, <1>5, <3>1, <5>1 DEF Connection
        <5>. QED BY <4>2, <4>5, <5>3, <5>4 DEF Connection
      <4>6. CASE i \notin 1..Len(backlog[q])
        <5>1. backlog'[q][i] = entry /\ q = u
          BY <4>2, <4>3, <4>6
        <5>2. \A j \in 1..Len(backlog'[q]) : backlog'[q][j].from = c => j \notin 1..Len(backlog[q])
          BY <4>2, <4>4, <5>1
        <5>3. \A j \in 1..Len(backlog'[q]) : j \notin 1..Len(backlog[q]) => j = i
          BY <4>2, <4>6
        <5>. QED BY <3>2, <3>3, <5>1, <5>2, <5>3 DEF Connection
      <4>. QED BY <4>5, <4>6
    <3>. QED BY <3>5, <3>6
  <2>. QED BY <1>3, <2>3, <2>4
<1>. QED BY <1>8, <1>9, <1>10, <1>12, <1>13, <1>14 DEF IInv

(* send returns: the client goes on to the next name, or is done.          *)
LEMMA SendOver ==
  ASSUME IInv, NEW c \in Client, pc[c] \in {"connected", "waiting"}, Io(c) \/ Answered(c),
         UNCHANGED <<socketvars, given, sessionvars, lock, backlog, target, todo, history>>
  PROVE  IInv'
<1>1. UNCHANGED <<dir, file, listening, room, request, base, attempt, name, lock, backlog,
                  target, todo, stale, performed>>
  BY DEF socketvars, given, fixed, sessionvars, history
<1>2. /\ pc' \in [Session \cup Client -> Stages \cup Steps]
      /\ pc'[c] = IF Listing(c) THEN "next" ELSE "done"
      /\ \A d \in Client \ {c} : pc'[d] = pc[d]
      /\ \A s \in Session : pc'[s] = pc[s]
  BY GoType DEF IInv, Io, Answered, Steps
<1>3. /\ conn' \in [Client -> Session \cup {NONE}]
      /\ reply' \in [Client -> {"", "locked", "unlocked"}]
      /\ conn'[c] = NONE /\ reply'[c] = ""
      /\ \A d \in Client \ {c} : conn'[d] = conn[d] /\ reply'[d] = reply[d]
  <2>1. /\ conn \in [Client -> Session \cup {NONE}]
        /\ reply \in [Client -> {"", "locked", "unlocked"}]
    BY DEF IInv, Shape
  <2>2. conn' = [conn EXCEPT ![c] = NONE] /\ reply' = [reply EXCEPT ![c] = ""]
    BY DEF Io, Answered
  <2>. QED BY <2>1, <2>2
<1>4. /\ answer' \in [Client -> {"", "locked", "unlocked", "no session", "error"}]
      /\ \A d \in Client \ {c} : answer'[d] = answer[d]
      /\ IF Listing(c) THEN answer'[c] = answer[c] ELSE answer'[c] # "no session"
  <2>1. answer \in [Client -> {"", "locked", "unlocked", "no session", "error"}]
    BY DEF IInv, TypeOK
  <2>2. reply[c] \in {"", "locked", "unlocked"}
    BY DEF IInv, TypeOK
  <2>3. \/ Listing(c) /\ answer' = answer
        \/ ~Listing(c) /\ answer' = [answer EXCEPT ![c] = "error"]
        \/ ~Listing(c) /\ answer' = [answer EXCEPT ![c] = reply[c]]
    BY DEF Io, Answered
  <2>. QED BY <2>1, <2>2, <2>3
<1>5. Shape'
  BY <1>1, <1>2, <1>3 DEF IInv, Shape
<1>6. TypeOK'
  <2>1. ASSUME NEW d \in Client
        PROVE  /\ pc'[d] \in Steps
               /\ (conn'[d] \in Session) <=> pc'[d] \in {"connected", "waiting"}
               /\ reply'[d] \in {"", "locked", "unlocked"}
               /\ reply'[d] # "" => pc'[d] = "waiting"
    <3>1. CASE d = c
      BY <1>2, <1>3, <3>1, ProcessFacts DEF Steps
    <3>2. CASE d # c
      <4>1. /\ pc[d] \in Steps
            /\ (conn[d] \in Session) <=> pc[d] \in {"connected", "waiting"}
            /\ reply[d] \in {"", "locked", "unlocked"}
            /\ reply[d] # "" => pc[d] = "waiting"
        BY DEF IInv, TypeOK, Steps
      <4>2. pc'[d] = pc[d] /\ conn'[d] = conn[d] /\ reply'[d] = reply[d]
        BY <1>2, <1>3, <3>2
      <4>. QED BY <4>1, <4>2
    <3>. QED BY <3>1, <3>2
  <2>. QED BY <1>1, <1>2, <1>4, <2>1 DEF IInv, TypeOK, Steps
<1>7. NamesGiven' /\ Owners'
  BY <1>1, <1>2, SessionsUndisturbed
<1>8. \A d \in Client : Listing(d)' = Listing(d)
  BY <1>1, <1>4 DEF Listing
<1>9. Lists'
  BY <1>1, <1>2, <1>8 DEF IInv, Lists
<1>10. Cleaning'
  <2>1. SUFFICES ASSUME NEW d \in Client, NEW e \in stale[d]
                 PROVE  /\ Listing(d)
                        /\ valid_name(e[1])
                        /\ e[2] = DEAD \/ pc'[e[2]] = "ended"
                        /\ e[1] \in DOMAIN file /\ file[e[1]] = e[2] =>
                             e[1] \in todo[d] \/ (pc'[d] \in {"ask", "purge"} /\ target[d] = e[1])
    BY <1>1, <1>8 DEF Cleaning
  <2>2. /\ Listing(d)
        /\ valid_name(e[1])
        /\ e[2] = DEAD \/ pc[e[2]] = "ended"
        /\ e[1] \in DOMAIN file /\ file[e[1]] = e[2] =>
             e[1] \in todo[d] \/ (pc[d] \in {"ask", "purge"} /\ target[d] = e[1])
    BY DEF IInv, Cleaning
  <2>3. e \in Seq(NameChars) \X (Session \cup {DEAD})
    BY Zenon DEF IInv, Shape
  <2>. QED BY <1>2, <2>2, <2>3
<1>11. Connections'
  <2>1. \A d \in Client, q \in Session : Asked(d, q) => Asked(d, q)'
    BY <1>1, <1>2, <1>8 DEF Asked
  <2>2. ASSUME NEW q \in Session, NEW i \in 1..Len(backlog[q]) PROVE Connection(q, i)'
    <3>1. Connection(q, i)
      BY DEF IInv, Connections
    <3>2. \A d \in Client : conn'[d] = q => d # c
      BY <1>3, ProcessFacts
    <3>3. backlog[q][i].from \in Client =>
            (conn'[backlog[q][i].from] = q => backlog[q][i].from # c)
      BY <3>2
    <3>. QED BY <1>1, <1>2, <1>3, <2>1, <3>1, <3>3 DEF Connection
  <2>. QED BY <1>1, <2>2 DEF IInv, Connections
<1>. QED BY <1>5, <1>6, <1>7, <1>9, <1>10, <1>11 DEF IInv

(* A client reads its answer, or gives up.                                 *)
LEMMA ReadLineKeeps ==
  ASSUME IInv, NEW c \in Client, ReadLine(c)
  PROVE  IInv'
BY SendOver DEF ReadLine

(* What a client finds and writes when its connection is still there.      *)
LEMMA WriteFacts ==
  ASSUME IInv, NEW c \in Client, WriteLine(c), Place(c) > 0
  PROVE  \E s \in Session : \E k \in 1..Len(backlog[s]) :
           /\ conn[c] = s /\ backlog[s][k].from = c
           /\ backlog' \in [Session -> Seq(Entry)]
           /\ \A q \in Session \ {s} : backlog'[q] = backlog[q]
           /\ Len(backlog'[s]) = Len(backlog[s])
           /\ \A i \in 1..Len(backlog[s]) \ {k} : backlog'[s][i] = backlog[s][i]
           /\ backlog'[s][k].from = c /\ backlog'[s][k].line = line_of(c)
           /\ line_of(c) \in Line /\ line_of(c) # ""
<1>1. pc[c] = "connected"
  BY DEF WriteLine
<1>2. conn[c] \in Session
  BY <1>1 DEF IInv, TypeOK
<1>. DEFINE I == {i \in 1..Len(backlog[conn[c]]) : backlog[conn[c]][i].from = c}
<1>3. Place(c) = IF I # {} THEN Min(I) ELSE 0
  BY Zenon DEF Place, SelectInSeq
<1>4. Len(backlog[conn[c]]) \in Nat
  BY <1>2, LenProperties DEF IInv, Shape
<1>5. I \subseteq Nat /\ I # {}
  BY <1>3, <1>4
<1>6. Place(c) \in I
  <2>. HIDE DEF I
  <2>. QED BY <1>3, <1>5, MinFacts
<1>7. line_of(c) \in Line /\ line_of(c) # ""
  <2>1. request[c].line \in {"lock", "unlock", "status", "ls"}
    BY RequestFacts DEF IInv, Shape
  <2>. QED BY <2>1 DEF line_of, Listing, Line
<1>8. PICK s \in Session : \E k \in 1..Len(backlog[s]) :
        /\ conn[c] = s /\ backlog[s][k].from = c
        /\ backlog' = [backlog EXCEPT ![s][k].line = line_of(c)]
  <2>1. backlog' = [backlog EXCEPT ![conn[c]][Place(c)].line = line_of(c)]
    BY DEF WriteLine
  <2>. QED BY <1>2, <1>6, <2>1
<1>9. PICK k \in 1..Len(backlog[s]) :
        /\ conn[c] = s /\ backlog[s][k].from = c
        /\ backlog' = [backlog EXCEPT ![s][k].line = line_of(c)]
  BY <1>8
<1>10. /\ backlog \in [Session -> Seq(Entry)] /\ backlog[s] \in Seq(Entry)
       /\ backlog[s][k] \in Entry
  BY <1>9, ElementOfSeq DEF IInv, Shape
<1>. DEFINE entry == [backlog[s][k] EXCEPT !.line = line_of(c)]
<1>11. entry \in Entry /\ entry.from = backlog[s][k].from /\ entry.line = line_of(c)
  BY <1>7, <1>10 DEF Entry
<1>12. backlog' = [backlog EXCEPT ![s] = [backlog[s] EXCEPT ![k] = entry]]
  BY <1>9
<1>. HIDE DEF entry
<1>. DEFINE written == [backlog[s] EXCEPT ![k] = entry]
<1>13. /\ written \in Seq(Entry)
       /\ Len(written) = Len(backlog[s])
       /\ \A j \in 1..Len(backlog[s]) : j # k => written[j] = backlog[s][j]
       /\ written[k] = entry
  <2>1. backlog[s] \in Seq(Entry) /\ entry \in Entry
    BY <1>10, <1>11
  <2>2. written = [backlog[s] EXCEPT ![k] = entry]
    OBVIOUS
  <2>. HIDE DEF written
  <2>. QED BY <2>1, <2>2, OneReplaced
<1>. HIDE DEF written
<1>14. backlog' = [backlog EXCEPT ![s] = written]
  BY <1>12 DEF written
<1>15. /\ backlog' \in [Session -> Seq(Entry)]
       /\ \A q \in Session \ {s} : backlog'[q] = backlog[q]
       /\ backlog'[s] = written
  BY <1>10, <1>13, <1>14
<1>16. /\ Len(backlog'[s]) = Len(backlog[s])
       /\ \A i \in 1..Len(backlog[s]) \ {k} : backlog'[s][i] = backlog[s][i]
       /\ backlog'[s][k].from = c /\ backlog'[s][k].line = line_of(c)
  BY <1>9, <1>11, <1>13, <1>15
<1>. HIDE DEF I
<1>17. /\ conn[c] = s /\ backlog[s][k].from = c
       /\ \A q \in Session \ {s} : backlog'[q] = backlog[q]
  BY <1>9, <1>15
<1>. QED BY <1>7, <1>15, <1>16, <1>17, Zenon

(* A client writes its line.                                               *)
LEMMA WriteLineKeeps ==
  ASSUME IInv, NEW c \in Client, WriteLine(c)
  PROVE  IInv'
<1>1. CASE Place(c) = 0
  BY <1>1, SendOver DEF WriteLine
<1>2. CASE Place(c) > 0
  <2>1. PICK s \in Session : \E k \in 1..Len(backlog[s]) :
          /\ conn[c] = s /\ backlog[s][k].from = c
          /\ backlog' \in [Session -> Seq(Entry)]
          /\ \A q \in Session \ {s} : backlog'[q] = backlog[q]
          /\ Len(backlog'[s]) = Len(backlog[s])
          /\ \A i \in 1..Len(backlog[s]) \ {k} : backlog'[s][i] = backlog[s][i]
          /\ backlog'[s][k].from = c /\ backlog'[s][k].line = line_of(c)
          /\ line_of(c) \in Line /\ line_of(c) # ""
    BY <1>2, WriteFacts
  <2>2. PICK k \in 1..Len(backlog[s]) :
          /\ conn[c] = s /\ backlog[s][k].from = c
          /\ backlog' \in [Session -> Seq(Entry)]
          /\ \A q \in Session \ {s} : backlog'[q] = backlog[q]
          /\ Len(backlog'[s]) = Len(backlog[s])
          /\ \A i \in 1..Len(backlog[s]) \ {k} : backlog'[s][i] = backlog[s][i]
          /\ backlog'[s][k].from = c /\ backlog'[s][k].line = line_of(c)
          /\ line_of(c) \in Line /\ line_of(c) # ""
    BY <2>1
  <2>3. UNCHANGED <<dir, file, listening, room, request, base, attempt, name, lock, target, conn,
                    reply, answer, todo, stale, performed>>
    BY <1>2 DEF WriteLine, socketvars, given, fixed, sessionvars, history
  <2>4. /\ pc[c] = "connected"
        /\ pc' \in [Session \cup Client -> Stages \cup Steps]
        /\ pc'[c] = "waiting"
        /\ \A d \in Client \ {c} : pc'[d] = pc[d]
        /\ \A q \in Session : pc'[q] = pc[q]
    <3>1. pc[c] = "connected" /\ Go(c, "waiting")
      BY <1>2 DEF WriteLine
    <3>. QED BY <3>1, GoType DEF IInv, Steps
  <2>5. /\ backlog' \in [Session -> Seq(Entry)]
        /\ \A q \in Session \ {s} : backlog'[q] = backlog[q]
        /\ Len(backlog'[s]) = Len(backlog[s])
        /\ \A i \in 1..Len(backlog[s]) \ {k} : backlog'[s][i] = backlog[s][i]
        /\ backlog'[s][k].from = c /\ backlog'[s][k].line # ""
    BY <2>2
  <2>6. Shape'
    BY <2>3, <2>4, <2>5 DEF IInv, Shape
  <2>7. TypeOK'
    <3>1. \A d \in Client : /\ pc'[d] \in Steps
                            /\ (conn[d] \in Session) <=> pc'[d] \in {"connected", "waiting"}
                            /\ reply[d] # "" => pc'[d] = "waiting"
      BY <2>4 DEF IInv, TypeOK, Steps
    <3>2. \A q \in Session : backlog'[q] \in Seq(Entry)
      BY <2>5
    <3>. QED BY <2>3, <2>4, <3>1, <3>2 DEF IInv, TypeOK, Entry, Line, Steps
  <2>8. NamesGiven' /\ Owners'
    BY <2>3, <2>4, SessionsUndisturbed
  <2>9. \A d \in Client : Listing(d)' = Listing(d)
    BY <2>3 DEF Listing
  <2>10. Lists'
    BY <2>3, <2>4, <2>9 DEF IInv, Lists
  <2>11. Cleaning'
    <3>1. SUFFICES ASSUME NEW d \in Client, NEW e \in stale[d]
                   PROVE  /\ Listing(d)
                          /\ valid_name(e[1])
                          /\ e[2] = DEAD \/ pc'[e[2]] = "ended"
                          /\ e[1] \in DOMAIN file /\ file[e[1]] = e[2] =>
                               e[1] \in todo[d] \/ (pc'[d] \in {"ask", "purge"} /\ target[d] = e[1])
      BY <2>3, <2>9 DEF Cleaning
    <3>2. /\ Listing(d)
          /\ valid_name(e[1])
          /\ e[2] = DEAD \/ pc[e[2]] = "ended"
          /\ e[1] \in DOMAIN file /\ file[e[1]] = e[2] =>
               e[1] \in todo[d] \/ (pc[d] \in {"ask", "purge"} /\ target[d] = e[1])
      BY DEF IInv, Cleaning
    <3>3. e \in Seq(NameChars) \X (Session \cup {DEAD})
      BY Zenon DEF IInv, Shape
    <3>. QED BY <2>4, <3>2, <3>3
  <2>12. Connections'
    <3>1. \A d \in Client, q \in Session : Asked(d, q) => Asked(d, q)'
      BY <2>3, <2>4, <2>9 DEF Asked
    <3>2. ASSUME NEW q \in Session
          PROVE  /\ backlog'[q] # <<>> => q \in listening
                 /\ Len(backlog'[q]) = Len(backlog[q])
                 /\ \A i \in 1..Len(backlog[q]) :
                      /\ backlog'[q][i].from = backlog[q][i].from
                      /\ backlog'[q][i].line = backlog[q][i].line \/ backlog'[q][i].from = c
      <4>1. CASE q = s
        <5>1. s \in listening
          <6>1. backlog[s] # <<>>
            BY EmptySeq
          <6>. QED BY <6>1 DEF IInv, Connections
        <5>2. \A i \in 1..Len(backlog[s]) : i # k => backlog'[s][i] = backlog[s][i]
          BY <2>5
        <5>3. \A i \in 1..Len(backlog[s]) :
                /\ backlog'[s][i].from = backlog[s][i].from
                /\ backlog'[s][i].line = backlog[s][i].line \/ backlog'[s][i].from = c
          BY <2>2, <2>5, <5>2
        <5>. QED BY <2>5, <4>1, <5>1, <5>3
      <4>2. CASE q # s
        BY <2>5, <4>2 DEF IInv, Connections
      <4>. QED BY <4>1, <4>2
    <3>3. ASSUME NEW q \in Session, NEW i \in 1..Len(backlog[q]) PROVE Connection(q, i)'
      <4>1. Connection(q, i)
        BY DEF IInv, Connections
      <4>2. /\ Len(backlog'[q]) = Len(backlog[q])
            /\ \A j \in 1..Len(backlog[q]) : backlog'[q][j].from = backlog[q][j].from
            /\ backlog'[q][i].line = backlog[q][i].line \/ backlog'[q][i].from = c
        BY <3>2
      <4>. QED BY <2>3, <2>4, <3>1, <4>1, <4>2 DEF Connection
    <3>. QED BY <2>3, <3>2, <3>3 DEF Connections
  <2>. QED BY <2>6, <2>7, <2>8, <2>10, <2>11, <2>12 DEF IInv
<1>3. Place(c) > 0 \/ Place(c) = 0
  BY DEF WriteLine
<1>. QED BY <1>1, <1>2, <1>3

(* A client reads the directory.                                           *)
LEMMA ReadDirKeeps ==
  ASSUME IInv, NEW c \in Client, ReadDir(c)
  PROVE  IInv'
<1>1. UNCHANGED <<dir, file, listening, room, request, base, attempt, name, lock, backlog, target,
                  conn, reply, answer, performed>>
  BY DEF ReadDir, socketvars, given, fixed, sessionvars
<1>2. /\ pc[c] = "readdir"
      /\ pc' \in [Session \cup Client -> Stages \cup Steps]
      /\ pc'[c] = "next"
      /\ \A d \in Client \ {c} : pc'[d] = pc[d]
      /\ \A s \in Session : pc'[s] = pc[s]
  BY GoType DEF IInv, ReadDir, Steps
<1>3. /\ todo' \in [Client -> SUBSET Seq(NameChars)]
      /\ todo'[c] = names
      /\ \A d \in Client \ {c} : todo'[d] = todo[d]
  <2>1. todo \in [Client -> SUBSET Seq(NameChars)] /\ names \subseteq Seq(NameChars)
    BY FileType DEF IInv, Shape, names
  <2>. QED BY <2>1 DEF ReadDir
<1>. DEFINE seen == {<<n, file[n]>> : n \in {m \in names : Dead(file[m])}}
<1>4. \A e \in seen :
        /\ e \in Seq(NameChars) \X (Session \cup {DEAD})
        /\ e[1] \in names /\ valid_name(e[1])
        /\ e[2] = DEAD \/ pc[e[2]] = "ended"
  <2>1. SUFFICES ASSUME NEW n \in names, Dead(file[n])
                 PROVE  /\ n \in Seq(NameChars) /\ file[n] \in Session \cup {DEAD}
                        /\ valid_name(n)
                        /\ file[n] = DEAD \/ pc[file[n]] = "ended"
    OBVIOUS
  <2>2. n \in DOMAIN file /\ valid_name(n)
    BY DEF names
  <2>3. n \in Seq(NameChars) /\ file[n] \in Session \cup {DEAD}
    BY <2>2, FileType DEF IInv, Owners
  <2>4. file[n] \in Session => pc[file[n]] = "ended"
    BY <2>1, <2>2 DEF IInv, Owners, Dead, Bound, Serving
  <2>. QED BY <2>2, <2>3, <2>4
<1>5. /\ stale' \in [Client -> SUBSET (Seq(NameChars) \X (Session \cup {DEAD}))]
      /\ stale'[c] = seen
      /\ \A d \in Client \ {c} : stale'[d] = stale[d]
  <2>1. seen \subseteq Seq(NameChars) \X (Session \cup {DEAD})
    BY <1>4, Zenon
  <2>2. stale \in [Client -> SUBSET (Seq(NameChars) \X (Session \cup {DEAD}))]
    BY DEF IInv, Shape
  <2>3. stale' = [stale EXCEPT ![c] = seen]
    BY DEF ReadDir
  <2>. HIDE DEF seen
  <2>. QED BY <2>1, <2>2, <2>3
<1>. HIDE DEF seen
<1>6. Shape'
  BY <1>1, <1>2, <1>3, <1>5 DEF IInv, Shape
<1>7. TypeOK'
  BY <1>1, <1>2 DEF IInv, TypeOK
<1>8. NamesGiven' /\ Owners'
  BY <1>1, <1>2, SessionsUndisturbed
<1>9. /\ \A d \in Client : Listing(d)' = Listing(d)
      /\ Listing(c)
  BY <1>1, <1>2 DEF IInv, Lists, Listing
<1>10. Lists'
  BY <1>1, <1>2, <1>3, <1>9 DEF IInv, Lists, names
<1>11. Cleaning'
  <2>1. SUFFICES ASSUME NEW d \in Client, NEW e \in stale'[d]
                 PROVE  /\ Listing(d)
                        /\ valid_name(e[1])
                        /\ e[2] = DEAD \/ pc'[e[2]] = "ended"
                        /\ e[1] \in DOMAIN file /\ file[e[1]] = e[2] =>
                             e[1] \in todo'[d] \/ (pc'[d] \in {"ask", "purge"} /\ target[d] = e[1])
    BY <1>1, <1>9 DEF Cleaning
  <2>2. CASE d = c
    <3>1. e \in seen
      BY <1>5, <2>2
    <3>. QED BY <1>2, <1>3, <1>4, <1>9, <2>2, <3>1
  <2>3. CASE d # c
    <3>1. e \in stale[d]
      BY <1>5, <2>3
    <3>2. /\ Listing(d)
          /\ valid_name(e[1])
          /\ e[2] = DEAD \/ pc[e[2]] = "ended"
          /\ e[1] \in DOMAIN file /\ file[e[1]] = e[2] =>
               e[1] \in todo[d] \/ (pc[d] \in {"ask", "purge"} /\ target[d] = e[1])
      BY <3>1 DEF IInv, Cleaning
    <3>3. e \in Seq(NameChars) \X (Session \cup {DEAD})
      BY <3>1, Zenon DEF IInv, Shape
    <3>. QED BY <1>2, <1>3, <2>3, <3>2, <3>3
  <2>. QED BY <2>2, <2>3
<1>12. Connections'
  <2>1. \A d \in Client, q \in Session : Asked(d, q) => Asked(d, q)'
    BY <1>1, <1>2, <1>3, <1>9 DEF Asked
  <2>2. ASSUME NEW q \in Session, NEW i \in 1..Len(backlog[q]) PROVE Connection(q, i)'
    <3>1. Connection(q, i)
      BY DEF IInv, Connections
    <3>2. \A d \in Client : pc[d] = "waiting" => pc'[d] = "waiting"
      BY <1>2
    <3>. QED BY <1>1, <2>1, <3>1, <3>2 DEF Connection
  <2>. QED BY <1>1, <2>2 DEF IInv, Connections
<1>. QED BY <1>6, <1>7, <1>8, <1>10, <1>11, <1>12 DEF IInv

(* A client goes on to the next file it has read.                          *)
LEMMA NextNameKeeps ==
  ASSUME IInv, NEW c \in Client, NextName(c)
  PROVE  IInv'
<1>1. UNCHANGED <<dir, file, listening, room, request, base, attempt, name, lock, backlog,
                  conn, reply, answer, stale, performed>>
  BY DEF NextName, socketvars, given, fixed, sessionvars, history
<1>2. /\ pc[c] = "next"
      /\ pc' \in [Session \cup Client -> Stages \cup Steps]
      /\ pc'[c] \in {"ask", "done"}
      /\ \A d \in Client \ {c} : pc'[d] = pc[d]
      /\ \A s \in Session : pc'[s] = pc[s]
  <2>1. pc[c] = "next" /\ (Go(c, "ask") \/ Go(c, "done"))
    BY DEF NextName
  <2>. QED BY <2>1, GoType DEF IInv, Steps
<1>3. /\ todo' \in [Client -> SUBSET Seq(NameChars)]
      /\ target' \in [Client -> Seq(STRING \cup NameChars)]
      /\ \A d \in Client \ {c} : todo'[d] = todo[d] /\ target'[d] = target[d]
      /\ \/ pc'[c] = "done" /\ todo[c] = {} /\ todo'[c] = {}
         \/ /\ pc'[c] = "ask"
            /\ target'[c] \in todo[c]
            /\ todo'[c] = todo[c] \ {target'[c]}
  <2>1. /\ todo \in [Client -> SUBSET Seq(NameChars)]
        /\ target \in [Client -> Seq(STRING \cup NameChars)]
        /\ pc \in [Session \cup Client -> Stages \cup Steps]
    BY DEF IInv, Shape
  <2>2. CASE todo[c] = {} /\ Go(c, "done") /\ UNCHANGED <<target, todo>>
    BY <2>1, <2>2 DEF Go
  <2>3. ASSUME NEW n \in todo[c],
               todo' = [todo EXCEPT ![c] = @ \ {n}], target' = [target EXCEPT ![c] = n], Go(c, "ask")
        PROVE  /\ todo' \in [Client -> SUBSET Seq(NameChars)]
               /\ target' \in [Client -> Seq(STRING \cup NameChars)]
               /\ \A d \in Client \ {c} : todo'[d] = todo[d] /\ target'[d] = target[d]
               /\ pc'[c] = "ask"
               /\ target'[c] \in todo[c]
               /\ todo'[c] = todo[c] \ {target'[c]}
    <3>1. n \in Seq(STRING \cup NameChars)
      BY <2>1, SeqMonotonic
    <3>. QED BY <2>1, <2>3, <3>1 DEF Go
  <2>. QED BY <2>2, <2>3 DEF NextName
<1>4. Shape'
  BY <1>1, <1>2, <1>3 DEF IInv, Shape
<1>5. TypeOK'
  BY <1>1, <1>2 DEF IInv, TypeOK
<1>6. NamesGiven' /\ Owners'
  BY <1>1, <1>2, SessionsUndisturbed
<1>7. /\ \A d \in Client : Listing(d)' = Listing(d)
      /\ Listing(c)
  BY <1>1, <1>2 DEF IInv, Lists, Listing
<1>8. Lists'
  BY <1>1, <1>2, <1>3, <1>7 DEF IInv, Lists
<1>9. Cleaning'
  <2>1. SUFFICES ASSUME NEW d \in Client, NEW e \in stale[d]
                 PROVE  /\ Listing(d)
                        /\ valid_name(e[1])
                        /\ e[2] = DEAD \/ pc'[e[2]] = "ended"
                        /\ e[1] \in DOMAIN file /\ file[e[1]] = e[2] =>
                             e[1] \in todo'[d] \/ (pc'[d] \in {"ask", "purge"} /\ target'[d] = e[1])
    BY <1>1, <1>7 DEF Cleaning
  <2>2. /\ Listing(d)
        /\ valid_name(e[1])
        /\ e[2] = DEAD \/ pc[e[2]] = "ended"
        /\ e[1] \in DOMAIN file /\ file[e[1]] = e[2] =>
             e[1] \in todo[d] \/ (pc[d] \in {"ask", "purge"} /\ target[d] = e[1])
    BY DEF IInv, Cleaning
  <2>3. e \in Seq(NameChars) \X (Session \cup {DEAD})
    BY Zenon DEF IInv, Shape
  <2>4. e[2] = DEAD \/ pc'[e[2]] = "ended"
    BY <1>2, <2>2, <2>3
  <2>5. CASE d = c
    BY <1>2, <1>3, <2>2, <2>4, <2>5
  <2>6. CASE d # c
    BY <1>2, <1>3, <2>2, <2>4, <2>6
  <2>. QED BY <2>5, <2>6
<1>10. Connections'
  <2>1. ASSUME NEW d \in Client, NEW q \in Session, Asked(d, q)
        PROVE  Asked(d, q)'
    <3>1. CASE d = c
      BY <1>1, <1>2, <1>3, <1>7, <2>1, <3>1 DEF Asked
    <3>2. CASE d # c
      BY <1>1, <1>2, <1>3, <1>7, <2>1, <3>2 DEF Asked
    <3>. QED BY <3>1, <3>2
  <2>2. ASSUME NEW q \in Session, NEW i \in 1..Len(backlog[q]) PROVE Connection(q, i)'
    <3>1. Connection(q, i)
      BY DEF IInv, Connections
    <3>2. \A d \in Client : pc[d] = "waiting" => pc'[d] = "waiting"
      BY <1>2
    <3>. QED BY <1>1, <2>1, <3>1, <3>2 DEF Connection
  <2>. QED BY <1>1, <2>2 DEF IInv, Connections
<1>. QED BY <1>4, <1>5, <1>6, <1>8, <1>9, <1>10 DEF IInv

(* A client removes the file of a dead session.                            *)
LEMMA PurgeKeeps ==
  ASSUME IInv, NEW c \in Client, Purge(c)
  PROVE  IInv'
<1>1. UNCHANGED <<dir, listening, room, request, base, attempt, name, lock, backlog,
                  target, conn, reply, answer, todo, stale, performed>>
  BY DEF Purge, given, fixed, sessionvars, clientvars, history
<1>2. /\ pc[c] = "purge"
      /\ pc' \in [Session \cup Client -> Stages \cup Steps]
      /\ pc'[c] = "next"
      /\ \A d \in Client \ {c} : pc'[d] = pc[d]
      /\ \A s \in Session : pc'[s] = pc[s]
  BY GoType DEF IInv, Purge, Steps
<1>3. /\ DOMAIN file' = DOMAIN file \ {target[c]}
      /\ \A n \in DOMAIN file' : file'[n] = file[n]
  BY DEF Purge, Purged, Without
<1>4. Shape'
  BY <1>1, <1>2 DEF IInv, Shape
<1>5. TypeOK'
  <2>1. DOMAIN file' \subseteq Seq(NameChars) /\ Range(file') \subseteq Session \cup {DEAD, FOREIGN}
    BY <1>3, FileType DEF IInv
  <2>. QED BY <1>1, <1>2, <2>1 DEF IInv, TypeOK
<1>6. NamesGiven'
  BY <1>1, <1>2 DEF IInv, NamesGiven
<1>7. Owners'
  BY <1>1, <1>2, <1>3 DEF IInv, Owners
<1>8. /\ \A d \in Client : Listing(d)' = Listing(d)
      /\ Listing(c)
  BY <1>1, <1>2 DEF IInv, Lists, Listing
<1>9. Lists'
  BY <1>1, <1>2, <1>8 DEF IInv, Lists
<1>10. Cleaning'
  <2>1. SUFFICES ASSUME NEW d \in Client, NEW e \in stale[d]
                 PROVE  /\ Listing(d)
                        /\ valid_name(e[1])
                        /\ e[2] = DEAD \/ pc'[e[2]] = "ended"
                        /\ e[1] \in DOMAIN file' /\ file'[e[1]] = e[2] =>
                             e[1] \in todo[d] \/ (pc'[d] \in {"ask", "purge"} /\ target[d] = e[1])
    BY <1>1, <1>8 DEF Cleaning
  <2>2. /\ Listing(d)
        /\ valid_name(e[1])
        /\ e[2] = DEAD \/ pc[e[2]] = "ended"
        /\ e[1] \in DOMAIN file /\ file[e[1]] = e[2] =>
             e[1] \in todo[d] \/ (pc[d] \in {"ask", "purge"} /\ target[d] = e[1])
    BY DEF IInv, Cleaning
  <2>3. e \in Seq(NameChars) \X (Session \cup {DEAD})
    BY Zenon DEF IInv, Shape
  <2>4. e[2] = DEAD \/ pc'[e[2]] = "ended"
    BY <1>2, <2>2, <2>3
  <2>5. CASE d = c
    BY <1>2, <1>3, <2>2, <2>4, <2>5
  <2>6. CASE d # c
    BY <1>2, <1>3, <2>2, <2>4, <2>6
  <2>. QED BY <2>5, <2>6
<1>11. Connections'
  <2>1. \A d \in Client, q \in Session : Asked(d, q) => Asked(d, q)'
    BY <1>1, <1>2, <1>8 DEF Asked
  <2>2. ASSUME NEW q \in Session, NEW i \in 1..Len(backlog[q]) PROVE Connection(q, i)'
    <3>1. Connection(q, i)
      BY DEF IInv, Connections
    <3>2. \A d \in Client : pc[d] = "waiting" => pc'[d] = "waiting"
      BY <1>2
    <3>. QED BY <1>1, <2>1, <3>1, <3>2 DEF Connection
  <2>. QED BY <1>1, <2>2 DEF IInv, Connections
<1>. QED BY <1>4, <1>5, <1>6, <1>7, <1>9, <1>10, <1>11 DEF IInv

-------------------------------------------------------------------------------
(* The invariant holds at first, and every step keeps it.                  *)
LEMMA InitIInv == Init => IInv
<1>. SUFFICES ASSUME Init PROVE IInv
  OBVIOUS
<1>1. TypeOK /\ Shape
  BY InitTyped
<1>2. /\ \A s \in Session : pc[s] = "idle" /\ backlog[s] = <<>>
      /\ \A c \in Client : pc[c] = IF request[c].line = "ls" THEN "readdir" ELSE "ask"
  BY ProcessFacts DEF Init
<1>3. NamesGiven
  BY <1>2 DEF NamesGiven, Named, Serving
<1>4. Owners
  <2>1. \A n \in DOMAIN file : file[n] = DEAD \/ (file[n] = FOREIGN /\ n \in Foreign)
    <3>1. CASE dir = "absent"
      <4>1. file = <<>>
        BY <3>1, Zenon DEF Init
      <4>2. DOMAIN file = {}
        BY <4>1, EmptySeq
      <4>. QED BY <4>2
    <3>2. CASE dir # "absent"
      <4>1. file = [n \in Leftover \cup Foreign |-> IF n \in Leftover THEN DEAD ELSE FOREIGN]
        BY <3>2, Zenon DEF Init
      <4>. QED BY <4>1
    <3>. QED BY <3>1, <3>2
  <2>2. \A n \in DOMAIN file : file[n] = FOREIGN => ~valid_name(n)
    BY <2>1, SocketFacts, ProcessFacts
  <2>3. \A n \in DOMAIN file : file[n] \notin Session
    BY <2>1, ProcessFacts
  <2>4. listening = {FOREIGN}
    BY DEF Init
  <2>. QED BY <1>2, <2>2, <2>3, <2>4, ProcessFacts DEF Owners, Serving
<1>5. \A c \in Client : /\ target[c] = request[c].name /\ answer[c] = ""
                        /\ todo[c] = {} /\ stale[c] = {}
  BY DEF Init
<1>6. Lists
  BY <1>2, <1>5 DEF Lists, Listing
<1>7. Connections
  BY <1>2, EmptySeq DEF Connections
<1>8. Cleaning
  BY <1>5 DEF Cleaning
<1>. QED BY <1>1, <1>3, <1>4, <1>6, <1>7, <1>8 DEF IInv

(* Every step keeps the invariant.                                         *)
LEMMA NextIInv == IInv /\ [Next]_vars => IInv'
<1>1. ASSUME IInv, NEW s \in Session, Run(s) PROVE IInv'
  BY <1>1, RunKeeps
<1>2. ASSUME IInv, NEW s \in Session, Starting(s) PROVE IInv'
  BY <1>2, AttemptKeeps, ProbeKeeps, RemoveKeeps, BindKeeps, ListenKeeps, ChmodKeeps DEF Starting
<1>3. ASSUME IInv, NEW s \in Session, Switch(s) PROVE IInv'
  BY <1>3, SwitchKeeps
<1>4. ASSUME IInv, NEW s \in Session, serve_one(s) PROVE IInv'
  BY <1>4, ServeKeeps
<1>5. ASSUME IInv, NEW s \in Session, Leave(s) PROVE IInv'
  BY <1>5, LeaveKeeps
<1>6. ASSUME IInv, NEW s \in Session, Unlink(s) PROVE IInv'
  BY <1>6, UnlinkKeeps
<1>7. ASSUME IInv, NEW s \in Session, (pc[s] = "closed" /\ Close(s)) \/ Kill(s) PROVE IInv'
  BY <1>7, CloseKeeps DEF Kill
<1>8. ASSUME IInv, NEW c \in Client, Asking(c) PROVE IInv'
  BY <1>8, ConnectKeeps, WriteLineKeeps, ReadLineKeeps, ReadDirKeeps, NextNameKeeps, PurgeKeeps
  DEF Asking
<1>9. ASSUME IInv, UNCHANGED vars PROVE IInv'
  <2>1. UNCHANGED <<dir, file, listening, room, pc, request, base, attempt, name, lock, backlog,
                    target, conn, reply, answer, todo, stale, performed>>
    BY <1>9 DEF vars, socketvars, given, fixed, sessionvars, clientvars, history
  <2>2. TypeOK' /\ Shape'
    BY <1>9, <2>1 DEF IInv, TypeOK, Shape
  <2>3. NamesGiven' /\ Owners'
    BY <1>9, <2>1 DEF IInv, NamesGiven, Owners
  <2>4. Lists' /\ Connections' /\ Cleaning'
    <3>1. \A s \in Session :
            \/ backlog'[s] = backlog[s] /\ s \in listening' /\ name'[s] = name[s]
            \/ backlog'[s] = backlog[s] /\ backlog[s] = <<>>
      <4>1. \A s \in Session : backlog[s] = <<>> \/ s \in listening
        BY <1>9 DEF IInv, Connections
      <4>2. UNCHANGED <<backlog, listening, name>>
        BY <2>1
      <4>. QED BY <4>1, <4>2
    <3>2. IInv
      BY <1>9
    <3>3. \A c \in Client : pc'[c] = pc[c]
      BY <2>1
    <3>4. \A s \in Session : pc[s] = "ended" => pc'[s] = "ended"
      BY <2>1
    <3>5. \A n \in DOMAIN file' :
            \/ n \in DOMAIN file /\ file'[n] = file[n]
            \/ file'[n] \in Session /\ pc[file'[n]] # "ended"
      BY <2>1
    <3>. QED BY <2>1, <3>1, <3>2, <3>3, <3>4, <3>5, ClientsUndisturbed
  <2>. QED BY <2>2, <2>3, <2>4 DEF IInv
<1>. QED BY <1>1, <1>2, <1>3, <1>4, <1>5, <1>6, <1>7, <1>8, <1>9 DEF Next

(* Whoever comes between whose steps, no variable leaves its type: every   *)
(* name in the directory and of a session is made of the characters it may *)
(* have and fits the path, and an answer is there for a client that waits. *)
THEOREM TypeCorrect == Spec => []TypeOK
<1>1. IInv => TypeOK
  BY DEF IInv
<1>. QED BY <1>1, InitIInv, NextIInv, PTL DEF Spec

(* A list that is over has removed every socket that it saw dead, whatever *)
(* sessions and other lists did meanwhile.                                 *)
THEOREM ListsClean == Spec => []ListCleans
<1>1. IInv => ListCleans
  <2>1. SUFFICES ASSUME IInv, NEW c \in Client, pc[c] = "done", NEW d \in stale[c]
                 PROVE  d[1] \notin DOMAIN file \/ file[d[1]] # d[2]
    BY DEF ListCleans
  <2>2. /\ Listing(c)
        /\ d[1] \in DOMAIN file /\ file[d[1]] = d[2] => d[1] \in todo[c]
    BY <2>1 DEF IInv, Cleaning
  <2>3. todo[c] = {}
    BY <2>1, <2>2 DEF IInv, Lists
  <2>. QED BY <2>2, <2>3
<1>. QED BY <1>1, InitIInv, NextIInv, PTL DEF Spec

-------------------------------------------------------------------------------
(* While processes do not come between a test and its outcome.             *)

(* A step that starts no test and changes nothing that a test found.       *)
LEMMA Quiet ==
  ASSUME IInv, Undisturbed, listening' \subseteq listening,
         \A p \in Session \cup Client : Critical(p)' => Critical(p),
         \A s \in Session :
           /\ pc'[s] \in Bound =>
                pc[s] \in Bound /\ name'[s] = name[s] /\ name[s] \in DOMAIN file'
           /\ pc'[s] \in {"remove", "bind"} => pc'[s] = pc[s] /\ name'[s] = name[s]
           /\ pc'[s] \in {"in_use", "gone"} => pc'[s] = pc[s],
         \A c \in Client : pc'[c] = "purge" => pc[c] = "purge" /\ target'[c] = target[c],
         \A n \in DOMAIN file' : n \in DOMAIN file /\ file'[n] = file[n]
  PROVE  Undisturbed'
<1>1. \A n : Live(n)' => Live(n)
  BY DEF Live
<1>2. Exclusive'
  BY DEF Undisturbed, Exclusive
<1>3. ASSUME NEW s \in Session
      PROVE  /\ pc'[s] \in Bound => name'[s] \in DOMAIN file' /\ file'[name'[s]] = s
             /\ pc'[s] = "remove" => ~Live(name[s])'
             /\ pc'[s] = "bind" => name'[s] \notin DOMAIN file'
             /\ pc'[s] \notin {"in_use", "gone"}
  <2>1. pc'[s] \in Bound => name'[s] \in DOMAIN file' /\ file'[name'[s]] = s
    BY DEF Undisturbed
  <2>2. pc'[s] = "remove" => ~Live(name[s])'
    BY DEF Undisturbed, Live
  <2>. QED BY <2>1, <2>2 DEF Undisturbed
<1>4. ASSUME NEW c \in Client, pc'[c] = "purge" PROVE ~Live(target[c])'
  BY <1>4 DEF Undisturbed, Live
<1>. QED BY <1>2, <1>3, <1>4 DEF Undisturbed

(* A step of a process that is the only one to be about a test.            *)
LEMMA OnlyOne ==
  ASSUME IInv, Undisturbed, NEW p \in Session \cup Client,
         \A q \in (Session \cup Client) \ {p} : ~Critical(q) /\ pc'[q] = pc[q],
         \A s \in Session \ {p} :
           /\ name'[s] = name[s]
           /\ pc[s] \in {"up", "closing"} =>
                name[s] \in DOMAIN file' /\ file'[name[s]] = file[name[s]],
         p \in Session =>
           /\ pc'[p] \in Bound => name'[p] \in DOMAIN file' /\ file'[name'[p]] = p
           /\ pc'[p] = "remove" => ~Live(name[p])'
           /\ pc'[p] = "bind" => name'[p] \notin DOMAIN file'
           /\ pc'[p] \notin {"in_use", "gone"},
         p \in Client => (pc'[p] = "purge" => ~Live(target[p])')
  PROVE  Undisturbed'
<1>1. \A q \in (Session \cup Client) \ {p} : ~Critical(q)'
  BY DEF Critical
<1>2. Exclusive'
  BY <1>1 DEF Exclusive
<1>3. ASSUME NEW s \in Session \ {p}
      PROVE  /\ pc'[s] \in Bound => name'[s] \in DOMAIN file' /\ file'[name'[s]] = s
             /\ pc'[s] \notin {"remove", "bind", "in_use", "gone"}
  <2>1. pc'[s] = pc[s] /\ pc[s] \notin {"remove", "bind", "bound", "chmod"} /\ name'[s] = name[s]
    BY DEF Critical
  <2>. QED BY <2>1 DEF Undisturbed, Bound
<1>4. \A c \in Client \ {p} : pc'[c] # "purge"
  BY DEF Critical
<1>5. ASSUME NEW s \in Session
      PROVE  /\ pc'[s] \in Bound => name'[s] \in DOMAIN file' /\ file'[name'[s]] = s
             /\ pc'[s] = "remove" => ~Live(name[s])'
             /\ pc'[s] = "bind" => name'[s] \notin DOMAIN file'
             /\ pc'[s] \notin {"in_use", "gone"}
  <2>1. CASE s = p
    BY <2>1
  <2>2. CASE s # p
    BY <1>3, <2>2
  <2>. QED BY <2>1, <2>2
<1>6. ASSUME NEW c \in Client, pc'[c] = "purge" PROVE ~Live(target[c])'
  BY <1>4, <1>6
<1>. QED BY <1>2, <1>5, <1>6 DEF Undisturbed

(* Two sessions with the same name do not both have their sockets.         *)
LEMMA OneOwner ==
  ASSUME Undisturbed, NEW s \in Session, NEW q \in Session, pc[s] \in Bound, pc[q] \in Bound,
         name[s] = name[q]
  PROVE  s = q
BY DEF Undisturbed

(* Without overlaps nothing comes between the probe and the removal of a   *)
(* starting session...                                                     *)
LEMMA StartingUndisturbed ==
  ASSUME ~Overlaps, IInv, Undisturbed, NEW s \in Session, Starting(s)
  PROVE  Undisturbed'
<1>1. /\ \A q \in (Session \cup Client) \ {s} : pc'[q] = pc[q]
      /\ \A q \in Session \ {s} : name'[q] = name[q]
      /\ UNCHANGED target
  <2>1. /\ pc \in [Session \cup Client -> Stages \cup Steps]
        /\ name \in [Session -> Seq(NameChars)]
    BY DEF IInv, Shape
  <2>2. /\ \E where : pc' = [pc EXCEPT ![s] = where]
        /\ name' = name \/ name' = [name EXCEPT ![s] = name_of(s)]
        /\ UNCHANGED target
    BY DEF Starting, Attempt, Probe, RemoveStale, Bind, Listen, Chmod, Go, sessionvars, clientvars
  <2>. QED BY <2>1, <2>2
<1>2. \A q \in (Session \cup Client) \ {s} : ~Critical(q)
  <2>1. CASE Attempt(s)
    BY <2>1 DEF Attempt, Alone
  <2>2. CASE pc[s] \in {"probe", "remove", "bind", "bound", "chmod"}
    BY <2>2 DEF Undisturbed, Exclusive, Critical
  <2>. QED BY <2>1, <2>2 DEF Starting, Probe, RemoveStale, Bind, Listen, Chmod
<1>3. name[s] \in Seq(NameChars) /\ pc[s] \in Stages \cup Steps
      /\ name \in [Session -> Seq(NameChars)] /\ pc \in [Session \cup Client -> Stages \cup Steps]
  BY DEF IInv, Shape
<1>4. \A q \in Session \ {s} : pc[q] \in {"up", "closing"} => name[q] \in DOMAIN file
  BY DEF Undisturbed, Bound
<1>5. CASE Attempt(s)
  <2>1. UNCHANGED <<file, listening>>
    BY <1>5 DEF Attempt, socketvars
  <2>2. \/ pc'[s] = "no_room"
        \/ pc'[s] = "probe"
        \/ pc'[s] = "bind" /\ name'[s] \notin DOMAIN file
    BY <1>3, <1>5 DEF Attempt, Go
  <2>. QED BY <1>1, <1>2, <1>4, <2>1, <2>2, OnlyOne DEF Bound
<1>6. CASE Probe(s)
  <2>1. UNCHANGED <<file, listening, name>>
    BY <1>6 DEF Probe, socketvars, sessionvars
  <2>2. \/ pc'[s] = "begin"
        \/ pc'[s] = "remove" /\ ~Live(name[s])
    BY <1>3, <1>6 DEF Probe, Go
  <2>. QED BY <1>1, <1>2, <1>4, <2>1, <2>2, OnlyOne DEF Bound, Live
<1>7. CASE RemoveStale(s)
  <2>1. /\ UNCHANGED <<listening, name>>
        /\ DOMAIN file' = DOMAIN file \ {name[s]}
        /\ \A n \in DOMAIN file' : file'[n] = file[n]
    BY <1>7 DEF RemoveStale, Without, sessionvars
  <2>2. pc'[s] = "bind" /\ pc[s] = "remove"
    BY <1>3, <1>7 DEF RemoveStale, Go
  <2>3. ASSUME NEW q \in Session \ {s}, pc[q] \in {"up", "closing"}
        PROVE  name[q] \in DOMAIN file'
    <3>1. name[q] \in DOMAIN file /\ file[name[q]] = q
      BY <2>3 DEF Undisturbed, Bound
    <3>2. Live(name[q])
      BY <2>3, <3>1 DEF IInv, Owners, Serving, Live
    <3>3. ~Live(name[s])
      BY <2>2 DEF Undisturbed
    <3>. QED BY <2>1, <3>1, <3>2, <3>3
  <2>. QED BY <1>1, <1>2, <2>1, <2>2, <2>3, OnlyOne DEF Bound
<1>8. CASE Bind(s)
  <2>1. pc[s] = "bind" /\ name[s] \notin DOMAIN file
    BY <1>8 DEF Bind, Undisturbed
  <2>2. /\ pc'[s] = "bound" /\ UNCHANGED <<listening, name>>
        /\ DOMAIN file' = DOMAIN file \cup {name[s]}
        /\ file'[name[s]] = s
        /\ \A n \in DOMAIN file : file'[n] = file[n]
    BY <1>3, <1>8, <2>1 DEF Bind, Go, With, sessionvars
  <2>. QED BY <1>1, <1>2, <1>4, <2>2, OnlyOne
<1>9. CASE Listen(s)
  <2>1. pc[s] = "bound" /\ pc'[s] = "chmod" /\ UNCHANGED <<file, name>>
    BY <1>3, <1>9 DEF Listen, Go, sessionvars
  <2>2. name[s] \in DOMAIN file /\ file[name[s]] = s
    BY <2>1 DEF Undisturbed, Bound
  <2>. QED BY <1>1, <1>2, <1>4, <2>1, <2>2, OnlyOne
<1>10. CASE Chmod(s)
  <2>1. pc[s] = "chmod" /\ UNCHANGED <<file, name>>
    BY <1>10 DEF Chmod, sessionvars
  <2>2. name[s] \in DOMAIN file /\ file[name[s]] = s
    BY <2>1 DEF Undisturbed, Bound
  <2>3. pc'[s] = "up"
    BY <1>3, <1>10, <2>2 DEF Chmod, Go
  <2>. QED BY <1>1, <1>2, <1>4, <2>1, <2>2, <2>3, OnlyOne
<1>. QED BY <1>5, <1>6, <1>7, <1>8, <1>9, <1>10 DEF Starting

(* ...or of a client that lists...                                         *)
LEMMA AskingUndisturbed ==
  ASSUME ~Overlaps, IInv, Undisturbed, NEW c \in Client, Asking(c)
  PROVE  Undisturbed'
<1>1. pc \in [Session \cup Client -> Stages \cup Steps]
  BY DEF IInv, Shape
<1>2. /\ \A q \in (Session \cup Client) \ {c} : pc'[q] = pc[q]
      /\ pc'[c] \in Steps
      /\ UNCHANGED <<listening, name>>
      /\ \A d \in Client \ {c} : target'[d] = target[d]
  <2>1. \E where \in Steps : pc' = [pc EXCEPT ![c] = where]
    BY DEF Asking, Connect, NoSession, WriteLine, Io, ReadLine, Answered, ReadDir, NextName, Purge,
           Go, Steps
  <2>2. target \in [Client -> Seq(STRING \cup NameChars)]
    BY DEF IInv, Shape
  <2>3. target' = target \/ \E n : target' = [target EXCEPT ![c] = n]
    BY DEF Asking, Connect, WriteLine, ReadLine, ReadDir, NextName, Purge, clientvars
  <2>4. UNCHANGED <<listening, name>>
    BY DEF Asking, Connect, WriteLine, ReadLine, ReadDir, NextName, Purge, socketvars, sessionvars
  <2>. QED BY <1>1, <2>1, <2>2, <2>3, <2>4
<1>3. \A s \in Session : pc'[s] = pc[s]
  BY <1>2, ProcessFacts
<1>4. CASE /\ pc'[c] # "purge"
           /\ \A n \in DOMAIN file' : n \in DOMAIN file /\ file'[n] = file[n]
           /\ \A s \in Session : pc[s] \in Bound => name[s] \in DOMAIN file'
  <2>1. \A p \in Session \cup Client : Critical(p)' => Critical(p)
    BY <1>2, <1>4 DEF Critical, Steps
  <2>2. \A d \in Client : pc'[d] = "purge" => pc[d] = "purge" /\ target'[d] = target[d]
    BY <1>2, <1>4
  <2>3. \A s \in Session :
          /\ pc'[s] \in Bound =>
               pc[s] \in Bound /\ name'[s] = name[s] /\ name[s] \in DOMAIN file'
          /\ pc'[s] \in {"remove", "bind"} => pc'[s] = pc[s] /\ name'[s] = name[s]
          /\ pc'[s] \in {"in_use", "gone"} => pc'[s] = pc[s]
    BY <1>2, <1>3, <1>4
  <2>4. listening' \subseteq listening
    BY <1>2
  <2>5. \A n \in DOMAIN file' : n \in DOMAIN file /\ file'[n] = file[n]
    BY <1>4
  <2>. QED BY <2>1, <2>2, <2>3, <2>4, <2>5, Quiet
<1>5. CASE pc'[c] = "purge"
  <2>1. Connect(c) /\ NoSession(c) /\ Listing(c) /\ Alone(c) /\ ~(valid_name(target[c]) /\ Live(target[c]))
    BY <1>1, <1>5 DEF Asking, Connect, NoSession, WriteLine, Io, ReadLine, Answered, ReadDir, NextName,
                      Purge, Go
  <2>2. valid_name(target[c])
    BY <2>1 DEF IInv, Lists, Connect
  <2>3. UNCHANGED <<file, target>>
    BY <2>1 DEF Connect, socketvars
  <2>4. \A q \in (Session \cup Client) \ {c} : ~Critical(q)
    BY <2>1 DEF Alone
  <2>5. \A s \in Session : pc[s] \in {"up", "closing"} => name[s] \in DOMAIN file
    BY DEF Undisturbed, Bound
  <2>6. ~Live(target[c])'
    BY <1>2, <2>1, <2>2, <2>3 DEF Live
  <2>. QED BY <1>2, <2>3, <2>4, <2>5, <2>6, ProcessFacts, OnlyOne
<1>6. CASE Purge(c)
  <2>1. /\ pc[c] = "purge" /\ pc'[c] = "next"
        /\ DOMAIN file' = DOMAIN file \ {target[c]}
        /\ \A n \in DOMAIN file' : file'[n] = file[n]
    BY <1>1, <1>6 DEF Purge, Purged, Without, Go
  <2>2. ASSUME NEW s \in Session, pc[s] \in Bound PROVE name[s] # target[c]
    <3>1. name[s] \in DOMAIN file /\ file[name[s]] = s
      BY <2>2 DEF Undisturbed
    <3>2. pc[s] # "bound"
      BY <2>1, ProcessFacts DEF Undisturbed, Exclusive, Critical
    <3>3. Live(name[s])
      BY <2>2, <3>1, <3>2 DEF IInv, Owners, Bound, Serving, Live
    <3>. QED BY <2>1, <3>3 DEF Undisturbed
  <2>3. \A s \in Session : pc[s] \in Bound => name[s] \in DOMAIN file'
    BY <2>1, <2>2 DEF Undisturbed
  <2>. QED BY <1>4, <2>1, <2>3
<1>7. CASE pc'[c] # "purge" /\ UNCHANGED file
  BY <1>4, <1>7 DEF Undisturbed
<1>. QED BY <1>5, <1>6, <1>7 DEF Asking, Connect, WriteLine, ReadLine, ReadDir, NextName, socketvars

(* ...and what other sessions do meanwhile leaves them undisturbed.        *)
LEMMA RunningUndisturbed ==
  ASSUME IInv, Undisturbed, NEW s \in Session,
         \/ Run(s) \/ Switch(s) \/ serve_one(s) \/ Leave(s) \/ Unlink(s)
         \/ (pc[s] = "closed" /\ Close(s)) \/ Kill(s)
  PROVE  Undisturbed'
<1>1. /\ pc \in [Session \cup Client -> Stages \cup Steps]
      /\ name \in [Session -> Seq(NameChars)]
  BY DEF IInv, Shape
<1>2. listening' \subseteq listening /\ UNCHANGED target
  BY DEF Run, Switch, serve_one, Leave, Unlink, Close, Kill, socketvars, clientvars
<1>3. /\ \A q \in (Session \cup Client) \ {s} : pc'[q] = pc[q]
      /\ \A q \in Session \ {s} : name'[q] = name[q]
  <2>1. /\ pc' = pc \/ \E where : pc' = [pc EXCEPT ![s] = where]
        /\ name' = name \/ name' = [name EXCEPT ![s] = <<>>]
    BY DEF Run, Switch, serve_one, Leave, Unlink, Close, Kill, Go, sessionvars
  <2>. QED BY <1>1, <2>1
<1>4. /\ pc'[s] \in {"usage", "begin", "closed", "ended"} \/ (pc'[s] = "closing" /\ pc[s] = "up") \/ UNCHANGED pc
      /\ pc'[s] = "closing" \/ UNCHANGED pc => name'[s] = name[s]
  <2>1. CASE Run(s)
    BY <1>1, <2>1 DEF Run, Go
  <2>2. CASE Switch(s) \/ serve_one(s)
    BY <1>1, <2>2 DEF Switch, serve_one, sessionvars
  <2>3. CASE Leave(s)
    BY <1>1, <2>3 DEF Leave, Go, sessionvars
  <2>4. CASE Unlink(s)
    BY <1>1, <2>4 DEF Unlink, Go
  <2>5. CASE Close(s) /\ pc[s] # "ended"
    BY <1>1, <2>5 DEF Close, Go
  <2>. QED BY <2>1, <2>2, <2>3, <2>4, <2>5 DEF Kill
<1>5. \/ UNCHANGED file
      \/ /\ pc[s] = "closing" /\ pc'[s] = "closed"
         /\ DOMAIN file' = DOMAIN file \ {name[s]}
         /\ \A n \in DOMAIN file' : file'[n] = file[n]
  BY <1>1 DEF Run, Switch, serve_one, Leave, Unlink, Close, Kill, Without, Go, socketvars
<1>6. ASSUME NEW q \in Session, pc'[q] \in Bound
      PROVE  pc[q] \in Bound /\ name'[q] = name[q] /\ name[q] \in DOMAIN file'
  <2>1. pc[q] \in Bound /\ name'[q] = name[q]
    BY <1>3, <1>4, <1>6 DEF Bound
  <2>2. name[q] \in DOMAIN file /\ file[name[q]] = q
    BY <2>1 DEF Undisturbed
  <2>3. CASE pc[s] = "closing" /\ pc'[s] = "closed"
    <3>1. q # s /\ pc[s] \in Bound
      BY <1>6, <2>3 DEF Bound
    <3>2. name[q] # name[s]
      BY <2>1, <3>1, OneOwner
    <3>. QED BY <1>5, <2>1, <2>2, <3>2
  <2>. QED BY <1>5, <2>1, <2>2, <2>3
<1>7. \A q \in Session :
        /\ pc'[q] \in {"remove", "bind"} => pc'[q] = pc[q] /\ name'[q] = name[q]
        /\ pc'[q] \in {"in_use", "gone"} => pc'[q] = pc[q]
  BY <1>3, <1>4
<1>8. \A c \in Client : pc'[c] = pc[c]
  BY <1>3, ProcessFacts
<1>9. \A p \in Session \cup Client : Critical(p)' => Critical(p)
  <2>1. \A p \in Session \cup Client : pc'[p] \in {"probe", "remove", "bind", "bound", "chmod", "purge"}
          => pc'[p] = pc[p]
    BY <1>3, <1>4
  <2>. QED BY <2>1 DEF Critical
<1>10. \A n \in DOMAIN file' : n \in DOMAIN file /\ file'[n] = file[n]
  BY <1>5
<1>. QED BY <1>2, <1>6, <1>7, <1>8, <1>9, <1>10, Quiet

(* Every step keeps this.                                                  *)
LEMMA NextUndisturbed == ~Overlaps /\ IInv /\ Undisturbed /\ [Next]_vars => Undisturbed'
<1>. SUFFICES ASSUME ~Overlaps, IInv, Undisturbed, [Next]_vars PROVE Undisturbed'
  OBVIOUS
<1>1. CASE UNCHANGED vars
  BY <1>1 DEF vars, socketvars, given, sessionvars, clientvars,
              Undisturbed, Exclusive, Critical, Live
<1>. QED BY <1>1, StartingUndisturbed, AskingUndisturbed, RunningUndisturbed DEF Next

(* And it holds at the start.                                              *)
LEMMA InitUndisturbed == Init => Undisturbed
<1>. SUFFICES ASSUME Init PROVE Undisturbed
  OBVIOUS
<1>1. /\ \A s \in Session : pc[s] = "idle"
      /\ \A c \in Client : pc[c] \in {"readdir", "ask"}
  BY ProcessFacts DEF Init
<1>. QED BY <1>1 DEF Undisturbed, Exclusive, Critical, Bound

(* While processes do not come between a test and its outcome, a session   *)
(* that runs is found under its name until it ends: the socket of that     *)
(* name is there and is its own.                                           *)
THEOREM SessionsReachable ==
  ASSUME ~Overlaps
  PROVE  Spec => []Reachable
<1>1. IInv /\ Undisturbed => Reachable
  BY DEF Undisturbed, Reachable, Bound
<1>2. Init => IInv /\ Undisturbed
  BY InitIInv, InitUndisturbed
<1>3. IInv /\ Undisturbed /\ [Next]_vars => (IInv /\ Undisturbed)'
  BY NextIInv, NextUndisturbed
<1>. QED BY <1>1, <1>2, <1>3, PTL DEF Spec

(* A session that is about to bind a name that is taken was overtaken.     *)
Overtaken ==
  \A s \in Session :
    pc[s] = "bind" /\ name[s] \in DOMAIN file => file[name[s]] \in Session \ {s}

(* A session is about to bind since its name was free, and a new socket    *)
(* belongs to a session that is not about to bind any more: so it is kept, *)
(* whoever comes between.                                                  *)
LEMMA NextOvertaken == IInv /\ Overtaken /\ [Next]_vars => Overtaken'
<1>. SUFFICES ASSUME IInv, Overtaken, [Next]_vars PROVE Overtaken'
  OBVIOUS
<1>1. /\ pc \in [Session \cup Client -> Stages \cup Steps]
      /\ name \in [Session -> Seq(NameChars)]
      /\ Session \cap Client = {}
  BY ProcessFacts DEF IInv, Shape
<1>. DEFINE Since(q) == pc'[q] = "bind" =>
               (pc[q] = "bind" /\ name'[q] = name[q]) \/ name'[q] \notin DOMAIN file'
            New(n) == \/ n \in DOMAIN file /\ file'[n] = file[n]
                      \/ file'[n] \in Session /\ pc'[file'[n]] # "bind"
            Good == (\A q \in Session : Since(q)) /\ (\A n \in DOMAIN file' : New(n))
<1>2. ASSUME NEW s \in Session, Starting(s) PROVE Good
  <2>1. /\ \A q \in Session \ {s} : pc'[q] = pc[q] /\ name'[q] = name[q]
        /\ Attempt(s) \/ name' = name
    <3>1. /\ \E where : pc' = [pc EXCEPT ![s] = where]
          /\ name' = name \/ (Attempt(s) /\ name' = [name EXCEPT ![s] = name_of(s)])
      BY <1>2 DEF Starting, Attempt, Probe, RemoveStale, Bind, Listen, Chmod, Go, sessionvars
    <3>. QED BY <1>1, <3>1
  <2>2. CASE Attempt(s)
    <3>1. UNCHANGED file /\ (pc'[s] = "bind" => name'[s] \notin DOMAIN file)
      BY <1>1, <2>2 DEF Attempt, Go, socketvars
    <3>. QED BY <2>1, <3>1
  <2>3. CASE RemoveStale(s)
    <3>1. /\ UNCHANGED name /\ DOMAIN file' = DOMAIN file \ {name[s]}
          /\ \A n \in DOMAIN file' : file'[n] = file[n]
      BY <2>3 DEF RemoveStale, Without, sessionvars
    <3>. QED BY <2>1, <3>1
  <2>4. CASE Bind(s)
    <3>1. pc'[s] \in {"in_use", "bound"}
      BY <1>1, <2>4 DEF Bind, Go
    <3>2. UNCHANGED file \/ file' = With(name[s], s)
      BY <2>4 DEF Bind
    <3>3. \A n \in DOMAIN file' : (n \in DOMAIN file /\ file'[n] = file[n]) \/ file'[n] = s
      BY <3>2 DEF With
    <3>. QED BY <2>1, <3>1, <3>3
  <2>5. CASE Probe(s) \/ Listen(s) \/ Chmod(s)
    <3>1. UNCHANGED file /\ pc'[s] \in {"begin", "remove", "chmod", "up", "gone"}
      BY <1>1, <2>5 DEF Probe, Listen, Chmod, Go, socketvars
    <3>. QED BY <2>1, <3>1
  <2>. QED BY <1>2, <2>2, <2>3, <2>4, <2>5 DEF Starting
<1>3. ASSUME NEW s \in Session,
             \/ Run(s) \/ Switch(s) \/ serve_one(s) \/ Leave(s) \/ Unlink(s)
             \/ (pc[s] = "closed" /\ Close(s)) \/ Kill(s)
      PROVE  Good
  <2>1. \A q \in Session \ {s} : pc'[q] = pc[q] /\ name'[q] = name[q]
    <3>1. /\ pc' = pc \/ \E where : pc' = [pc EXCEPT ![s] = where]
          /\ name' = name \/ name' = [name EXCEPT ![s] = <<>>]
      BY <1>3 DEF Run, Switch, serve_one, Leave, Unlink, Close, Kill, Go, sessionvars
    <3>. QED BY <1>1, <3>1
  <2>2. pc'[s] # "bind"
    <3>1. CASE Run(s) \/ Leave(s) \/ Unlink(s) \/ Close(s)
      BY <1>1, <3>1 DEF Run, Leave, Unlink, Close, Go
    <3>2. CASE Switch(s) \/ serve_one(s)
      BY <3>2 DEF Switch, serve_one
    <3>. QED BY <1>3, <3>1, <3>2 DEF Kill
  <2>3. \A n \in DOMAIN file' : n \in DOMAIN file /\ file'[n] = file[n]
    BY <1>3 DEF Run, Switch, serve_one, Leave, Unlink, Close, Kill, Without, socketvars
  <2>. QED BY <2>1, <2>2, <2>3
<1>4. ASSUME NEW c \in Client, Asking(c) PROVE Good
  <2>1. \A s \in Session : pc'[s] = pc[s]
    <3>1. \E where : pc' = [pc EXCEPT ![c] = where]
      BY <1>4 DEF Asking, Connect, NoSession, WriteLine, Io, ReadLine, Answered, ReadDir, NextName,
                  Purge, Go
    <3>. QED BY <1>1, <3>1
  <2>2. UNCHANGED name
    BY <1>4 DEF Asking, Connect, WriteLine, ReadLine, ReadDir, NextName, Purge, sessionvars
  <2>3. \A n \in DOMAIN file' : n \in DOMAIN file /\ file'[n] = file[n]
    BY <1>4 DEF Asking, Connect, WriteLine, ReadLine, ReadDir, NextName, Purge, Purged, Without,
                socketvars
  <2>. QED BY <2>1, <2>2, <2>3
<1>5. CASE UNCHANGED vars
  BY <1>5 DEF vars, socketvars, given, sessionvars, Overtaken
<1>6. ASSUME Good PROVE Overtaken'
  <2>1. SUFFICES ASSUME NEW s \in Session, pc'[s] = "bind", name'[s] \in DOMAIN file'
                 PROVE  file'[name'[s]] \in Session \ {s}
    BY DEF Overtaken
  <2>2. pc[s] = "bind" /\ name'[s] = name[s] /\ New(name'[s])
    BY <1>6, <2>1
  <2>3. CASE name[s] \in DOMAIN file /\ file'[name[s]] = file[name[s]]
    BY <2>2, <2>3 DEF Overtaken
  <2>4. CASE file'[name[s]] \in Session /\ pc'[file'[name[s]]] # "bind"
    BY <2>1, <2>2, <2>4
  <2>. QED BY <2>2, <2>3, <2>4
<1>. HIDE DEF Good
<1>. QED BY <1>2, <1>3, <1>4, <1>5, <1>6 DEF Next

(* A start fails for want of a free name only when another session took    *)
(* the name between the test and bind: never because of a dead socket from *)
(* before or of another program, and not at all while processes do not     *)
(* come between (control.rs:176-192).                                      *)
THEOREM SessionsStart == Spec => []StartsIfRoom
<1>. DEFINE SInv == IInv /\ Overtaken /\ (~Overlaps => Undisturbed)
<1>1. SInv => StartsIfRoom
  BY DEF Undisturbed, Overtaken, StartsIfRoom
<1>2. Init => SInv
  <2>1. Init => Overtaken
    BY DEF Init, Overtaken
  <2>. QED BY <2>1, InitIInv, InitUndisturbed
<1>3. SInv /\ [Next]_vars => SInv'
  <2>1. Overlaps' = Overlaps
    OBVIOUS
  <2>. QED BY <2>1, NextIInv, NextUndisturbed, NextOvertaken
<1>. HIDE DEF SInv
<1>. QED BY <1>1, <1>2, <1>3, PTL DEF Spec

(* What leaves the directory: a socket that a test found dead, or that of  *)
(* a session which is over, which removes its own.                         *)
LEMMA Removals ==
  ASSUME ~Overlaps, IInv, Undisturbed, Next, NEW n \in DOMAIN file, Removed(n)
  PROVE  \/ ~Live(n)
         \/ /\ file[n] \in Session /\ pc[file[n]] = "closing"
            /\ \A c \in Client : pc'[c] = pc[c]
<1>1. pc \in [Session \cup Client -> Stages \cup Steps]
  BY DEF IInv, Shape
<1>2. file' # file
  BY DEF Removed
<1>3. ASSUME NEW s \in Session, RemoveStale(s) PROVE ~Live(n)
  <2>1. n = name[s]
    BY <1>3 DEF RemoveStale, Without, Removed
  <2>. QED BY <1>3, <2>1 DEF RemoveStale, Undisturbed
<1>4. ASSUME NEW s \in Session, Bind(s) PROVE FALSE
  <2>1. name[s] \notin DOMAIN file
    BY <1>4 DEF Bind, Undisturbed
  <2>2. file' = With(name[s], s)
    BY <1>4, <2>1 DEF Bind
  <2>. QED BY <2>1, <2>2 DEF With, Removed
<1>5. ASSUME NEW s \in Session, Unlink(s)
      PROVE  /\ file[n] \in Session /\ pc[file[n]] = "closing"
             /\ \A c \in Client : pc'[c] = pc[c]
  <2>1. n = name[s]
    BY <1>5 DEF Unlink, Without, Removed
  <2>2. pc[s] = "closing" /\ file[n] = s
    BY <1>5, <2>1 DEF Unlink, Undisturbed, Bound
  <2>3. \A c \in Client : pc'[c] = pc[c]
    BY <1>1, <1>5, ProcessFacts DEF Unlink, Go
  <2>. QED BY <2>2, <2>3
<1>6. ASSUME NEW c \in Client, Purge(c) PROVE ~Live(n)
  <2>1. n = target[c]
    BY <1>6 DEF Purge, Purged, Without, Removed
  <2>. QED BY <1>6, <2>1 DEF Purge, Undisturbed
<1>7. \/ \E s \in Session : RemoveStale(s) \/ Bind(s) \/ Unlink(s)
      \/ \E c \in Client : Purge(c)
  BY <1>2 DEF Next, Run, Starting, Attempt, Probe, Listen, Chmod, Switch, serve_one, Leave, Close, Kill,
              Asking, Connect, WriteLine, ReadLine, ReadDir, NextName, socketvars
<1>. QED BY <1>3, <1>4, <1>5, <1>6, <1>7

(* While processes do not come between a test and its outcome, nobody      *)
(* removes the socket of a process that listens, but that process itself.  *)
THEOREM DeadRemovedOnly ==
  ASSUME ~Overlaps
  PROVE  Spec => OnlyDeadRemoved
<1>1. IInv /\ Undisturbed /\ [Next]_vars
        => [\A n \in DOMAIN file :
              Removed(n) /\ Live(n) => file[n] \in Session /\ pc[file[n]] = "closing"]_vars
  BY Removals
<1>2. Init => IInv /\ Undisturbed
  BY InitIInv, InitUndisturbed
<1>3. IInv /\ Undisturbed /\ [Next]_vars => (IInv /\ Undisturbed)'
  BY NextIInv, NextUndisturbed
<1>. QED BY <1>1, <1>2, <1>3, PTL DEF Spec, OnlyDeadRemoved
===============================================================================
