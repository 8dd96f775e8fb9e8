-------------------------- MODULE UbxLink_proofs ---------------------------
(***************************************************************************)
(* Proofs about UbxLink for any number of failures of the line and of the  *)
(* receiver.                                                               *)
(***************************************************************************)
EXTENDS UbxLink, SequenceTheorems, TLAPS

-----------------------------------------------------------------------------
(* Sequences *)

LEMMA NoneIs ==
  ASSUME NEW S, NEW s \in Seq(S)
  PROVE  /\ Len(s) \in Nat
         /\ s = <<>> <=> Len(s) = 0
         /\ \A i \in 1..Len(s) : s[i] \in S
         /\ <<>> \in Seq(S) /\ Len(<<>>) = 0
BY EmptySeq, LenProperties, ElementOfSeq

LEMMA TailIs ==
  ASSUME NEW S, NEW s \in Seq(S), s # <<>>
  PROVE  /\ Len(s) \in Nat \ {0} /\ Head(s) = s[1] /\ s[1] \in S
         /\ Tail(s) \in Seq(S) /\ Len(Tail(s)) = Len(s) - 1
         /\ \A i \in 1..(Len(s) - 1) : Tail(s)[i] = s[i + 1]
<1>1. Len(s) \in Nat \ {0}
  BY NoneIs
<1>2. Tail(s) \in Seq(S) /\ Len(Tail(s)) = Len(s) - 1 /\ Head(s) \in S
      /\ \A i \in 1..Len(Tail(s)) : Tail(s)[i] = s[i + 1]
  BY HeadTailProperties
<1>3. Head(s) = s[1] /\ s[1] \in S
  BY <1>1, ElementOfSeq
<1>4. QED
  BY <1>1, <1>2, <1>3

LEMMA AppendIs ==
  ASSUME NEW S, NEW s \in Seq(S), NEW e \in S
  PROVE  /\ Append(s, e) \in Seq(S) /\ Len(Append(s, e)) = Len(s) + 1
         /\ \A i \in 1..Len(s) : Append(s, e)[i] = s[i]
         /\ Append(s, e)[Len(s) + 1] = e
BY AppendProperties

\* What is left of a line is a part of it.
LEMMA SuffixIs ==
  ASSUME NEW S, NEW s \in Seq(S), NEW r \in Suffixes(s)
  PROVE  /\ r \in Seq(S)
         /\ \A i \in 1..Len(r) : \E j \in 1..Len(s) : r[i] = s[j]
<1>1. CASE r = <<>>
  BY <1>1, EmptySeq
<1>2. CASE \E l \in 1..Len(s) : r = SubSeq(s, l, Len(s))
  <2>1. PICK l \in 1..Len(s) : r = SubSeq(s, l, Len(s))
    BY <1>2
  <2>2. Len(s) \in Nat
    BY LenProperties
  <2>3. r \in Seq(S) /\ Len(r) = Len(s) - l + 1
        /\ \A i \in 1..(Len(s) - l + 1) : r[i] = s[l + i - 1]
    BY <2>1, <2>2, SubSeqProperties
  <2>4. ASSUME NEW i \in 1..Len(r) PROVE \E j \in 1..Len(s) : r[i] = s[j]
    <3>1. l + i - 1 \in 1..Len(s) /\ r[i] = s[l + i - 1]
      BY <2>2, <2>3
    <3> QED
      BY <3>1
  <2> QED
    BY <2>3, <2>4
<1>3. QED
  BY <1>1, <1>2 DEF Suffixes

-----------------------------------------------------------------------------
(* Commands *)

LEMMA ConfigurationIs ==
  /\ Len(Configuration) = 5
  /\ Configuration[1] = "rate" /\ Configuration[2] = "prt" /\ Configuration[3] = "nmea_ubx"
  /\ Configuration[4] = "nmea_std" /\ Configuration[5] = "sbas"
  /\ Head(Configuration) = "rate"
  /\ Range(Configuration) = {"rate", "prt", "nmea_ubx", "nmea_std", "sbas"}
  /\ Command = {"rate", "prt", "nmea_ubx", "nmea_std", "sbas", "nav2", "rst"}
<1>1. /\ Len(Configuration) = 5
      /\ Configuration[1] = "rate" /\ Configuration[2] = "prt" /\ Configuration[3] = "nmea_ubx"
      /\ Configuration[4] = "nmea_std" /\ Configuration[5] = "sbas"
      /\ Head(Configuration) = "rate"
  BY DEF Configuration
<1>2. DOMAIN Configuration = 1..5
  BY DEF Configuration
<1>3. Range(Configuration) = {"rate", "prt", "nmea_ubx", "nmea_std", "sbas"}
  BY <1>1, <1>2 DEF Range
<1>4. QED
  BY <1>1, <1>3 DEF Command, UserCommand

-----------------------------------------------------------------------------
(* The inductive invariant *)

IsCommand(q) == q.of \in Command
IsReply(m) == m.kind \in {"ack", "nak"}

LineTypes ==
  /\ rx \in Seq(Request)
  /\ out \in Seq(Answer \cup {Noise})

Requested == \E i \in 1..Len(rx) : IsCommand(rx[i])
Replied == \E i \in 1..Len(out) : IsReply(out[i])
Noisy == \E i \in 1..Len(out) : out[i] = Noise

\* Commands and their replies are on the line only until the command is given up or understood; a
\* flush that takes the output for another program's doing may leave a reply behind.
Idle ==
  /\ at \notin {"ack", "flush"} => ~Requested
  /\ at \notin {"ack", "flush", "closed"} => ~Replied

\* While an acknowledgement is awaited, the command is the last request on the line, and its reply
\* the only one and the last answer but for noise.
Answering ==
  at = "ack" =>
    /\ \A i \in 1..Len(rx) : IsCommand(rx[i]) => i = Len(rx) /\ rx[i].of = cmd /\ rx[i].new
    /\ \A i \in 1..Len(out) : IsReply(out[i]) =>
         /\ rx = <<>>
         /\ out[i].kind = "ack" => executed
         /\ \A j \in i + 1..Len(out) : ~IsReply(out[j])
         /\ out[i].kind = "ack" /\ cmd = "prt" => \A j \in i + 1..Len(out) : out[j] # Noise
    /\ executed /\ power => cmd \in applied

\* The commands of uart_init that were acknowledged before c is sent
Before(c) ==
  CASE c = "rate" -> {}
    [] c = "prt" -> {"rate"}
    [] c = "nmea_ubx" -> {"rate", "prt"}
    [] c = "nmea_std" -> {"rate", "prt", "nmea_ubx"}
    [] c = "sbas" -> {"rate", "prt", "nmea_ubx", "nmea_std"}
    [] OTHER -> Range(Configuration)

Configured ==
  \/ at \in {"ready", "read", "publish", "failed", "failed on"}
  \/ at = "flush" /\ back # "closed"

InForce ==
  power =>
    /\ at \in {"send", "ack"} => Before(cmd) \subseteq applied
    /\ Configured => Range(Configuration) \subseteq applied

\* Before the port is known to be set to UBX alone
Early ==
  \/ at \in {"closed", "open"}
  \/ at \in {"send", "ack"} /\ cmd \in {"rate", "prt"}
  \/ at = "flush" /\ back = "closed"

NoiseEarly == Noisy => Early

Pending(t) == (\E i \in 1..Len(rx) : rx[i].of = t) \/ (\E i \in 1..Len(out) : out[i].of = t)

\* A poll that began on an empty line: what is still to come is at most what is awaited, and if it
\* is as much, then each part of the fix that is not of this poll is to come.
Whole ==
  clean =>
    /\ at = "read" =>
         /\ Len(rx) + Len(out) <= left
         /\ \A i \in 1..Len(rx) : rx[i].new
         /\ \A i \in 1..Len(out) : out[i].kind = "nav" /\ out[i].new
         /\ Len(rx) + Len(out) = left =>
              /\ fix["status"] = "new" \/ Pending("status")
              /\ \A t \in {"posllh", "velned"} : fix[t] # "old" \/ Pending(t)
    /\ at = "publish" => CleanPollIsWhole

IInv == UbxTypeOK /\ LineTypes /\ Idle /\ Answering /\ InForce /\ NoiseEarly /\ Whole

\* The index of a command of uart_init
LEMMA IndexIs ==
  ASSUME NEW c \in Command, NEW k \in 0..5,
         IF c \in UserCommand THEN k = 0 ELSE k # 0 /\ Configuration[k] = c
  PROVE  SelectInSeq(Configuration, LAMBDA d : d = c) = k
<1> DEFINE I == {i \in 1..Len(Configuration) : Configuration[i] = c}
<1>1. SelectInSeq(Configuration, LAMBDA d : d = c) = IF I # {} THEN Min(I) ELSE 0
  BY DEF SelectInSeq
<1>2. I = IF c \in UserCommand THEN {} ELSE {k}
  <2>1. \A i \in 1..5 : i = 1 \/ i = 2 \/ i = 3 \/ i = 4 \/ i = 5
    OBVIOUS
  <2>2. \A i, j \in 1..5 : Configuration[i] = Configuration[j] => i = j
    BY <2>1, ConfigurationIs
  <2>3. \A i \in 1..5 : Configuration[i] \notin UserCommand
    BY <2>1, ConfigurationIs DEF UserCommand
  <2>4. CASE c \in UserCommand
    BY <2>3, <2>4, ConfigurationIs
  <2>5. CASE c \notin UserCommand
    BY <2>2, <2>5, ConfigurationIs
  <2> QED
    BY <2>4, <2>5
<1> HIDE DEF I
<1>3. CASE c \in UserCommand
  BY <1>1, <1>2, <1>3
<1>4. CASE c \notin UserCommand
  <2>1. Min({k}) = k
    BY DEF Min
  <2> QED
    BY <1>1, <1>2, <1>4, <2>1
<1>5. QED
  BY <1>3, <1>4

LEMMA BeforeIs ==
  /\ Before("rate") = {} /\ Before("prt") = {"rate"}
  /\ Before("nmea_ubx") = {"rate", "prt"} /\ Before("nmea_std") = {"rate", "prt", "nmea_ubx"}
  /\ Before("sbas") = {"rate", "prt", "nmea_ubx", "nmea_std"}
  /\ \A c \in UserCommand : Before(c) = Range(Configuration)
BY DEF Before, UserCommand

\* What follows an acknowledged command: the next one of uart_init, for which one more must have
\* been carried out, or the flush after the last.
LEMMA NextCommandIs ==
  ASSUME cmd \in Command, NextCommand
  PROVE  /\ cmd' \in Command /\ back' \in {back, "ready"}
         /\ \/ /\ at' = "send" /\ Before(cmd') = Before(cmd) \cup {cmd}
               /\ cmd = "rate" => cmd' = "prt"
            \/ /\ at' = "flush" /\ cmd' = cmd /\ Range(Configuration) = Before(cmd) \cup {cmd}
               /\ cmd \notin UserCommand
            \/ at' = "flush" /\ cmd' = cmd /\ cmd \in UserCommand
<1> DEFINE i == SelectInSeq(Configuration, LAMBDA c : c = cmd)
<1>1. IF i \in 1..Len(Configuration) - 1
      THEN at' = "send" /\ cmd' = Configuration[i + 1] /\ back' = back
      ELSE at' = "flush" /\ cmd' = cmd /\ back' = IF cmd \in UserCommand THEN "ready" ELSE back
  BY DEF NextCommand
<1>2. ASSUME NEW k \in 0..5,
             IF cmd \in UserCommand THEN k = 0 ELSE k # 0 /\ Configuration[k] = cmd
      PROVE  i = k
  BY <1>2, IndexIs
<1> HIDE DEF i
<1>3. CASE cmd = "rate"
  <2>1. i = 1
    BY <1>2, <1>3, ConfigurationIs DEF UserCommand
  <2> QED
    BY <1>1, <1>3, <2>1, ConfigurationIs, BeforeIs DEF UserCommand
<1>4. CASE cmd = "prt"
  <2>1. i = 2
    BY <1>2, <1>4, ConfigurationIs DEF UserCommand
  <2> QED
    BY <1>1, <1>4, <2>1, ConfigurationIs, BeforeIs DEF UserCommand
<1>5. CASE cmd = "nmea_ubx"
  <2>1. i = 3
    BY <1>2, <1>5, ConfigurationIs DEF UserCommand
  <2> QED
    BY <1>1, <1>5, <2>1, ConfigurationIs, BeforeIs DEF UserCommand
<1>6. CASE cmd = "nmea_std"
  <2>1. i = 4
    BY <1>2, <1>6, ConfigurationIs DEF UserCommand
  <2> QED
    BY <1>1, <1>6, <2>1, ConfigurationIs, BeforeIs DEF UserCommand
<1>7. CASE cmd = "sbas"
  <2>1. i = 5
    BY <1>2, <1>7, ConfigurationIs DEF UserCommand
  <2> QED
    BY <1>1, <1>7, <2>1, ConfigurationIs, BeforeIs DEF UserCommand
<1>8. CASE cmd \in UserCommand
  <2>1. i = 0
    BY <1>2, <1>8
  <2> QED
    BY <1>1, <1>8, <2>1, ConfigurationIs
<1>9. QED
  BY <1>3, <1>4, <1>5, <1>6, <1>7, <1>8, ConfigurationIs DEF UserCommand

\* The group that is polled begins with the three parts of the fix.
LEMMA GroupIs ==
  ASSUME NEW synced \in BOOLEAN, NEW pollsv \in BOOLEAN
  PROVE  /\ Group(synced, pollsv) \in Seq(NavType)
         /\ Len(Group(synced, pollsv)) \in 3..5
         /\ Awaited(synced, pollsv) = Len(Group(synced, pollsv))
         /\ Group(synced, pollsv)[1] = "status"
         /\ Group(synced, pollsv)[2] = "posllh"
         /\ Group(synced, pollsv)[3] = "velned"
<1>1. /\ PollTypes(synced) \in Seq(NavType) /\ Len(PollTypes(synced)) \in 4..5
      /\ PollTypes(synced)[1] = "status" /\ PollTypes(synced)[2] = "posllh"
      /\ PollTypes(synced)[3] = "velned"
  <2>1. CASE synced
    <3>1. PollTypes(synced) = <<"status", "posllh", "velned", "svinfo">>
      BY <2>1 DEF PollTypes
    <3> QED
      BY <3>1 DEF NavType
  <2>2. CASE ~synced
    <3>1. PollTypes(synced) = <<"status", "posllh", "velned", "timeutc", "svinfo">>
      BY <2>2 DEF PollTypes
    <3> QED
      BY <3>1 DEF NavType
  <2> QED
    BY <2>1, <2>2
<1> DEFINE p == PollTypes(synced)
<1> HIDE DEF p
<1>2. /\ p \in Seq(NavType) /\ Len(p) \in 4..5
      /\ p[1] = "status" /\ p[2] = "posllh" /\ p[3] = "velned"
  BY <1>1 DEF p
<1>3. Group(synced, pollsv) = IF pollsv THEN p ELSE SubSeq(p, 1, Len(p) - 1)
  BY DEF Group, Front, p
<1>4. /\ SubSeq(p, 1, Len(p) - 1) \in Seq(NavType)
      /\ Len(SubSeq(p, 1, Len(p) - 1)) = Len(p) - 1
      /\ \A i \in 1..Len(p) - 1 : SubSeq(p, 1, Len(p) - 1)[i] = p[i]
  BY <1>2, SubSeqProperties
<1>5. CASE pollsv
  BY <1>2, <1>3, <1>5 DEF Awaited
<1>6. CASE ~pollsv
  <2> DEFINE n == Len(p) - 1
  <2>0. n \in 3..5
    BY <1>2
  <2> HIDE DEF n
  <2>1. 1 \in 1..n /\ 2 \in 1..n /\ 3 \in 1..n
    BY <2>0
  <2> QED
    BY <1>2, <1>3, <1>4, <1>6, <2>1 DEF Awaited, n
<1>7. QED
  BY <1>5, <1>6

\* The type invariant in the words of the proofs
LEMMA TypeIs ==
  UbxTypeOK <=>
    /\ at \in At /\ cmd \in Command
    /\ back \in {"ready", "failed", "failed on", "closed"}
    /\ left \in 0..5
    /\ at = "read" => left > 0
    /\ time_synced \in BOOLEAN /\ uart_conflict \in BOOLEAN
    /\ fix \in [FixType -> {"none", "new", "old"}]
    /\ power \in BOOLEAN /\ applied \in SUBSET Command
    /\ Range(rx) \subseteq Request /\ Range(out) \subseteq Answer \cup {Noise}
    /\ executed \in BOOLEAN /\ clean \in BOOLEAN /\ faults \in 0..MaxFaults
<1>1. Len(PollTypes(FALSE)) = 5
  BY DEF PollTypes
<1>2. QED
  BY <1>1 DEF UbxTypeOK

-----------------------------------------------------------------------------
(* What the steps do to the line *)

LEMMA RangeIs ==
  ASSUME NEW S, NEW s \in Seq(S)
  PROVE  Range(s) \subseteq S
<1>1. DOMAIN s = 1..Len(s)
  BY LenProperties
<1>2. QED
  BY <1>1, NoneIs DEF Range

LEMMA MessagesAre ==
  /\ \A q \in Request : q.of \in Command \cup NavType /\ q.new \in BOOLEAN
  /\ \A m \in Answer \cup {Noise} : m.kind \in {"nav", "ack", "nak", "noise"}
  /\ \A m \in Answer : m.kind # "noise" /\ m # Noise /\ m.new \in BOOLEAN
  /\ Noise.kind = "noise" /\ ~IsReply(Noise)
  /\ Noise.new = FALSE
  /\ Command \cap NavType = {}
<1>1. \A q \in Request : q.of \in Command \cup NavType /\ q.new \in BOOLEAN
  BY DEF Request
<1>2. \A m \in Answer : m.kind \in {"nav", "ack", "nak"} /\ m.new \in BOOLEAN
  BY DEF Answer
<1>3. Noise.kind = "noise" /\ Noise.new = FALSE
  BY DEF Noise
<1>4. \A m \in Answer : m # Noise
  BY <1>2, <1>3
<1>5. Command \cap NavType = {}
  BY ConfigurationIs DEF NavType
<1>6. QED
  BY <1>1, <1>2, <1>3, <1>4, <1>5 DEF IsReply

\* A message is read.
LEMMA ReadIs ==
  ASSUME LineTypes, out # <<>>, out' = Tail(out), rx' = rx
  PROVE  /\ LineTypes'
         /\ Requested' <=> Requested
         /\ Replied' => Replied
         /\ Noisy' => Noisy
         /\ Len(out) \in Nat \ {0} /\ Len(out') = Len(out) - 1 /\ Head(out) = out[1]
         /\ out[1] \in Answer \cup {Noise}
         /\ \A i \in 1..Len(out') : out'[i] = out[i + 1] /\ i + 1 \in 1..Len(out)
<1>1. /\ Len(out) \in Nat \ {0} /\ Head(out) = out[1] /\ out[1] \in Answer \cup {Noise}
      /\ out' \in Seq(Answer \cup {Noise}) /\ Len(out') = Len(out) - 1
      /\ \A i \in 1..(Len(out) - 1) : out'[i] = out[i + 1]
  BY TailIs DEF LineTypes
<1>2. \A i \in 1..Len(out') : out'[i] = out[i + 1] /\ i + 1 \in 1..Len(out)
  BY <1>1
<1>3. LineTypes'
  BY <1>1 DEF LineTypes
<1>4. (Requested' <=> Requested) /\ (Replied' => Replied) /\ (Noisy' => Noisy)
  BY <1>2 DEF Requested, Replied, Noisy
<1>5. QED
  BY <1>1, <1>2, <1>3, <1>4

\* What the line held before a request is older than it, and otherwise the same.
LEMMA AgedIs ==
  ASSUME NEW s \in Seq(Answer \cup {Noise})
  PROVE  /\ Aged(s) \in Seq(Answer \cup {Noise}) /\ Len(Aged(s)) = Len(s)
         /\ \A i \in 1..Len(s) :
              Aged(s)[i].kind = s[i].kind /\ (Aged(s)[i] = Noise <=> s[i] = Noise)
<1>1. Len(s) \in Nat /\ DOMAIN s = 1..Len(s) /\ \A i \in 1..Len(s) : s[i] \in Answer \cup {Noise}
  BY LenProperties, ElementOfSeq
<1>2. [Noise EXCEPT !.new = FALSE] = Noise
  <2>1. Noise.new = FALSE /\ Noise \in [kind : {"noise"}, of : {"none"}, new : {FALSE}]
    BY DEF Noise
  <2>2. \A n \in [kind : {"noise"}, of : {"none"}, new : {FALSE}] : [n EXCEPT !.new = FALSE] = n
    OBVIOUS
  <2> QED
    BY <2>1, <2>2
<1>3. ASSUME NEW m \in Answer \cup {Noise}
      PROVE  LET o == [m EXCEPT !.new = FALSE]
             IN  o \in Answer \cup {Noise} /\ o.kind = m.kind /\ (o = Noise <=> m = Noise)
  <2>1. CASE m \in Answer
    <3> DEFINE o == [m EXCEPT !.new = FALSE]
    <3>1. o \in Answer /\ o.kind = m.kind
      BY <2>1 DEF Answer
    <3> HIDE DEF o
    <3>2. o # Noise /\ m # Noise
      BY <2>1, <3>1, MessagesAre
    <3> QED
      BY <3>1, <3>2 DEF o
  <2>2. CASE m = Noise
    BY <1>2, <2>2
  <2> QED
    BY <2>1, <2>2
<1> DEFINE a == Aged(s)
<1>4. a = [i \in 1..Len(s) |-> [s[i] EXCEPT !.new = FALSE]]
  BY <1>1 DEF Aged
<1> HIDE DEF a
<1>5. \A i \in 1..Len(s) : a[i] = [s[i] EXCEPT !.new = FALSE]
  BY <1>4
<1>6. \A i \in 1..Len(s) : a[i].kind = s[i].kind /\ (a[i] = Noise <=> s[i] = Noise)
  BY <1>1, <1>3, <1>5
<1>7. a \in [1..Len(s) -> Answer \cup {Noise}] /\ DOMAIN a = 1..Len(s)
  <2>1. \A i \in 1..Len(s) : [s[i] EXCEPT !.new = FALSE] \in Answer \cup {Noise}
    BY <1>1, <1>3
  <2> QED
    BY <1>4, <2>1
<1>8. a \in Seq(Answer \cup {Noise})
  BY <1>1, <1>7, SeqDef
<1>9. Len(a) = Len(s)
  BY <1>1, <1>7, <1>8, LenProperties
<1>10. QED
  BY <1>6, <1>8, <1>9 DEF a

LEMMA AgedOut ==
  ASSUME LineTypes, out' = Aged(out)
  PROVE  /\ out' \in Seq(Answer \cup {Noise}) /\ Len(out') = Len(out)
         /\ Replied' <=> Replied
         /\ Noisy' <=> Noisy
<1> DEFINE a == Aged(out)
<1>1. out \in Seq(Answer \cup {Noise}) /\ out' = a
  BY DEF LineTypes
<1>2. /\ a \in Seq(Answer \cup {Noise}) /\ Len(a) = Len(out)
      /\ \A i \in 1..Len(out) : a[i].kind = out[i].kind /\ (a[i] = Noise <=> out[i] = Noise)
  BY <1>1, AgedIs
<1> HIDE DEF a
<1>3. /\ out' \in Seq(Answer \cup {Noise}) /\ Len(out') = Len(out)
      /\ \A i \in 1..Len(out) : out'[i].kind = out[i].kind /\ (out'[i] = Noise <=> out[i] = Noise)
  BY <1>1, <1>2
<1>4. Replied' <=> Replied
  BY <1>3 DEF Replied, IsReply
<1>5. Noisy' <=> Noisy
  BY <1>3 DEF Noisy
<1>6. QED
  BY <1>3, <1>4, <1>5

LEMMA AgedRx ==
  ASSUME LineTypes
  PROVE  /\ Aged(rx) \in Seq(Request) /\ Len(Aged(rx)) = Len(rx)
         /\ \A i \in 1..Len(rx) : Aged(rx)[i].of = rx[i].of
<1>1. Len(rx) \in Nat /\ DOMAIN rx = 1..Len(rx) /\ \A i \in 1..Len(rx) : rx[i] \in Request
  BY LenProperties, ElementOfSeq DEF LineTypes
<1>2. ASSUME NEW q \in Request
      PROVE  LET o == [q EXCEPT !.new = FALSE] IN o \in Request /\ o.of = q.of
  BY DEF Request
<1> DEFINE aged == Aged(rx)
<1>3. aged = [i \in 1..Len(rx) |-> [rx[i] EXCEPT !.new = FALSE]]
  BY <1>1 DEF Aged
<1> HIDE DEF aged
<1>4. \A i \in 1..Len(rx) : aged[i] = [rx[i] EXCEPT !.new = FALSE]
  BY <1>3
<1>5. \A i \in 1..Len(rx) : aged[i] \in Request /\ aged[i].of = rx[i].of
  BY <1>1, <1>2, <1>4
<1>6. aged \in [1..Len(rx) -> Request] /\ DOMAIN aged = 1..Len(rx)
  BY <1>3, <1>5
<1>7. aged \in Seq(Request)
  BY <1>1, <1>6, SeqDef
<1>8. Len(aged) = Len(rx)
  BY <1>1, <1>6, <1>7, LenProperties
<1>9. QED
  BY <1>5, <1>7, <1>8 DEF aged

\* New requests follow what is on the line; a receiver without power gets none of them.
LEMMA SentIs ==
  ASSUME LineTypes, NEW types \in Seq(Command \cup NavType), rx' = Sent(Requests(types))
  PROVE  /\ rx' \in Seq(Request)
         /\ Len(rx') = IF power THEN Len(rx) + Len(types) ELSE 0
         /\ Len(rx) \in Nat /\ Len(types) \in Nat
         /\ power => \A i \in 1..Len(rx) : rx'[i].of = rx[i].of
         /\ power => \A i \in 1..Len(types) : /\ rx'[Len(rx) + i].of = types[i]
                                              /\ rx'[Len(rx) + i].new
<1>1. Len(types) \in Nat /\ DOMAIN types = 1..Len(types) /\ Len(rx) \in Nat
      /\ \A i \in 1..Len(types) : types[i] \in Command \cup NavType
  BY LenProperties, ElementOfSeq DEF LineTypes
<1> DEFINE r == Requests(types)
<1>2. r = [i \in 1..Len(types) |-> [of |-> types[i], new |-> TRUE]]
  BY <1>1 DEF Requests
<1> HIDE DEF r
<1>3. \A i \in 1..Len(types) : r[i].of = types[i] /\ r[i].new /\ r[i] \in Request
  BY <1>1, <1>2 DEF Request
<1>4. r \in [1..Len(types) -> Request] /\ DOMAIN r = 1..Len(types)
  BY <1>2, <1>3
<1>5. r \in Seq(Request)
  BY <1>1, <1>4, SeqDef
<1>6. Len(r) = Len(types)
  BY <1>1, <1>4, <1>5, LenProperties
<1> DEFINE a == Aged(rx)
<1> HIDE DEF a
<1>7. a \in Seq(Request) /\ Len(a) = Len(rx) /\ \A i \in 1..Len(rx) : a[i].of = rx[i].of
  BY AgedRx DEF a
<1>8. CASE ~power
  <2>1. rx' = <<>>
    BY <1>8 DEF Sent
  <2> QED
    BY <1>1, <1>8, <2>1, EmptySeq
<1>9. CASE power
  <2>1. rx' = a \o r
    BY <1>9 DEF Sent, a, r
  <2> DEFINE c == a \o r
  <2>0. /\ c \in Seq(Request) /\ Len(c) = Len(a) + Len(r)
        /\ \A i \in 1..Len(a) + Len(r) : c[i] = IF i <= Len(a) THEN a[i] ELSE r[i - Len(a)]
    <3>1. a \in Seq(Request) /\ r \in Seq(Request)
      BY <1>5, <1>7
    <3> QED
      BY <3>1, ConcatProperties
  <2> HIDE DEF c
  <2>2. /\ rx' \in Seq(Request) /\ Len(rx') = Len(a) + Len(r)
        /\ \A i \in 1..Len(a) + Len(r) : rx'[i] = IF i <= Len(a) THEN a[i] ELSE r[i - Len(a)]
    BY <2>0, <2>1 DEF c
  <2>3. \A i \in 1..Len(rx) : rx'[i].of = rx[i].of
    BY <1>1, <1>6, <1>7, <2>2
  <2>4. ASSUME NEW i \in 1..Len(types) PROVE rx'[Len(rx) + i] = r[i]
    <3>1. Len(rx) + i \in 1..Len(a) + Len(r) /\ ~(Len(rx) + i <= Len(a))
          /\ Len(rx) + i - Len(a) = i
      BY <1>1, <1>6, <1>7
    <3>2. rx'[Len(rx) + i] = r[Len(rx) + i - Len(a)]
      BY <2>2, <3>1
    <3> QED
      BY <3>1, <3>2
  <2>5. \A i \in 1..Len(types) : rx'[Len(rx) + i].of = types[i] /\ rx'[Len(rx) + i].new
    BY <1>3, <1>6, <2>4
  <2>6. Len(rx') = Len(rx) + Len(types)
    BY <1>6, <1>7, <2>2
  <2> QED
    BY <1>1, <1>9, <2>2, <2>3, <2>5, <2>6
<1>10. QED
  BY <1>8, <1>9

-----------------------------------------------------------------------------
(* The steps of the thread that lead neither to waiting for an answer nor to publishing one *)

LEMMA TypesThen ==
  ASSUME LineTypes', at' \in At, cmd' \in Command,
         back' \in {"ready", "failed", "failed on", "closed"},
         left' \in 0..5, at' = "read" => left' > 0,
         time_synced' \in BOOLEAN, uart_conflict' \in BOOLEAN,
         fix' \in [FixType -> {"none", "new", "old"}],
         power' \in BOOLEAN, applied' \in SUBSET Command,
         executed' \in BOOLEAN, clean' \in BOOLEAN, faults' \in 0..MaxFaults
  PROVE  UbxTypeOK'
<1>1. Range(rx') \subseteq Request /\ Range(out') \subseteq Answer \cup {Noise}
  BY RangeIs DEF LineTypes
<1>2. Len(PollTypes(FALSE)) = 5
  BY DEF PollTypes
<1>3. QED
  BY <1>1, <1>2 DEF UbxTypeOK

LEMMA TypesNow ==
  ASSUME IInv
  PROVE  /\ LineTypes /\ at \in At /\ cmd \in Command
         /\ back \in {"ready", "failed", "failed on", "closed"}
         /\ left \in 0..5
         /\ at = "read" => left > 0
         /\ time_synced \in BOOLEAN /\ uart_conflict \in BOOLEAN
         /\ fix \in [FixType -> {"none", "new", "old"}]
         /\ power \in BOOLEAN /\ applied \in SUBSET Command
         /\ executed \in BOOLEAN /\ clean \in BOOLEAN /\ faults \in 0..MaxFaults
BY TypeIs DEF IInv

LEMMA FaultIs ==
  ASSUME IInv, Fault PROVE faults' \in 0..MaxFaults
<1>1. faults \in 0..MaxFaults /\ MaxFaults \in Nat /\ faults < MaxFaults /\ faults' = faults + 1
  BY FaultAssumption, TypesNow DEF Fault
<1>2. QED
  BY <1>1

LEMMA StepKeeps ==
  ASSUME UbxTypeOK', LineTypes', at' \notin {"ack", "read", "publish"},
         at' # "flush" => ~Requested',
         at' \notin {"flush", "closed"} => ~Replied',
         InForce', Noisy' => Early'
  PROVE  IInv'
BY DEF IInv, Idle, Answering, NoiseEarly, Whole

\* With nothing new on the line
LEMMA SameLine ==
  ASSUME LineTypes, rx' = rx, out' = out
  PROVE  /\ LineTypes'
         /\ Requested' <=> Requested
         /\ Replied' <=> Replied
         /\ Noisy' <=> Noisy
BY DEF LineTypes, Requested, Replied, Noisy

LEMMA EmptyLine ==
  ASSUME out' = <<>>, rx' \in Seq(Request)
  PROVE  LineTypes' /\ ~Replied' /\ ~Noisy'
BY NoneIs, EmptySeq DEF LineTypes, Replied, Noisy

LEMMA NoRequests ==
  ASSUME rx' = <<>> PROVE rx' \in Seq(Request) /\ ~Requested'
BY EmptySeq DEF Requested

LEMMA PowerOnKeeps ==
  ASSUME IInv, at \in {"closed", "failed"}, NEW return \in {"ready", "failed on"},
         GpsDevicePowerOn(return), UNCHANGED <<cmd, left, dataVars, auxVars>>
  PROVE  IInv'
<1> USE TypesNow
<1>1. at' = "open" /\ back' = return /\ uart_conflict' = FALSE /\ out' = <<>>
  BY DEF GpsDevicePowerOn
<1>2. ~Requested
  BY DEF IInv, Idle
<1>3. rx' \in Seq(Request) /\ ~Requested' /\ power' \in BOOLEAN /\ applied' \in SUBSET Command
      /\ faults' \in 0..MaxFaults
  <2>1. CASE power' = TRUE /\ applied' = {} /\ rx' = <<>> /\ UNCHANGED faults
    BY <2>1, NoRequests
  <2>2. CASE Fault /\ UNCHANGED receiverVars
    BY <1>2, <2>2, FaultIs DEF receiverVars, Requested, LineTypes
  <2> QED
    BY <2>1, <2>2 DEF GpsDevicePowerOn
<1>4. LineTypes' /\ ~Replied' /\ ~Noisy'
  BY <1>1, <1>3, EmptyLine
<1>5. UbxTypeOK'
  BY <1>1, <1>3, <1>4, TypesThen DEF At, dataVars, auxVars
<1>6. InForce'
  BY <1>1 DEF InForce, Configured
<1>7. QED
  BY <1>1, <1>3, <1>4, <1>5, <1>6, StepKeeps

LEMMA StartKeeps ==
  ASSUME IInv, Start PROVE IInv'
BY PowerOnKeeps DEF Start

LEMMA OpenUartKeeps ==
  ASSUME IInv, OpenUart PROVE IInv'
<1> USE TypesNow
<1>1. /\ at = "open" /\ out # <<>> /\ out' = Tail(out) /\ at' = "send" /\ cmd' = "rate"
      /\ fix' = [t \in FixType |-> "none"]
      /\ UNCHANGED <<back, left, time_synced, receiverVars, auxVars, uart_conflict, faults>>
  BY ConfigurationIs DEF OpenUart
<1>2. ~Requested /\ ~Replied
  BY <1>1 DEF IInv, Idle
<1>3. LineTypes' /\ ~Requested' /\ ~Replied'
  BY <1>1, <1>2, ReadIs DEF receiverVars
<1>4. fix' \in [FixType -> {"none", "new", "old"}] /\ cmd' \in Command
  BY <1>1, ConfigurationIs
<1>5. UbxTypeOK'
  BY <1>1, <1>3, <1>4, TypesThen DEF At, receiverVars, auxVars
<1>6. InForce'
  BY <1>1, BeforeIs DEF InForce, Configured
<1>7. Early'
  BY <1>1 DEF Early
<1>8. QED
  BY <1>1, <1>3, <1>5, <1>6, <1>7, StepKeeps

LEMMA OpenFailsKeeps ==
  ASSUME IInv, OpenFails PROVE IInv'
<1> USE TypesNow
<1>1. /\ at = "open" /\ Fault /\ at' = "closed"
      /\ UNCHANGED <<cmd, back, left, dataVars, receiverVars, auxVars, uart_conflict, out>>
  BY DEF OpenFails
<1>2. LineTypes' /\ ~Requested'
  BY <1>1, SameLine DEF IInv, Idle, receiverVars
<1>3. UbxTypeOK'
  BY <1>1, <1>2, FaultIs, TypesThen DEF At, dataVars, receiverVars, auxVars
<1>4. InForce' /\ Early'
  BY <1>1 DEF InForce, Configured, Early
<1>5. QED
  BY <1>1, <1>2, <1>3, <1>4, StepKeeps

\* A command is given up: a user's leads back to the polling, one of uart_init does not.
LEMMA GiveUpIs ==
  ASSUME IInv, at \in {"send", "ack"}, NEW flushed \in BOOLEAN, GiveUp(flushed),
         UNCHANGED <<cmd, power, applied>>
  PROVE  /\ at' \in {"flush", "closed"} /\ back' \in {"ready", "failed", "failed on", "closed"}
         /\ at' = "closed" => ~flushed
         /\ InForce'
         /\ Early => Early'
<1>1. CASE cmd \in UserCommand
  <2>1. at' = "flush" /\ back' = "ready"
    BY <1>1 DEF GiveUp
  <2>2. power => Range(Configuration) \subseteq applied
    BY <1>1, BeforeIs DEF IInv, InForce
  <2>3. ~Early
    BY <1>1 DEF Early, UserCommand
  <2> QED
    BY <2>1, <2>2, <2>3 DEF InForce
<1>2. CASE cmd \notin UserCommand
  <2>1. \/ at' = "flush" /\ back' = "closed"
        \/ at' = "closed" /\ back' = back /\ ~flushed
    BY <1>2 DEF GiveUp
  <2> QED
    BY <2>1, TypesNow DEF InForce, Configured, Early
<1>3. QED
  BY <1>1, <1>2

LEMMA SendFailsKeeps ==
  ASSUME IInv, SendFails PROVE IInv'
<1> USE TypesNow
<1>1. /\ at = "send" /\ Fault /\ GiveUp(FALSE)
      /\ UNCHANGED <<cmd, left, dataVars, receiverVars, auxVars, uart_conflict, out>>
  BY DEF SendFails
<1>2. /\ at' \in {"flush", "closed"} /\ back' \in {"ready", "failed", "failed on", "closed"}
      /\ InForce'
      /\ Early => Early'
  BY <1>1, GiveUpIs DEF receiverVars
<1>3. LineTypes' /\ ~Requested' /\ (Noisy' => Early)
  BY <1>1, SameLine DEF IInv, Idle, NoiseEarly, receiverVars
<1>4. UbxTypeOK'
  BY <1>1, <1>2, <1>3, FaultIs, TypesThen DEF At, dataVars, receiverVars, auxVars
<1>5. QED
  BY <1>2, <1>3, <1>4, StepKeeps

LEMMA BadAckKeeps ==
  ASSUME IInv, BadAck PROVE IInv'
<1> USE TypesNow
<1>1. /\ at = "ack" /\ out # <<>> /\ out' = Tail(out) /\ GiveUp(TRUE)
      /\ UNCHANGED <<cmd, left, dataVars, receiverVars, auxVars, uart_conflict, faults>>
  BY DEF BadAck
<1>2. /\ at' = "flush" /\ back' \in {"ready", "failed", "failed on", "closed"}
      /\ InForce'
      /\ Early => Early'
  BY <1>1, GiveUpIs DEF receiverVars
<1>3. LineTypes' /\ (Noisy' => Early)
  BY <1>1, ReadIs DEF IInv, NoiseEarly, receiverVars
<1>4. UbxTypeOK'
  BY <1>1, <1>2, <1>3, TypesThen DEF At, dataVars, receiverVars, auxVars
<1>5. QED
  BY <1>2, <1>3, <1>4, StepKeeps

LEMMA TimeOutKeeps ==
  ASSUME IInv, TimeOut PROVE IInv'
<1> USE TypesNow
<1>1. /\ out = <<>> /\ out' = <<>>
      /\ \/ at = "ack" /\ GiveUp(TRUE)
         \/ at = "read" /\ at' = "flush" /\ back' = "failed"
      /\ UNCHANGED <<cmd, left, dataVars, receiverVars, auxVars, uart_conflict>>
      /\ faults' \in 0..MaxFaults
  BY FaultIs DEF TimeOut, NoAnswer
<1>2. at' = "flush" /\ back' \in {"ready", "failed", "failed on", "closed"} /\ InForce'
  <2>1. CASE at = "ack" /\ GiveUp(TRUE)
    BY <1>1, <2>1, GiveUpIs DEF receiverVars
  <2>2. CASE at = "read" /\ at' = "flush" /\ back' = "failed"
    BY <1>1, <2>2 DEF IInv, InForce, Configured, receiverVars
  <2> QED
    BY <1>1, <2>1, <2>2
<1>3. LineTypes' /\ ~Noisy'
  BY <1>1, EmptyLine DEF LineTypes, receiverVars
<1>4. UbxTypeOK'
  BY <1>1, <1>2, <1>3, TypesThen DEF At, dataVars, receiverVars, auxVars
<1>5. QED
  BY <1>2, <1>3, <1>4, StepKeeps

LEMMA FlushKeeps ==
  ASSUME IInv, Flush PROVE IInv'
<1> USE TypesNow
<1>1. /\ at = "flush" /\ rx = <<>> /\ rx' = <<>> /\ at' = back
      /\ \/ out' = <<>> /\ UNCHANGED uart_conflict
         \/ Contains(out, Noise) /\ out' \in Suffixes(out) /\ uart_conflict' = TRUE
      /\ UNCHANGED <<cmd, back, left, dataVars, receiverVars, auxVars, faults>>
  BY DEF Flush, Settled, receiverVars
<1>2. rx' \in Seq(Request) /\ ~Requested'
  BY <1>1, NoRequests
<1>3. LineTypes' /\ uart_conflict' \in BOOLEAN /\ (back # "closed" => ~Replied' /\ ~Noisy')
  <2>1. CASE out' = <<>> /\ UNCHANGED uart_conflict
    BY <1>2, <2>1, EmptyLine
  <2>2. CASE Contains(out, Noise) /\ out' \in Suffixes(out) /\ uart_conflict' = TRUE
    <3>1. Noisy
      BY <2>2 DEF Contains, Noisy
    <3>2. back = "closed"
      BY <1>1, <3>1 DEF IInv, NoiseEarly, Early
    <3>3. out' \in Seq(Answer \cup {Noise})
      BY <2>2, SuffixIs DEF LineTypes
    <3> QED
      BY <1>2, <2>2, <3>2, <3>3 DEF LineTypes
  <2> QED
    BY <1>1, <2>1, <2>2
<1>4. UbxTypeOK'
  BY <1>1, <1>3, TypesThen DEF At, dataVars, receiverVars, auxVars
<1>5. InForce'
  BY <1>1 DEF IInv, InForce, Configured, receiverVars
<1>6. Noisy' => Early'
  BY <1>1, <1>3 DEF Early
<1>7. QED
  BY <1>1, <1>2, <1>3, <1>4, <1>5, <1>6, StepKeeps

LEMMA NavRequests ==
  ASSUME LineTypes, ~Requested, NEW types \in Seq(NavType), rx' = Sent(Requests(types)),
         out' = Aged(out)
  PROVE  /\ LineTypes' /\ ~Requested'
         /\ Replied' <=> Replied
         /\ Noisy' <=> Noisy
<1>1. types \in Seq(Command \cup NavType) /\ \A i \in 1..Len(types) : types[i] \in NavType
  <2>1. \A i \in 1..Len(types) : types[i] \in NavType
    BY ElementOfSeq
  <2>2. types \in [1..Len(types) -> Command \cup NavType] /\ Len(types) \in Nat
    BY <2>1, SeqDef, LenProperties
  <2> QED
    BY <2>1, <2>2, SeqDef
<1>2. /\ rx' \in Seq(Request)
      /\ Len(rx') = IF power THEN Len(rx) + Len(types) ELSE 0
      /\ Len(rx) \in Nat /\ Len(types) \in Nat
      /\ power => \A i \in 1..Len(rx) : rx'[i].of = rx[i].of
      /\ power => \A i \in 1..Len(types) : rx'[Len(rx) + i].of = types[i]
  BY <1>1, SentIs
<1>3. ~Requested'
  <2> SUFFICES ASSUME NEW i \in 1..Len(rx'), IsCommand(rx'[i]) PROVE FALSE
    BY DEF Requested, IsCommand
  <2>1. power /\ i \in 1..(Len(rx) + Len(types))
    BY <1>2
  <2>2. CASE i <= Len(rx)
    <3>1. i \in 1..Len(rx) /\ rx'[i].of = rx[i].of
      BY <1>2, <2>1, <2>2
    <3> QED
      BY <3>1 DEF Requested, IsCommand
  <2>3. CASE i > Len(rx)
    <3> DEFINE j == i - Len(rx)
    <3>1. j \in 1..Len(types) /\ i = Len(rx) + j
      BY <1>2, <2>1, <2>3
    <3> HIDE DEF j
    <3>2. rx'[i].of \in NavType
      BY <1>1, <1>2, <2>1, <3>1
    <3> QED
      BY <3>2, MessagesAre DEF IsCommand
  <2> QED
    BY <1>2, <2>2, <2>3
<1>4. QED
  BY <1>2, <1>3, AgedOut DEF LineTypes

LEMMA PollWriteFailsKeeps ==
  ASSUME IInv, PollWriteFails PROVE IInv'
<1>0. LineTypes /\ time_synced \in BOOLEAN /\ fix \in [FixType -> {"none", "new", "old"}]
  BY TypesNow
<1>1. /\ at = "ready" /\ Fault /\ out' = Aged(out) /\ at' = "failed"
      /\ fix' = [t \in FixType |-> IF fix[t] = "new" THEN "old" ELSE fix[t]]
      /\ UNCHANGED <<cmd, back, left, time_synced, power, applied, auxVars, uart_conflict>>
  BY DEF PollWriteFails
<1>2. PICK types \in Seq(NavType) : rx' = Sent(Requests(types))
  <2>1. PICK pollsv \in BOOLEAN : \E sent \in Prefixes(Group(time_synced, pollsv)) :
          rx' = Sent(Requests(sent))
    BY DEF PollWriteFails
  <2> DEFINE g == Group(time_synced, pollsv)
  <2>2. g \in Seq(NavType)
    BY <1>0, GroupIs
  <2> HIDE DEF g
  <2>3. PICK sent \in Prefixes(g) : rx' = Sent(Requests(sent))
    BY <2>1 DEF g
  <2>4. PICK l \in 0..Len(g) : sent = SubSeq(g, 1, l)
    BY DEF Prefixes
  <2>5. Len(g) \in Nat /\ \A i \in 1..Len(g) : g[i] \in NavType
    BY <2>2, LenProperties, ElementOfSeq
  <2>6. sent \in Seq(NavType)
    <3>1. l \in Int /\ \A i \in 1..l : g[i] \in NavType
      BY <2>5
    <3> QED
      BY <2>4, <3>1, SubSeqProperties
  <2> QED
    BY <2>3, <2>6
<1>3. LineTypes' /\ ~Requested' /\ ~Replied' /\ ~Noisy'
  BY <1>0, <1>1, <1>2, NavRequests DEF IInv, Idle, NoiseEarly, Early
<1>4. fix' \in [FixType -> {"none", "new", "old"}]
  BY <1>0, <1>1
<1>5. UbxTypeOK'
  BY <1>1, <1>3, <1>4, FaultIs, TypesNow, TypesThen DEF At, auxVars
<1>6. InForce'
  BY <1>1 DEF IInv, InForce, Configured
<1>7. QED
  BY <1>1, <1>3, <1>5, <1>6, StepKeeps

LEMMA ParseFailsKeeps ==
  ASSUME IInv, ParseFails PROVE IInv'
<1> USE TypesNow
<1>1. /\ at = "read" /\ out # <<>> /\ out' = Tail(out) /\ at' = "failed"
      /\ UNCHANGED <<cmd, back, left, dataVars, receiverVars, auxVars, uart_conflict>>
      /\ faults' \in 0..MaxFaults
  BY FaultIs DEF ParseFails
<1>2. LineTypes' /\ ~Requested' /\ ~Replied' /\ ~Noisy'
  BY <1>1, ReadIs DEF IInv, Idle, NoiseEarly, Early, receiverVars
<1>3. UbxTypeOK'
  BY <1>1, <1>2, TypesThen DEF At, dataVars, receiverVars, auxVars
<1>4. InForce'
  BY <1>1 DEF IInv, InForce, Configured, receiverVars
<1>5. QED
  BY <1>1, <1>2, <1>3, <1>4, StepKeeps

LEMMA PublishKeeps ==
  ASSUME IInv, Publish PROVE IInv'
<1> USE TypesNow
<1>1. /\ at = "publish"
      /\ \/ at' = "ready" /\ cmd' = cmd
         \/ at' = "send" /\ cmd' \in UserCommand
      /\ UNCHANGED <<back, left, dataVars, receiverVars, auxVars, uart_conflict, out, faults>>
  BY DEF Publish
<1>2. LineTypes' /\ ~Requested' /\ ~Replied' /\ ~Noisy'
  BY <1>1, SameLine DEF IInv, Idle, NoiseEarly, Early, receiverVars
<1>3. cmd' \in Command
  BY <1>1 DEF Command
<1>4. UbxTypeOK'
  BY <1>1, <1>2, <1>3, TypesThen DEF At, dataVars, receiverVars, auxVars
<1>5. InForce'
  BY <1>1, BeforeIs DEF IInv, InForce, Configured, receiverVars
<1>6. QED
  BY <1>1, <1>2, <1>4, <1>5, StepKeeps

LEMMA CheckFailureKeeps ==
  ASSUME IInv, CheckFailure PROVE IInv'
<1> USE TypesNow
<1>1. at = "failed" /\ UNCHANGED <<cmd, left, dataVars, auxVars>>
  BY DEF CheckFailure
<1>2. CASE GpsDevicePowerOn("failed on")
  BY <1>1, <1>2, PowerOnKeeps
<1>3. CASE /\ at' = "failed on" /\ uart_conflict' \in {uart_conflict, TRUE}
           /\ UNCHANGED <<back, out, receiverVars, faults>>
  <2>1. LineTypes' /\ ~Requested' /\ ~Replied' /\ ~Noisy'
    BY <1>1, <1>3, SameLine DEF IInv, Idle, NoiseEarly, Early, receiverVars
  <2>2. uart_conflict' \in BOOLEAN
    BY <1>3
  <2>3. UbxTypeOK'
    BY <1>1, <1>3, <2>1, <2>2, TypesThen DEF At, dataVars, receiverVars, auxVars
  <2>4. InForce'
    BY <1>1, <1>3 DEF IInv, InForce, Configured, receiverVars
  <2> QED
    BY <1>3, <2>1, <2>3, <2>4, StepKeeps
<1>4. QED
  BY <1>2, <1>3 DEF CheckFailure

LEMMA SwitchToOgpsdKeeps ==
  ASSUME IInv, SwitchToOgpsd PROVE IInv'
<1> USE TypesNow
<1>1. /\ applied' = IF power THEN applied \cup {"rate"} ELSE applied
      /\ rx' = <<>> /\ out' = <<>> /\ uart_conflict' \in BOOLEAN /\ at' = "closed"
      /\ UNCHANGED <<cmd, back, left, dataVars, power, auxVars, faults>>
  BY DEF SwitchToOgpsd
<1>2. LineTypes' /\ ~Requested'
  BY <1>1, NoRequests, EmptyLine
<1>3. applied' \in SUBSET Command
  BY <1>1, ConfigurationIs
<1>4. UbxTypeOK'
  BY <1>1, <1>2, <1>3, TypesThen DEF At, dataVars, auxVars
<1>5. InForce' /\ Early'
  BY <1>1 DEF InForce, Configured, Early
<1>6. QED
  BY <1>1, <1>2, <1>4, <1>5, StepKeeps

\* The loop goes on, or the thread is suspended with its device open.
LEMMA LoopOrSuspendKeeps ==
  ASSUME IInv, NoConflict \/ Suspend PROVE IInv'
<1> USE TypesNow
<1>1. /\ at \in {"failed on", "ready"} /\ at' \in {"ready", "closed"}
      /\ UNCHANGED <<cmd, back, left, dataVars, receiverVars, auxVars, uart_conflict, out, faults>>
  BY DEF NoConflict, Suspend
<1>2. LineTypes' /\ ~Requested' /\ ~Replied' /\ ~Noisy'
  BY <1>1, SameLine DEF IInv, Idle, NoiseEarly, Early, receiverVars
<1>3. UbxTypeOK'
  BY <1>1, <1>2, TypesThen DEF At, dataVars, receiverVars, auxVars
<1>4. InForce'
  BY <1>1 DEF IInv, InForce, Configured, receiverVars
<1>5. QED
  BY <1>1, <1>2, <1>3, <1>4, StepKeeps

-----------------------------------------------------------------------------
(* Sending a command and reading its acknowledgement *)

LEMMA SendCommandKeeps ==
  ASSUME IInv, SendCommand PROVE IInv'
<1>0. LineTypes /\ cmd \in Command /\ at \in At
  BY TypesNow
<1>1. /\ at = "send" /\ rx' = Sent(Requests(<<cmd>>)) /\ out' = Aged(out) /\ executed' = FALSE
      /\ \/ cmd # "rst" /\ at' = "ack" /\ back' = back
         \/ cmd = "rst" /\ at' = "flush" /\ back' = "ready"
      /\ UNCHANGED <<cmd, left, dataVars, power, applied, clean, uart_conflict, faults>>
  BY DEF SendCommand, ReadsAck
<1>2. ~Requested /\ ~Replied
  BY <1>1 DEF IInv, Idle
<1>3. /\ <<cmd>> \in Seq(Command \cup NavType) /\ Len(<<cmd>>) = 1 /\ <<cmd>>[1] = cmd
  BY <1>0
<1>4. /\ rx' \in Seq(Request) /\ Len(rx) \in Nat
      /\ Len(rx') = IF power THEN Len(rx) + 1 ELSE 0
      /\ power => \A i \in 1..Len(rx) : rx'[i].of = rx[i].of
      /\ power => rx'[Len(rx) + 1].of = cmd /\ rx'[Len(rx) + 1].new
  <2> DEFINE types == <<cmd>>
  <2> HIDE DEF types
  <2>1. types \in Seq(Command \cup NavType) /\ Len(types) = 1 /\ types[1] = cmd
    BY <1>3 DEF types
  <2>2. rx' = Sent(Requests(types))
    BY <1>1 DEF types
  <2>3. 1 \in 1..Len(types)
    BY <2>1
  <2> QED
    BY <1>0, <2>1, <2>2, <2>3, SentIs
<1>5. LineTypes' /\ ~Replied' /\ (Noisy' => Noisy)
  BY <1>0, <1>1, <1>2, <1>4, AgedOut DEF LineTypes
<1>6. ASSUME NEW i \in 1..Len(rx'), IsCommand(rx'[i])
      PROVE  i = Len(rx') /\ rx'[i].of = cmd /\ rx'[i].new
  <2>1. power /\ i \in 1..(Len(rx) + 1) /\ Len(rx') = Len(rx) + 1
    BY <1>4
  <2>2. i \notin 1..Len(rx)
    BY <1>2, <1>4, <1>6, <2>1 DEF Requested, IsCommand
  <2>3. i = Len(rx) + 1
    BY <1>4, <2>1, <2>2
  <2> QED
    BY <1>4, <2>1, <2>3
<1>7. Answering'
  <2>1. \A i \in 1..Len(out') : ~IsReply(out'[i])
    BY <1>5 DEF Replied
  <2> QED
    BY <1>1, <1>6, <2>1 DEF Answering
<1>8. UbxTypeOK'
  BY <1>1, <1>5, TypesNow, TypesThen DEF At, dataVars
<1>9. InForce'
  <2>1. power => Before(cmd) \subseteq applied
    BY <1>1 DEF IInv, InForce
  <2>2. cmd = "rst" => Before(cmd) = Range(Configuration)
    BY BeforeIs DEF UserCommand
  <2> QED
    BY <1>1, <2>1, <2>2 DEF InForce, Configured
<1>10. NoiseEarly'
  BY <1>1, <1>5 DEF IInv, NoiseEarly, Early
<1>11. Idle' /\ Whole'
  BY <1>1 DEF Idle, Whole
<1>12. QED
  BY <1>5, <1>7, <1>8, <1>9, <1>10, <1>11 DEF IInv

\* What an acknowledgement tells: the command was carried out, nothing else of it is on the line,
\* and after that of the port there is no more noise.
LEMMA AcknowledgedTells ==
  ASSUME IInv, Acknowledged
  PROVE  /\ executed /\ rx = <<>>
         /\ \A j \in 2..Len(out) : ~IsReply(out[j])
         /\ cmd = "prt" => \A j \in 2..Len(out) : out[j] # Noise
         /\ power => cmd \in applied
<1>0. LineTypes /\ cmd \in Command /\ at \in At
  BY TypesNow
<1>1. at = "ack" /\ out # <<>> /\ Head(out).kind = "ack"
  BY DEF Acknowledged, Acknowledges
<1>2. Head(out) = out[1] /\ 1 \in 1..Len(out)
  BY <1>0, <1>1, TailIs DEF LineTypes
<1>3. IsReply(out[1]) /\ out[1].kind = "ack"
  BY <1>1, <1>2 DEF IsReply
<1>4. Answering
  BY DEF IInv
<1>5. /\ rx = <<>> /\ executed
      /\ \A j \in 1 + 1..Len(out) : ~IsReply(out[j])
      /\ cmd = "prt" => \A j \in 1 + 1..Len(out) : out[j] # Noise
  BY <1>1, <1>2, <1>3, <1>4 DEF Answering
<1>6. power => cmd \in applied
  BY <1>1, <1>4, <1>5 DEF Answering
<1>7. QED
  BY <1>5, <1>6

LEMMA AcknowledgedKeeps ==
  ASSUME IInv, Acknowledged PROVE IInv'
<1>0. LineTypes /\ cmd \in Command /\ at \in At
  BY TypesNow
<1>1. /\ at = "ack" /\ out # <<>> /\ out' = Tail(out) /\ NextCommand
      /\ UNCHANGED <<left, dataVars, receiverVars, auxVars, uart_conflict, faults>>
  BY DEF Acknowledged
<1>2. /\ cmd' \in Command /\ back' \in {back, "ready"}
      /\ \/ /\ at' = "send" /\ Before(cmd') = Before(cmd) \cup {cmd}
            /\ cmd = "rate" => cmd' = "prt"
         \/ /\ at' = "flush" /\ cmd' = cmd /\ Range(Configuration) = Before(cmd) \cup {cmd}
            /\ cmd \notin UserCommand
         \/ at' = "flush" /\ cmd' = cmd /\ cmd \in UserCommand
  BY <1>0, <1>1, NextCommandIs
<1>3. /\ executed /\ rx = <<>>
      /\ \A j \in 2..Len(out) : ~IsReply(out[j])
      /\ cmd = "prt" => \A j \in 2..Len(out) : out[j] # Noise
      /\ power => cmd \in applied
  BY AcknowledgedTells
<1>4. /\ LineTypes'
      /\ Noisy' => Noisy
      /\ Len(out) \in Nat \ {0} /\ Len(out') = Len(out) - 1
      /\ \A i \in 1..Len(out') : out'[i] = out[i + 1] /\ i + 1 \in 1..Len(out)
  BY <1>0, <1>1, ReadIs DEF receiverVars
<1>5. \A i \in 1..Len(out') : i + 1 \in 2..Len(out)
  BY <1>4
<1>6. ~Replied' /\ (cmd = "prt" => ~Noisy')
  BY <1>3, <1>4, <1>5 DEF Replied, Noisy
<1>7. ~Requested'
  BY <1>1, <1>3, NoRequests DEF receiverVars
<1>8. UbxTypeOK'
  BY <1>1, <1>2, <1>4, TypesNow, TypesThen DEF At, dataVars, receiverVars, auxVars
<1>9. InForce'
  <2> SUFFICES ASSUME power PROVE InForce'
    BY <1>1 DEF InForce, receiverVars
  <2>1. Before(cmd) \subseteq applied /\ cmd \in applied
    BY <1>1, <1>3 DEF IInv, InForce
  <2>2. cmd \in UserCommand => Before(cmd) = Range(Configuration)
    BY BeforeIs
  <2> QED
    BY <1>1, <1>2, <2>1, <2>2 DEF InForce, Configured, receiverVars
<1>10. Noisy' => Early'
  <2> SUFFICES ASSUME Noisy' PROVE Early'
    OBVIOUS
  <2>1. cmd = "rate"
    BY <1>1, <1>4, <1>6 DEF IInv, NoiseEarly, Early
  <2> QED
    <3>1. cmd \notin UserCommand /\ Range(Configuration) # Before(cmd) \cup {cmd}
      BY <2>1, BeforeIs, ConfigurationIs DEF UserCommand
    <3> QED
      BY <1>2, <2>1, <3>1 DEF Early
<1>11. QED
  BY <1>2, <1>4, <1>6, <1>7, <1>8, <1>9, <1>10, StepKeeps

LEMMA SkipNoiseKeeps ==
  ASSUME IInv, SkipNoise PROVE IInv'
<1>0. LineTypes /\ cmd \in Command /\ at \in At
  BY TypesNow
<1>1. /\ at \in {"ack", "read"} /\ out # <<>> /\ Head(out) = Noise /\ out' = Tail(out)
      /\ UNCHANGED <<hostVars, dataVars, receiverVars, auxVars, uart_conflict, faults>>
  BY DEF SkipNoise
<1>2. /\ LineTypes'
      /\ Requested' <=> Requested
      /\ Noisy' => Noisy
      /\ Len(out) \in Nat \ {0} /\ Len(out') = Len(out) - 1 /\ Head(out) = out[1]
      /\ \A i \in 1..Len(out') : out'[i] = out[i + 1] /\ i + 1 \in 1..Len(out)
  BY <1>0, <1>1, ReadIs DEF receiverVars
<1>3. Noisy
  BY <1>1, <1>2 DEF Noisy
<1>4. Early /\ at = "ack" /\ at' = "ack" /\ Early'
  BY <1>1, <1>3 DEF IInv, NoiseEarly, Early, hostVars
<1>5. UbxTypeOK'
  BY <1>1, <1>2, TypesNow, TypesThen DEF hostVars, dataVars, receiverVars, auxVars
<1>6. Answering'
  <2>1. Answering
    BY DEF IInv
  <2>2. ASSUME NEW i \in 1..Len(out'), IsReply(out'[i])
        PROVE  /\ rx' = <<>>
               /\ out'[i].kind = "ack" => executed'
               /\ \A j \in i + 1..Len(out') : ~IsReply(out'[j])
               /\ out'[i].kind = "ack" /\ cmd = "prt" => \A j \in i + 1..Len(out') : out'[j] # Noise
    <3>1. i + 1 \in 1..Len(out) /\ out'[i] = out[i + 1]
      BY <1>2
    <3>2. /\ rx = <<>>
          /\ out[i + 1].kind = "ack" => executed
          /\ \A j \in (i + 1) + 1..Len(out) : ~IsReply(out[j])
          /\ out[i + 1].kind = "ack" /\ cmd = "prt"
               => \A j \in (i + 1) + 1..Len(out) : out[j] # Noise
      BY <1>4, <2>1, <2>2, <3>1 DEF Answering
    <3>3. \A j \in i + 1..Len(out') : j + 1 \in (i + 1) + 1..Len(out) /\ j \in 1..Len(out')
      BY <1>2
    <3> QED
      BY <1>1, <1>2, <3>1, <3>2, <3>3 DEF receiverVars, auxVars
  <2>3. /\ \A i \in 1..Len(rx) : IsCommand(rx[i]) => i = Len(rx) /\ rx[i].of = cmd /\ rx[i].new
        /\ executed /\ power => cmd \in applied
    BY <1>4, <2>1 DEF Answering
  <2> QED
    BY <1>1, <2>2, <2>3 DEF Answering, hostVars, receiverVars, auxVars
<1>7. InForce'
  BY <1>1 DEF IInv, InForce, Configured, hostVars, receiverVars
<1>8. Idle' /\ Whole' /\ NoiseEarly'
  BY <1>4 DEF Idle, Whole, NoiseEarly
<1>9. QED
  BY <1>2, <1>5, <1>6, <1>7, <1>8 DEF IInv

-----------------------------------------------------------------------------
(* The poll and its answers *)

LEMMA PollGroupKeeps ==
  ASSUME IInv, PollGroup PROVE IInv'
<1>0. LineTypes /\ time_synced \in BOOLEAN /\ fix \in [FixType -> {"none", "new", "old"}]
  BY TypesNow
<1>1. /\ at = "ready" /\ at' = "read" /\ out' = Aged(out)
      /\ fix' = [t \in FixType |-> IF fix[t] = "new" THEN "old" ELSE fix[t]]
      /\ clean' = (rx = <<>> /\ out = <<>>)
      /\ UNCHANGED <<cmd, back, time_synced, power, applied, executed, uart_conflict, faults>>
  BY DEF PollGroup
<1>2. ~Requested /\ ~Replied /\ ~Noisy
  BY <1>1 DEF IInv, Idle, NoiseEarly, Early
<1>3. PICK types \in Seq(NavType) :
        /\ Len(types) \in 3..5 /\ left' = Len(types) /\ rx' = Sent(Requests(types))
        /\ types[1] = "status" /\ types[2] = "posllh" /\ types[3] = "velned"
  <2>1. PICK pollsv \in BOOLEAN : /\ rx' = Sent(Requests(Group(time_synced, pollsv)))
                                  /\ left' = Awaited(time_synced, pollsv)
    BY DEF PollGroup
  <2> QED
    BY <1>0, <2>1, GroupIs
<1>4. LineTypes' /\ ~Requested' /\ ~Replied' /\ ~Noisy'
  BY <1>0, <1>1, <1>2, <1>3, NavRequests
<1>5. fix' \in [FixType -> {"none", "new", "old"}]
  BY <1>0, <1>1
<1>6. UbxTypeOK'
  <2>1. left' \in 0..5 /\ left' > 0 /\ clean' \in BOOLEAN
    BY <1>1, <1>3
  <2> QED
    BY <1>1, <1>4, <1>5, <2>1, TypesNow, TypesThen DEF At
<1>7. InForce'
  BY <1>1 DEF IInv, InForce, Configured
<1>8. Whole'
  <2> SUFFICES ASSUME rx = <<>>, out = <<>> PROVE Whole'
    BY <1>1 DEF Whole
  <2>1. Len(rx) = 0 /\ Len(out) = 0 /\ Len(out') = 0
    BY <1>0, <1>1, NoneIs, AgedOut DEF LineTypes
  <2>2. types \in Seq(Command \cup NavType)
    <3>1. \A i \in 1..Len(types) : types[i] \in NavType
      BY ElementOfSeq
    <3>2. types \in [1..Len(types) -> Command \cup NavType] /\ Len(types) \in Nat
      BY <3>1, SeqDef, LenProperties
    <3> QED
      BY <3>2, SeqDef
  <2>3. /\ Len(rx') = IF power THEN Len(types) ELSE 0
        /\ power => \A i \in 1..Len(types) : rx'[i].of = types[i] /\ rx'[i].new
    <3>1. /\ Len(rx') = IF power THEN 0 + Len(types) ELSE 0
          /\ power => \A i \in 1..Len(types) : rx'[0 + i].of = types[i] /\ rx'[0 + i].new
      BY <1>0, <1>3, <2>1, <2>2, SentIs
    <3>2. \A i \in 1..Len(types) : 0 + i = i
      OBVIOUS
    <3> QED
      BY <1>3, <3>1, <3>2
  <2>4. /\ Len(rx') + Len(out') = IF power THEN left' ELSE 0
        /\ Len(rx') + Len(out') <= left'
        /\ left' > 0 /\ 1 \in 1..Len(types) /\ 2 \in 1..Len(types) /\ 3 \in 1..Len(types)
    BY <1>3, <2>1, <2>3
  <2>5. \A i \in 1..Len(rx') : rx'[i].new
    BY <2>3
  <2>6. \A i \in 1..Len(out') : out'[i].kind = "nav" /\ out'[i].new
    BY <2>1
  <2>7. power => /\ rx'[1].of = "status" /\ rx'[2].of = "posllh" /\ rx'[3].of = "velned"
                 /\ 1 \in 1..Len(rx') /\ 2 \in 1..Len(rx') /\ 3 \in 1..Len(rx')
    BY <1>3, <2>3, <2>4
  <2>8. power => Pending("status")' /\ Pending("posllh")' /\ Pending("velned")'
    BY <2>7 DEF Pending
  <2>9. Len(rx') + Len(out') = left' => power
    BY <2>4
  <2> QED
    BY <1>1, <2>4, <2>5, <2>6, <2>8, <2>9 DEF Whole
<1>9. Idle' /\ Answering' /\ NoiseEarly'
  BY <1>1, <1>4 DEF Idle, Answering, NoiseEarly
<1>10. QED
  BY <1>4, <1>6, <1>7, <1>8, <1>9 DEF IInv

\* An answer is read: what is still to come has one answer less, and the part of the fix that it
\* brings is of this poll.
LEMMA ReadingKeepsWhole ==
  ASSUME IInv, at = "read", clean, out # <<>>, out' = Tail(out), rx' = rx, clean' = clean,
         left' = left - 1, fix' \in [FixType -> {"none", "new", "old"}],
         \A t \in FixType : t # out[1].of => fix'[t] = fix[t],
         \A t \in FixType : t = out[1].of /\ out[1].new =>
           fix'[t] # "old" /\ (t = "status" => fix'[t] = "new"),
         at' = IF left' <= 0 THEN "publish" ELSE "read"
  PROVE  Whole'
<1>0. LineTypes /\ left \in 0..5 /\ left > 0
  BY TypesNow
<1>1. /\ Len(rx) + Len(out) <= left
      /\ \A i \in 1..Len(rx) : rx[i].new
      /\ \A i \in 1..Len(out) : out[i].kind = "nav" /\ out[i].new
      /\ Len(rx) + Len(out) = left =>
           /\ fix["status"] = "new" \/ Pending("status")
           /\ \A t \in {"posllh", "velned"} : fix[t] # "old" \/ Pending(t)
  BY DEF IInv, Whole
<1>2. /\ Len(out) \in Nat \ {0} /\ Len(out') = Len(out) - 1
      /\ \A i \in 1..Len(out') : out'[i] = out[i + 1] /\ i + 1 \in 1..Len(out)
  BY <1>0, ReadIs
<1>3. Len(rx) \in Nat /\ Len(rx') = Len(rx)
  BY <1>0, LenProperties DEF LineTypes
<1>4. 1 \in 1..Len(out) /\ out[1].new
  BY <1>1, <1>2
<1>5. /\ Len(rx') + Len(out') <= left'
      /\ Len(rx') + Len(out') = left' => Len(rx) + Len(out) = left
  BY <1>0, <1>1, <1>2, <1>3
<1>6. \A i \in 1..Len(rx') : rx'[i].new
  BY <1>1
<1>7. \A i \in 1..Len(out') : out'[i].kind = "nav" /\ out'[i].new
  BY <1>1, <1>2
<1>8. ASSUME NEW t, Pending(t), t # out[1].of PROVE Pending(t)'
  <2>1. CASE \E i \in 1..Len(rx) : rx[i].of = t
    BY <2>1 DEF Pending
  <2>2. CASE \E i \in 1..Len(out) : out[i].of = t
    <3>1. PICK i \in 1..Len(out) : out[i].of = t
      BY <2>2
    <3>2. i # 1
      BY <1>8, <3>1
    <3> DEFINE j == i - 1
    <3>3. j \in 1..Len(out') /\ j + 1 = i
      BY <1>2, <3>2
    <3> HIDE DEF j
    <3>4. out'[j].of = t
      BY <1>2, <3>1, <3>3
    <3> QED
      BY <3>3, <3>4 DEF Pending
  <2> QED
    BY <1>8, <2>1, <2>2 DEF Pending
<1>9. ASSUME Len(rx') + Len(out') = left'
      PROVE  /\ fix'["status"] = "new" \/ Pending("status")'
             /\ \A t \in {"posllh", "velned"} : fix'[t] # "old" \/ Pending(t)'
  <2>1. /\ fix["status"] = "new" \/ Pending("status")
        /\ \A t \in {"posllh", "velned"} : fix[t] # "old" \/ Pending(t)
    BY <1>1, <1>5, <1>9
  <2>2. fix'["status"] = "new" \/ Pending("status")'
    <3>1. CASE out[1].of = "status"
      BY <1>4, <3>1 DEF FixType
    <3>2. CASE out[1].of # "status"
      BY <1>8, <2>1, <3>2 DEF FixType
    <3> QED
      BY <3>1, <3>2
  <2>3. ASSUME NEW t \in {"posllh", "velned"} PROVE fix'[t] # "old" \/ Pending(t)'
    <3>1. CASE out[1].of = t
      BY <1>4, <3>1 DEF FixType
    <3>2. CASE out[1].of # t
      BY <1>8, <2>1, <3>2 DEF FixType
    <3> QED
      BY <3>1, <3>2
  <2> QED
    BY <2>2, <2>3
<1>10. CASE left' <= 0
  <2>1. at' = "publish" /\ Len(rx') = 0 /\ Len(out') = 0 /\ Len(rx') + Len(out') = left'
    BY <1>0, <1>2, <1>3, <1>5, <1>10
  <2>2. rx' = <<>> /\ out' = <<>>
    <3>1. rx' \in Seq(Request) /\ out' \in Seq(Answer \cup {Noise})
      BY <1>0, ReadIs DEF LineTypes
    <3> QED
      BY <2>1, <3>1, EmptySeq
  <2>3. \A t : ~Pending(t)'
    BY <2>1 DEF Pending
  <2>4. /\ fix'["status"] = "new"
        /\ \A t \in {"posllh", "velned"} : fix'[t] # "old"
    BY <1>9, <2>1, <2>3
  <2> QED
    BY <2>1, <2>2, <2>4 DEF Whole, CleanPollIsWhole
<1>11. CASE ~(left' <= 0)
  BY <1>5, <1>6, <1>7, <1>9, <1>11 DEF Whole
<1>12. QED
  BY <1>10, <1>11

LEMMA ParseResponseKeeps ==
  ASSUME IInv, ParseResponse PROVE IInv'
<1>0. LineTypes /\ time_synced \in BOOLEAN /\ fix \in [FixType -> {"none", "new", "old"}]
      /\ left \in 0..5 /\ (at = "read" => left > 0)
  BY TypesNow
<1>1. /\ at = "read" /\ out # <<>> /\ out' = Tail(out) /\ left' = left - 1
      /\ at' = IF left' <= 0 THEN "publish" ELSE "read"
      /\ UNCHANGED <<cmd, back, receiverVars, auxVars, uart_conflict, faults>>
  BY DEF ParseResponse, Remaining
<1>2. Head(out) = out[1]
  BY <1>0, <1>1, TailIs DEF LineTypes
<1>3. PICK valid \in BOOLEAN :
        /\ out[1].of = "status" => valid
        /\ fix' = [t \in FixType |-> IF t # out[1].of THEN fix[t]
                              ELSE IF ~valid THEN "none" ELSE IF out[1].new THEN "new" ELSE "old"]
        /\ time_synced' \in {time_synced, time_synced \/ (out[1].of = "timeutc" /\ valid)}
  <2>1. CASE out[1].of = "status"
    BY <1>2, <2>1 DEF ParseResponse
  <2>2. CASE out[1].of # "status"
    BY <1>2, <2>2, ZenonT(40) DEF ParseResponse
  <2> QED
    BY <2>1, <2>2
<1>4. time_synced' \in BOOLEAN /\ fix' \in [FixType -> {"none", "new", "old"}]
  BY <1>0, <1>3
<1>5. LineTypes' /\ ~Requested' /\ ~Replied' /\ ~Noisy'
  BY <1>0, <1>1, ReadIs DEF IInv, Idle, NoiseEarly, Early, receiverVars
<1>6. UbxTypeOK'
  <2>1. left' \in 0..5 /\ at' \in At /\ (at' = "read" => left' > 0)
    BY <1>0, <1>1 DEF At
  <2> QED
    BY <1>1, <1>4, <1>5, <2>1, TypesNow, TypesThen DEF receiverVars, auxVars
<1>7. InForce'
  BY <1>1 DEF IInv, InForce, Configured, receiverVars
<1>8. Whole'
  <2>1. CASE clean
    <3>1. \A t \in FixType : t # out[1].of => fix'[t] = fix[t]
      BY <1>3
    <3>2. \A t \in FixType : t = out[1].of /\ out[1].new =>
            fix'[t] # "old" /\ (t = "status" => fix'[t] = "new")
      BY <1>3
    <3> QED
      BY <1>1, <1>4, <2>1, <3>1, <3>2, ReadingKeepsWhole DEF receiverVars, auxVars
  <2>2. CASE ~clean
    BY <1>1, <2>2 DEF Whole, auxVars
  <2> QED
    BY <2>1, <2>2
<1>9. Idle' /\ Answering' /\ NoiseEarly'
  BY <1>1, <1>5 DEF Idle, Answering, NoiseEarly
<1>10. QED
  BY <1>5, <1>6, <1>7, <1>8, <1>9 DEF IInv

-----------------------------------------------------------------------------
(* The receiver and the other programs *)

\* What the receiver does with a request: it may answer it or lose it, and carry out or refuse a
\* command.
Takes ==
  /\ rx # <<>> /\ rx' = Tail(rx)
  /\ faults' \in 0..MaxFaults
  /\ UNCHANGED <<hostVars, dataVars, power, clean, uart_conflict>>
  /\ LET q == rx[1] IN
       \/ /\ ~IsCommand(q) /\ UNCHANGED <<applied, executed>>
          /\ out' = Append(out, AnswerTo(q, "nav"))
       \/ UNCHANGED <<applied, executed, out>>
       \/ /\ IsCommand(q) /\ applied' = applied \cup {q.of} /\ executed' = (executed \/ q.new)
          /\ out' = out \/ out' = Append(out, AnswerTo(q, "ack"))
       \/ /\ IsCommand(q) /\ UNCHANGED <<applied, executed>>
          /\ out' = Append(out, AnswerTo(q, "nak"))

LEMMA ReceiverTakes ==
  ASSUME IInv, Obey \/ Disobey PROVE Takes
<1>0. LineTypes /\ executed \in BOOLEAN /\ faults \in 0..MaxFaults
  BY TypesNow
<1>1. rx # <<>> /\ rx' = Tail(rx) /\ UNCHANGED <<hostVars, dataVars, power, clean, uart_conflict>>
      /\ faults' \in 0..MaxFaults
  BY <1>0, FaultIs DEF Obey, Disobey
<1>2. Head(rx) = rx[1] /\ rx[1] \in Request
  BY <1>0, <1>1, TailIs DEF LineTypes
<1>3. rx[1].of \in NavType <=> ~IsCommand(rx[1])
  BY <1>2, MessagesAre DEF IsCommand
<1>4. CASE Obey
  <2>1. CASE IsCommand(rx[1])
    BY <1>0, <1>1, <1>2, <1>3, <1>4, <2>1 DEF Obey, Takes, IsCommand
  <2>2. CASE ~IsCommand(rx[1])
    BY <1>0, <1>1, <1>2, <1>3, <1>4, <2>2 DEF Obey, Takes, IsCommand
  <2> QED
    BY <2>1, <2>2
<1>5. CASE Disobey
  BY <1>1, <1>2, <1>5 DEF Disobey, Takes, IsCommand
<1>6. QED
  BY <1>4, <1>5

LEMMA AnswerIs ==
  ASSUME NEW q \in Request, NEW kind \in {"nav", "ack", "nak"}
  PROVE  /\ AnswerTo(q, kind) \in Answer /\ AnswerTo(q, kind).kind = kind
         /\ AnswerTo(q, kind).new = q.new
         /\ ~IsCommand(q) => AnswerTo(q, kind).of = q.of
<1>1. q.of \in Command \cup NavType /\ q.new \in BOOLEAN /\ Command \cap NavType = {}
  BY MessagesAre
<1>2. CASE q.of \in NavType
  BY <1>1, <1>2 DEF AnswerTo, Answer, IsCommand
<1>3. CASE q.of \notin NavType
  <2>1. q.of \in Command /\ AckType(q.of) \in {AckType(c) : c \in Command}
    BY <1>1, <1>3
  <2> QED
    BY <1>1, <1>3, <2>1 DEF AnswerTo, Answer, IsCommand
<1>4. QED
  BY <1>2, <1>3

\* The line afterwards
LEMMA TakesLine ==
  ASSUME LineTypes, Takes
  PROVE  /\ LineTypes'
         /\ Len(rx) \in Nat \ {0} /\ Len(rx') = Len(rx) - 1 /\ rx[1] \in Request
         /\ \A i \in 1..Len(rx') : rx'[i] = rx[i + 1] /\ i + 1 \in 1..Len(rx)
         /\ Len(out) \in Nat /\ Len(out') \in {Len(out), Len(out) + 1}
         /\ \A i \in 1..Len(out) : out'[i] = out[i]
         /\ Len(out') = Len(out) + 1 =>
              LET m == out'[Len(out')] IN
                /\ m \in Answer /\ m.new = rx[1].new
                /\ ~IsCommand(rx[1]) => m.kind = "nav" /\ m.of = rx[1].of
                /\ IsCommand(rx[1]) => m.kind \in {"ack", "nak"}
                /\ IsCommand(rx[1]) /\ m.kind = "ack" =>
                     applied' = applied \cup {rx[1].of} /\ executed' = (executed \/ rx[1].new)
<1>1. /\ Len(rx) \in Nat \ {0} /\ Len(rx') = Len(rx) - 1 /\ rx[1] \in Request
      /\ rx' \in Seq(Request)
      /\ \A i \in 1..(Len(rx) - 1) : rx'[i] = rx[i + 1]
  BY TailIs DEF LineTypes, Takes
<1>2. \A i \in 1..Len(rx') : rx'[i] = rx[i + 1] /\ i + 1 \in 1..Len(rx)
  BY <1>1
<1>3. out \in Seq(Answer \cup {Noise}) /\ Len(out) \in Nat
  BY NoneIs DEF LineTypes
<1> DEFINE q == rx[1]
<1>4. q \in Request
  BY <1>1
<1>5. \/ out' = out
      \/ /\ ~IsCommand(q) /\ out' = Append(out, AnswerTo(q, "nav"))
      \/ /\ IsCommand(q) /\ out' = Append(out, AnswerTo(q, "nak"))
      \/ /\ IsCommand(q) /\ out' = Append(out, AnswerTo(q, "ack"))
         /\ applied' = applied \cup {q.of} /\ executed' = (executed \/ q.new)
  BY DEF Takes
<1> HIDE DEF q
<1>6. CASE out' = out
  <2>1. Len(out') = Len(out) /\ Len(out') # Len(out) + 1
    BY <1>3, <1>6
  <2> QED
    BY <1>1, <1>2, <1>3, <1>6, <2>1 DEF LineTypes
<1>7. ASSUME NEW kind \in {"nav", "ack", "nak"}, out' = Append(out, AnswerTo(q, kind))
      PROVE  /\ out' \in Seq(Answer \cup {Noise}) /\ Len(out') = Len(out) + 1
             /\ \A i \in 1..Len(out) : out'[i] = out[i]
             /\ out'[Len(out')] = AnswerTo(q, kind)
             /\ out'[Len(out')] \in Answer /\ out'[Len(out')].kind = kind
             /\ out'[Len(out')].new = q.new
             /\ ~IsCommand(q) => out'[Len(out')].of = q.of
  <2> DEFINE m == AnswerTo(q, kind)
  <2>1. m \in Answer /\ m.kind = kind /\ m.new = q.new /\ (~IsCommand(q) => m.of = q.of)
    BY <1>4, AnswerIs
  <2> HIDE DEF m
  <2>2. out' = Append(out, m) /\ m \in Answer \cup {Noise}
    BY <1>7, <2>1 DEF m
  <2>3. /\ Append(out, m) \in Seq(Answer \cup {Noise}) /\ Len(Append(out, m)) = Len(out) + 1
        /\ \A i \in 1..Len(out) : Append(out, m)[i] = out[i]
        /\ Append(out, m)[Len(out) + 1] = m
    BY <1>3, <2>2, AppendIs
  <2>4. out'[Len(out')] = m
    BY <2>2, <2>3
  <2> QED
    BY <2>1, <2>2, <2>3, <2>4 DEF m
<1>8. CASE out' # out
  <2>1. PICK kind \in {"nav", "ack", "nak"} :
          /\ out' = Append(out, AnswerTo(q, kind))
          /\ ~IsCommand(q) => kind = "nav"
          /\ IsCommand(q) => kind \in {"ack", "nak"}
          /\ IsCommand(q) /\ kind = "ack" =>
               applied' = applied \cup {q.of} /\ executed' = (executed \/ q.new)
    BY <1>5, <1>8
  <2>2. /\ out' \in Seq(Answer \cup {Noise}) /\ Len(out') = Len(out) + 1
        /\ \A i \in 1..Len(out) : out'[i] = out[i]
        /\ out'[Len(out')] \in Answer /\ out'[Len(out')].kind = kind
        /\ out'[Len(out')].new = q.new
        /\ ~IsCommand(q) => out'[Len(out')].of = q.of
    BY <1>7, <2>1
  <2>3. LineTypes'
    BY <1>1, <2>2 DEF LineTypes
  <2> QED
    BY <1>1, <1>2, <1>3, <2>1, <2>2, <2>3 DEF q
<1>9. QED
  BY <1>6, <1>8

LEMMA TakesKeepAnswering ==
  ASSUME IInv, Takes PROVE Answering'
<1>0. LineTypes /\ at \in At /\ executed \in BOOLEAN
  BY TypesNow
<1>1. /\ Len(rx) \in Nat \ {0} /\ Len(rx') = Len(rx) - 1 /\ rx[1] \in Request
      /\ \A i \in 1..Len(rx') : rx'[i] = rx[i + 1] /\ i + 1 \in 1..Len(rx)
      /\ Len(out) \in Nat /\ Len(out') \in {Len(out), Len(out) + 1}
      /\ \A i \in 1..Len(out) : out'[i] = out[i]
  BY <1>0, TakesLine
<1>2. /\ at' = at /\ cmd' = cmd /\ power' = power
      /\ \/ applied' = applied /\ executed' = executed
         \/ /\ IsCommand(rx[1]) /\ applied' = applied \cup {rx[1].of}
            /\ executed' = (executed \/ rx[1].new)
  BY DEF Takes, hostVars
<1> SUFFICES ASSUME at = "ack"
             PROVE  /\ \A i \in 1..Len(rx') :
                         IsCommand(rx'[i]) => i = Len(rx') /\ rx'[i].of = cmd /\ rx'[i].new
                    /\ \A i \in 1..Len(out') : IsReply(out'[i]) =>
                         /\ rx' = <<>>
                         /\ out'[i].kind = "ack" => executed'
                         /\ \A j \in i + 1..Len(out') : ~IsReply(out'[j])
                         /\ out'[i].kind = "ack" /\ cmd = "prt"
                              => \A j \in i + 1..Len(out') : out'[j] # Noise
                    /\ executed' /\ power => cmd \in applied'
  BY <1>2 DEF Answering
<1>3. /\ \A i \in 1..Len(rx) : IsCommand(rx[i]) => i = Len(rx) /\ rx[i].of = cmd /\ rx[i].new
      /\ \A i \in 1..Len(out) : IsReply(out[i]) => rx = <<>>
      /\ executed /\ power => cmd \in applied
  BY DEF IInv, Answering
<1>4. \A i \in 1..Len(rx') :
        IsCommand(rx'[i]) => i = Len(rx') /\ rx'[i].of = cmd /\ rx'[i].new
  <2> SUFFICES ASSUME NEW i \in 1..Len(rx'), IsCommand(rx'[i])
               PROVE  i = Len(rx') /\ rx'[i].of = cmd /\ rx'[i].new
    OBVIOUS
  <2>1. i + 1 \in 1..Len(rx) /\ rx'[i] = rx[i + 1]
    BY <1>1
  <2>2. i + 1 = Len(rx) /\ rx'[i].of = cmd /\ rx'[i].new
    BY <1>3, <2>1
  <2> QED
    BY <1>1, <2>2
<1>5. \A i \in 1..Len(out) : ~IsReply(out[i])
  BY <1>3 DEF Takes
<1>6. \A i \in 1..Len(out') : IsReply(out'[i]) =>
        /\ rx' = <<>>
        /\ out'[i].kind = "ack" => executed'
        /\ i = Len(out')
  <2> SUFFICES ASSUME NEW i \in 1..Len(out'), IsReply(out'[i])
               PROVE  rx' = <<>> /\ (out'[i].kind = "ack" => executed') /\ i = Len(out')
    OBVIOUS
  <2>1. i \notin 1..Len(out)
    BY <1>1, <1>5
  <2>2. i = Len(out') /\ Len(out') = Len(out) + 1
    BY <1>1, <2>1
  <2>3. /\ ~IsCommand(rx[1]) => out'[i].kind = "nav"
        /\ IsCommand(rx[1]) /\ out'[i].kind = "ack" => executed' = (executed \/ rx[1].new)
    BY <1>0, <2>2, TakesLine
  <2>4. IsCommand(rx[1])
    BY <2>3 DEF IsReply
  <2>5. 1 \in 1..Len(rx)
    BY <1>1
  <2>6. Len(rx) = 1 /\ rx[1].new
    BY <1>3, <2>4, <2>5
  <2>7. rx' = <<>>
    <3>1. rx' \in Seq(Request) /\ Len(rx') = 0
      BY <1>0, <1>1, <2>6, TakesLine DEF LineTypes
    <3> QED
      BY <3>1, EmptySeq
  <2> QED
    BY <2>2, <2>3, <2>4, <2>6, <2>7
<1>7. \A i, j \in 1..Len(out') : IsReply(out'[i]) => j \notin i + 1..Len(out')
  BY <1>1, <1>6
<1>8. \A i \in 1..Len(out') : \A j \in i + 1..Len(out') : j \in 1..Len(out')
  BY <1>1
<1>9. executed' /\ power => cmd \in applied'
  <2>1. 1 \in 1..Len(rx)
    BY <1>1
  <2> QED
    BY <1>2, <1>3, <2>1
<1>10. QED
  BY <1>4, <1>6, <1>7, <1>8, <1>9

LEMMA TakesKeepWhole ==
  ASSUME IInv, Takes PROVE Whole'
<1>0. LineTypes /\ at \in At /\ left \in 0..5
  BY TypesNow
<1>1. /\ Len(rx) \in Nat \ {0} /\ Len(rx') = Len(rx) - 1 /\ rx[1] \in Request
      /\ \A i \in 1..Len(rx') : rx'[i] = rx[i + 1] /\ i + 1 \in 1..Len(rx)
      /\ Len(out) \in Nat /\ Len(out') \in {Len(out), Len(out) + 1}
      /\ \A i \in 1..Len(out) : out'[i] = out[i]
  BY <1>0, TakesLine
<1>2. at' = at /\ left' = left /\ fix' = fix /\ clean' = clean /\ rx # <<>>
  BY DEF Takes, hostVars, dataVars
<1>3. 1 \in 1..Len(rx)
  BY <1>1
<1>4. at = "publish" => ~clean
  BY <1>2 DEF IInv, Whole, CleanPollIsWhole
<1>5. CASE at = "read" /\ clean
  <2>1. /\ Len(rx) + Len(out) <= left
        /\ \A i \in 1..Len(rx) : rx[i].new
        /\ \A i \in 1..Len(out) : out[i].kind = "nav" /\ out[i].new
        /\ Len(rx) + Len(out) = left =>
             /\ fix["status"] = "new" \/ Pending("status")
             /\ \A t \in {"posllh", "velned"} : fix[t] # "old" \/ Pending(t)
    BY <1>5 DEF IInv, Whole
  <2>2. ~IsCommand(rx[1])
    BY <1>3, <1>5 DEF IInv, Idle, Requested
  <2>3. /\ Len(rx') + Len(out') <= left
        /\ Len(rx') + Len(out') = left => Len(rx) + Len(out) = left /\ Len(out') = Len(out) + 1
    BY <1>0, <1>1, <2>1
  <2>4. \A i \in 1..Len(rx') : rx'[i].new
    BY <1>1, <2>1
  <2>5. Len(out') = Len(out) + 1 =>
          out'[Len(out')].kind = "nav" /\ out'[Len(out')].of = rx[1].of /\ out'[Len(out')].new
    BY <1>0, <1>3, <2>1, <2>2, TakesLine
  <2>6. ASSUME NEW i \in 1..Len(out') PROVE out'[i].kind = "nav" /\ out'[i].new
    <3>1. CASE i \in 1..Len(out)
      BY <1>1, <2>1, <3>1
    <3>2. CASE i \notin 1..Len(out)
      <4>1. i = Len(out') /\ Len(out') = Len(out) + 1
        BY <1>1, <3>2
      <4> QED
        BY <2>5, <4>1
    <3> QED
      BY <3>1, <3>2
  <2>7. ASSUME Len(out') = Len(out) + 1, NEW t, Pending(t) PROVE Pending(t)'
    <3>1. CASE \E i \in 1..Len(out) : out[i].of = t
      <4>1. PICK i \in 1..Len(out) : out[i].of = t
        BY <3>1
      <4>2. i \in 1..Len(out') /\ out'[i].of = t
        BY <1>1, <2>7, <4>1
      <4> QED
        BY <4>2 DEF Pending
    <3>2. CASE rx[1].of = t
      <4>1. Len(out') \in 1..Len(out') /\ out'[Len(out')].of = t
        BY <1>1, <2>5, <2>7, <3>2
      <4> QED
        BY <4>1 DEF Pending
    <3>3. CASE \E i \in 1..Len(rx) : i # 1 /\ rx[i].of = t
      <4>1. PICK i \in 1..Len(rx) : i # 1 /\ rx[i].of = t
        BY <3>3
      <4> DEFINE j == i - 1
      <4>2. j \in 1..Len(rx') /\ j + 1 = i
        BY <1>1, <4>1
      <4> HIDE DEF j
      <4>3. rx'[j].of = t
        BY <1>1, <4>1, <4>2
      <4> QED
        BY <4>2, <4>3 DEF Pending
    <3> QED
      BY <2>7, <3>1, <3>2, <3>3 DEF Pending
  <2>8. Len(rx') + Len(out') = left =>
          /\ fix["status"] = "new" \/ Pending("status")'
          /\ \A t \in {"posllh", "velned"} : fix[t] # "old" \/ Pending(t)'
    BY <2>1, <2>3, <2>7
  <2> QED
    BY <1>2, <1>5, <2>3, <2>4, <2>6, <2>8 DEF Whole
<1>6. CASE ~(at = "read" /\ clean)
  BY <1>2, <1>4, <1>6 DEF Whole
<1>7. QED
  BY <1>5, <1>6

LEMMA ReceiverKeeps ==
  ASSUME IInv, Obey \/ Disobey PROVE IInv'
<1>0. LineTypes /\ executed \in BOOLEAN /\ applied \in SUBSET Command
  BY TypesNow
<1>1. Takes
  BY ReceiverTakes
<1>2. /\ at' = at /\ cmd' = cmd /\ back' = back /\ power' = power
      /\ \/ applied' = applied /\ executed' = executed
         \/ /\ IsCommand(rx[1]) /\ applied' = applied \cup {rx[1].of}
            /\ executed' = (executed \/ rx[1].new)
      /\ UNCHANGED <<hostVars, dataVars, clean, uart_conflict>> /\ faults' \in 0..MaxFaults
  BY <1>1 DEF Takes, hostVars
<1>3. /\ LineTypes'
      /\ Len(rx) \in Nat \ {0} /\ rx[1] \in Request
      /\ \A i \in 1..Len(rx') : rx'[i] = rx[i + 1] /\ i + 1 \in 1..Len(rx)
      /\ Len(out) \in Nat /\ Len(out') \in {Len(out), Len(out) + 1}
      /\ \A i \in 1..Len(out) : out'[i] = out[i]
  BY <1>0, <1>1, TakesLine
<1>4. 1 \in 1..Len(rx)
  BY <1>3
<1>5. UbxTypeOK'
  <2>1. applied' \in SUBSET Command /\ executed' \in BOOLEAN
    BY <1>0, <1>2, <1>3, MessagesAre DEF IsCommand
  <2> QED
    BY <1>2, <1>3, <2>1, TypesNow, TypesThen DEF hostVars, dataVars
<1>6. Requested' => Requested
  BY <1>3 DEF Requested
<1>7. ASSUME NEW i \in 1..Len(out'), i \notin 1..Len(out)
      PROVE  out'[i] # Noise /\ (~IsCommand(rx[1]) => ~IsReply(out'[i]))
  <2>1. i = Len(out') /\ Len(out') = Len(out) + 1
    BY <1>3, <1>7
  <2>2. out'[i] \in Answer /\ (~IsCommand(rx[1]) => out'[i].kind = "nav")
    BY <1>0, <1>1, <2>1, TakesLine
  <2> QED
    BY <2>2, MessagesAre DEF IsReply
<1>8. Noisy' => Noisy
  BY <1>3, <1>7 DEF Noisy
<1>9. ~Requested => (Replied' => Replied)
  BY <1>3, <1>4, <1>7 DEF Requested, Replied
<1>10. Idle'
  BY <1>2, <1>6, <1>9 DEF IInv, Idle
<1>11. InForce'
  BY <1>2 DEF IInv, InForce, Configured
<1>12. NoiseEarly'
  BY <1>2, <1>8 DEF IInv, NoiseEarly, Early
<1>13. Answering' /\ Whole'
  BY <1>1, TakesKeepAnswering, TakesKeepWhole
<1>14. QED
  BY <1>3, <1>5, <1>10, <1>11, <1>12, <1>13 DEF IInv

LEMMA NmeaKeeps ==
  ASSUME IInv, Nmea PROVE IInv'
<1>0. LineTypes /\ at \in At /\ cmd \in Command
      /\ back \in {"ready", "failed", "failed on", "closed"}
  BY TypesNow
<1>1. /\ power /\ "prt" \notin applied /\ out' = Append(out, Noise)
      /\ UNCHANGED <<hostVars, dataVars, receiverVars, auxVars, uart_conflict, faults>>
  BY DEF Nmea
<1>2. /\ Len(out) \in Nat /\ Len(out') = Len(out) + 1 /\ out' \in Seq(Answer \cup {Noise})
      /\ \A i \in 1..Len(out) : out'[i] = out[i]
      /\ out'[Len(out')] = Noise
  <2>1. out \in Seq(Answer \cup {Noise}) /\ Noise \in Answer \cup {Noise}
    BY <1>0 DEF LineTypes
  <2>2. /\ Len(out) \in Nat
        /\ Append(out, Noise) \in Seq(Answer \cup {Noise})
        /\ Len(Append(out, Noise)) = Len(out) + 1
        /\ \A i \in 1..Len(out) : Append(out, Noise)[i] = out[i]
        /\ Append(out, Noise)[Len(out) + 1] = Noise
    BY <2>1, AppendIs, LenProperties
  <2> QED
    BY <1>1, <2>2
<1>3. Early
  <2>1. "prt" \in Range(Configuration)
    BY ConfigurationIs
  <2>2. ~Configured /\ (at \in {"send", "ack"} => "prt" \notin Before(cmd))
    BY <1>1, <2>1 DEF IInv, InForce
  <2>3. at \in {"send", "ack"} => cmd \in {"rate", "prt"}
    <3>1. cmd \in UserCommand => "prt" \in Before(cmd)
      BY <2>1, BeforeIs
    <3>2. cmd \in {"nmea_ubx", "nmea_std", "sbas"} => "prt" \in Before(cmd)
      BY BeforeIs
    <3> QED
      BY <1>0, <2>2, <3>1, <3>2, ConfigurationIs DEF UserCommand
  <2> QED
    BY <1>0, <2>2, <2>3 DEF Early, Configured, At
<1>4. LineTypes' /\ UbxTypeOK'
  <2>1. LineTypes'
    BY <1>0, <1>1, <1>2 DEF LineTypes, receiverVars
  <2> QED
    BY <1>1, <2>1, TypesNow, TypesThen DEF hostVars, dataVars, receiverVars, auxVars
<1>5. \A i \in 1..Len(out') : i \in 1..Len(out) \/ i = Len(out')
  BY <1>2
<1>6. ~IsReply(Noise)
  BY MessagesAre
<1>7. Replied' => Replied
  BY <1>2, <1>5, <1>6 DEF Replied
<1>8. Idle'
  BY <1>1, <1>7 DEF IInv, Idle, Requested, hostVars, receiverVars
<1>9. Answering'
  <2> SUFFICES ASSUME at = "ack" PROVE Answering'
    BY <1>1 DEF Answering, hostVars
  <2>1. /\ \A i \in 1..Len(rx) : IsCommand(rx[i]) => i = Len(rx) /\ rx[i].of = cmd /\ rx[i].new
        /\ \A i \in 1..Len(out) : IsReply(out[i]) =>
             /\ rx = <<>>
             /\ out[i].kind = "ack" => executed
             /\ \A j \in i + 1..Len(out) : ~IsReply(out[j])
        /\ executed /\ power => cmd \in applied
    BY DEF IInv, Answering
  <2>2. ASSUME NEW i \in 1..Len(out'), IsReply(out'[i])
        PROVE  /\ rx = <<>>
               /\ out'[i].kind = "ack" => executed
               /\ \A j \in i + 1..Len(out') : ~IsReply(out'[j])
               /\ ~(out'[i].kind = "ack" /\ cmd = "prt")
    <3>1. i \in 1..Len(out) /\ out'[i] = out[i]
      BY <1>2, <1>5, <1>6, <2>2
    <3>2. /\ rx = <<>>
          /\ out[i].kind = "ack" => executed
          /\ \A j \in i + 1..Len(out) : ~IsReply(out[j])
      BY <2>1, <2>2, <3>1
    <3>3. ~(out'[i].kind = "ack" /\ cmd = "prt")
      BY <1>1, <2>1, <3>1, <3>2
    <3>4. ASSUME NEW j \in i + 1..Len(out') PROVE ~IsReply(out'[j])
      <4>1. j \in i + 1..Len(out) \/ j = Len(out')
        BY <1>2
      <4>2. CASE j \in i + 1..Len(out)
        <5>1. j \in 1..Len(out)
          BY <1>2, <3>1, <4>2
        <5> QED
          BY <1>2, <3>2, <4>2, <5>1
      <4>3. CASE j = Len(out')
        BY <1>2, <1>6, <4>3
      <4> QED
        BY <4>1, <4>2, <4>3
    <3> QED
      BY <3>1, <3>2, <3>3, <3>4
  <2> QED
    BY <1>1, <2>1, <2>2 DEF Answering, hostVars, receiverVars, auxVars
<1>10. InForce'
  BY <1>1 DEF IInv, InForce, Configured, hostVars, receiverVars
<1>11. NoiseEarly' /\ Whole'
  BY <1>1, <1>3 DEF NoiseEarly, Whole, Early, hostVars
<1>12. QED
  BY <1>4, <1>8, <1>9, <1>10, <1>11 DEF IInv

LEMMA PowerLostKeeps ==
  ASSUME IInv, PowerLost PROVE IInv'
<1>0. LineTypes /\ left \in 0..5
  BY TypesNow
<1>1. /\ power' = FALSE /\ applied' = {} /\ rx' = <<>> /\ out' = out
      /\ UNCHANGED <<hostVars, dataVars, auxVars, uart_conflict, faults>>
  BY DEF PowerLost
<1>2. LineTypes' /\ ~Requested' /\ Len(rx') = 0 /\ Len(rx) \in Nat /\ Len(out) \in Nat
      /\ (rx = <<>> <=> Len(rx) = 0)
  BY <1>0, <1>1, NoRequests, NoneIs DEF LineTypes
<1>3. UbxTypeOK'
  <2>1. applied' \in SUBSET Command /\ power' \in BOOLEAN
    BY <1>1
  <2> QED
    BY <1>1, <1>2, <2>1, TypesNow, TypesThen DEF hostVars, dataVars, auxVars
<1>4. Idle'
  BY <1>1, <1>2 DEF IInv, Idle, Replied, hostVars
<1>5. Answering'
  <2> SUFFICES ASSUME at = "ack" PROVE Answering'
    BY <1>1 DEF Answering, hostVars
  <2>1. \A i \in 1..Len(out) : IsReply(out[i]) =>
          /\ out[i].kind = "ack" => executed
          /\ \A j \in i + 1..Len(out) : ~IsReply(out[j])
          /\ out[i].kind = "ack" /\ cmd = "prt" => \A j \in i + 1..Len(out) : out[j] # Noise
    BY DEF IInv, Answering
  <2> QED
    BY <1>1, <1>2, <2>1 DEF Answering, hostVars, auxVars
<1>6. InForce'
  BY <1>1 DEF InForce
<1>7. NoiseEarly'
  BY <1>1 DEF IInv, NoiseEarly, Noisy, Early, hostVars
<1>8. Whole'
  <2>1. at' = at /\ left' = left /\ fix' = fix /\ clean' = clean
    BY <1>1 DEF hostVars, dataVars, auxVars
  <2>2. CASE at = "read" /\ clean
    <3>1. /\ Len(rx) + Len(out) <= left
          /\ \A i \in 1..Len(out) : out[i].kind = "nav" /\ out[i].new
          /\ Len(rx) + Len(out) = left =>
               /\ fix["status"] = "new" \/ Pending("status")
               /\ \A t \in {"posllh", "velned"} : fix[t] # "old" \/ Pending(t)
      BY <2>2 DEF IInv, Whole
    <3>2. /\ Len(rx') + Len(out') <= left
          /\ Len(rx') + Len(out') = left => Len(rx) + Len(out) = left /\ rx' = rx
      BY <1>0, <1>1, <1>2, <3>1
    <3>3. rx' = rx => \A t : Pending(t)' <=> Pending(t)
      BY <1>1 DEF Pending
    <3>4. Len(rx') + Len(out') = left =>
            /\ fix["status"] = "new" \/ Pending("status")'
            /\ \A t \in {"posllh", "velned"} : fix[t] # "old" \/ Pending(t)'
      BY <3>1, <3>2, <3>3
    <3>5. \A i \in 1..Len(rx') : rx'[i].new
      BY <1>2
    <3> QED
      BY <1>1, <2>1, <2>2, <3>1, <3>2, <3>4, <3>5 DEF Whole
  <2>3. CASE at = "publish" /\ clean
    BY <1>1, <2>1, <2>3 DEF IInv, Whole, CleanPollIsWhole
  <2>4. CASE ~clean \/ at \notin {"read", "publish"}
    BY <2>1, <2>4 DEF Whole
  <2> QED
    BY <2>2, <2>3, <2>4
<1>9. QED
  BY <1>2, <1>3, <1>4, <1>5, <1>6, <1>7, <1>8 DEF IInv

-----------------------------------------------------------------------------
(* The theorems *)

LEMMA InitHolds == Init => IInv
<1> SUFFICES ASSUME Init PROVE IInv
  OBVIOUS
<1>1. /\ at = "closed" /\ cmd = "rate" /\ back = "ready" /\ left = 0
      /\ time_synced = FALSE /\ uart_conflict = FALSE
      /\ fix = [t \in FixType |-> "none"]
      /\ power \in BOOLEAN /\ applied \in {{}, Range(Configuration)}
      /\ rx = <<>> /\ out = <<>> /\ executed = FALSE /\ clean = TRUE /\ faults = 0
  BY DEF Init
<1>2. rx \in Seq(Request) /\ out \in Seq(Answer \cup {Noise}) /\ Len(rx) = 0 /\ Len(out) = 0
  BY <1>1, EmptySeq
<1>3. UbxTypeOK
  <2>1. applied \in SUBSET Command /\ cmd \in Command
    BY <1>1, ConfigurationIs DEF Command
  <2>2. Range(rx) \subseteq Request /\ Range(out) \subseteq Answer \cup {Noise}
    BY <1>2, RangeIs
  <2>3. faults \in 0..MaxFaults
    BY <1>1, FaultAssumption
  <2>4. fix \in [FixType -> {"none", "new", "old"}]
    BY <1>1
  <2>5. at \in At /\ at # "read" /\ left \in 0..5
    BY <1>1 DEF At
  <2> QED
    BY <1>1, <2>1, <2>2, <2>3, <2>4, <2>5, TypeIs
<1>4. ~Requested /\ ~Replied /\ ~Noisy
  BY <1>2 DEF Requested, Replied, Noisy
<1>5. QED
  BY <1>1, <1>2, <1>3, <1>4
     DEF IInv, LineTypes, Idle, Answering, InForce, Configured, NoiseEarly, Whole

LEMMA StutterKeeps ==
  ASSUME IInv, UNCHANGED vars PROVE IInv'
<1>1. UNCHANGED <<at, cmd, back, left, time_synced, uart_conflict, fix, power, applied, rx, out,
                  executed, clean, faults>>
  BY DEF vars, hostVars, dataVars, receiverVars, auxVars
<1>2. LineTypes' /\ Idle'
  BY <1>1 DEF IInv, LineTypes, Idle, Requested, Replied
<1>3. UbxTypeOK'
  BY <1>1, <1>2, TypesNow, TypesThen
<1>4. Answering' /\ InForce' /\ NoiseEarly'
  BY <1>1 DEF IInv, Answering, InForce, Configured, NoiseEarly, Noisy, Early
<1>5. Whole'
  BY <1>1 DEF IInv, Whole, Pending, CleanPollIsWhole
<1>6. QED
  BY <1>2, <1>3, <1>4, <1>5 DEF IInv

LEMMA ThreadKeeps ==
  ASSUME IInv, Thread PROVE IInv'
BY OpenUartKeeps, OpenFailsKeeps, SendCommandKeeps, SendFailsKeeps, AcknowledgedKeeps, BadAckKeeps,
   SkipNoiseKeeps, TimeOutKeeps, FlushKeeps, PollGroupKeeps, PollWriteFailsKeeps,
   ParseResponseKeeps, ParseFailsKeeps, PublishKeeps, CheckFailureKeeps, SwitchToOgpsdKeeps,
   LoopOrSuspendKeeps DEF Thread

\* For any number of failures of the line and of the receiver: the commands and replies on the line
\* belong to the command that is awaited, and the answers to the poll that is read.
THEOREM UbxInvariant == Spec => []IInv
<1>1. IInv /\ [Next]_vars => IInv'
  BY ThreadKeeps, StartKeeps, LoopOrSuspendKeeps, ReceiverKeeps, NmeaKeeps, PowerLostKeeps,
     StutterKeeps DEF Next, Receiver
<1>2. QED
  BY InitHolds, <1>1, PTL DEF Spec

\* The variables of the link keep their types; ubx_poll_group counts the awaited answers down to
\* none and not below, even as the group loses a type half way.
THEOREM UbxTypeCorrect == Spec => []UbxTypeOK
<1>1. IInv => UbxTypeOK
  BY DEF IInv
<1>2. QED
  BY UbxInvariant, <1>1, PTL

\* While the thread polls, a receiver that has kept its power has carried out every command of
\* uart_init, however many of them were refused, lost or answered late before.
THEOREM ConfiguredCorrect == Spec => []ConfiguredWhilePolling
<1>1. IInv => ConfiguredWhilePolling
  BY DEF IInv, InForce, Configured, ConfiguredWhilePolling
<1>2. QED
  BY UbxInvariant, <1>1, PTL

\* A poll that began on an empty line and succeeds has read the whole group and nothing else, and
\* leaves the line empty.
THEOREM CleanPollCorrect == Spec => []CleanPollIsWhole
<1>1. IInv => CleanPollIsWhole
  BY DEF IInv, Whole, CleanPollIsWhole
<1>2. QED
  BY UbxInvariant, <1>1, PTL

\* ubx_read_ack never takes a late or left acknowledgement for that of the command sent last: when
\* it returns TRUE, the receiver has carried that command out.
THEOREM AckMeansExecutedCorrect == Spec => AckMeansExecuted
<1>1. IInv => [Acknowledged => executed]_vars
  BY AcknowledgedTells
<1>2. QED
  BY UbxInvariant, <1>1, PTL DEF AckMeansExecuted

============================================================================
