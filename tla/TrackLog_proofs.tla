-------------------------- MODULE TrackLog_proofs --------------------------
(***************************************************************************)
(* Proofs about TrackLog, for any capacity of the window and any length of *)
(* a week: types, the contiguity of the window, the account of the records *)
(* and the times of a file.                                                *)
(***************************************************************************)
EXTENDS TrackLog, SequenceTheorems, TLAPS

-----------------------------------------------------------------------------
(* Sequences of records *)

\* The ids of w run up to t - 1 without a gap.
Contiguous(w, t) == \A i \in 1..Len(w) : w[i].id = t - Len(w) + i - 1

LEMMA Part ==
  ASSUME NEW w \in Seq(Rec), NEW m \in 1..(Len(w) + 1), NEW n \in 0..Len(w)
  PROVE  /\ SubSeq(w, m, n) \in Seq(Rec)
         /\ Len(SubSeq(w, m, n)) = IF m <= n THEN n - m + 1 ELSE 0
         /\ \A i \in 1..(n - m + 1) : SubSeq(w, m, n)[i] = w[m + i - 1]
<1>1. Len(w) \in Nat /\ \A i \in m..n : w[i] \in Rec
  BY LenProperties, ElementOfSeq
<1> QED
  BY <1>1, SubSeqProperties

LEMMA IdsOfParts ==
  ASSUME NEW w \in Seq(Rec), NEW n \in 0..Len(w)
  PROVE  Ids(w) = Ids(SubSeq(w, 1, n)) \cup Ids(SubSeq(w, n + 1, Len(w)))
<1>1. Len(w) \in Nat
  BY LenProperties
<1> DEFINE u == SubSeq(w, 1, n)
           v == SubSeq(w, n + 1, Len(w))
<1>2. Len(u) = n /\ \A i \in 1..n : u[i] = w[i]
  BY <1>1, Part
<1>3. Len(v) = Len(w) - n /\ \A i \in 1..(Len(w) - n) : v[i] = w[n + i]
  <2>1. n + 1 \in 1..(Len(w) + 1)
    BY <1>1
  <2> QED
    BY <1>1, <2>1, Part
<1> HIDE DEF u, v
<1>4. Ids(u) \cup Ids(v) \subseteq Ids(w)
  BY <1>1, <1>2, <1>3 DEF Ids
<1>5. ASSUME NEW i \in 1..Len(w) PROVE w[i].id \in Ids(u) \cup Ids(v)
  <2>1. CASE i <= n
    BY <1>1, <1>2, <2>1 DEF Ids
  <2>2. CASE i > n
    <3>1. i - n \in 1..Len(v) /\ v[i - n] = w[i]
      BY <1>1, <1>3, <2>2
    <3> QED
      BY <3>1 DEF Ids
  <2> QED
    BY <1>1, <2>1, <2>2
<1>6. Ids(w) \subseteq Ids(u) \cup Ids(v)
  BY <1>5 DEF Ids
<1> QED
  BY <1>4, <1>6 DEF u, v

LEMMA IdsOfConcat ==
  ASSUME NEW u \in Seq(Rec), NEW v \in Seq(Rec)
  PROVE  Ids(u \o v) = Ids(u) \cup Ids(v)
<1>1. /\ Len(u) \in Nat /\ Len(v) \in Nat
      /\ Len(u \o v) = Len(u) + Len(v)
      /\ \A i \in 1..(Len(u) + Len(v)) : (u \o v)[i] = IF i <= Len(u) THEN u[i] ELSE v[i - Len(u)]
  BY LenProperties, ConcatProperties
<1> DEFINE w == u \o v
<1> HIDE DEF w
<1>2. Ids(w) \subseteq Ids(u) \cup Ids(v)
  BY <1>1 DEF Ids, w
<1>3. Ids(u) \subseteq Ids(w)
  BY <1>1 DEF Ids, w
<1>4. ASSUME NEW i \in 1..Len(v) PROVE v[i].id \in Ids(w)
  <2>1. Len(u) + i \in 1..Len(w) /\ w[Len(u) + i] = v[i]
    BY <1>1 DEF w
  <2> QED
    BY <2>1 DEF Ids
<1>5. Ids(v) \subseteq Ids(w)
  BY <1>4 DEF Ids
<1> QED
  BY <1>2, <1>3, <1>5 DEF w

LEMMA IdsType == ASSUME NEW w \in Seq(Rec) PROVE Ids(w) \in SUBSET Nat
<1>1. ASSUME NEW i \in 1..Len(w) PROVE w[i].id \in Nat
  <2>1. w[i] \in Rec
    BY ElementOfSeq
  <2> QED
    BY <2>1 DEF Rec
<1> QED
  BY <1>1 DEF Ids

\* Giving up the first n records keeps the rest contiguous.
LEMMA RemainingContiguous ==
  ASSUME NEW w \in Seq(Rec), NEW n \in 0..Len(w), NEW t \in Nat, Contiguous(w, t)
  PROVE  /\ Remaining(w, n) \in Seq(Rec)
         /\ Len(Remaining(w, n)) = Len(w) - n
         /\ \A i \in 1..(Len(w) - n) : Remaining(w, n)[i] = w[n + i]
         /\ Contiguous(Remaining(w, n), t)
<1>1. Len(w) \in Nat /\ n + 1 \in 1..(Len(w) + 1)
  BY LenProperties
<1>2. /\ Remaining(w, n) \in Seq(Rec)
      /\ Len(Remaining(w, n)) = Len(w) - n
      /\ \A i \in 1..(Len(w) - n) : Remaining(w, n)[i] = w[n + i]
  BY <1>1, Part DEF Remaining
<1> DEFINE r == Remaining(w, n)
<1> HIDE DEF r
<1>3. ASSUME NEW i \in 1..(Len(w) - n) PROVE r[i].id = t - (Len(w) - n) + i - 1
  <2>1. r[i] = w[n + i] /\ n + i \in 1..Len(w)
    BY <1>1, <1>2 DEF r
  <2>2. w[n + i].id = t - Len(w) + (n + i) - 1
    BY <2>1 DEF Contiguous
  <2> QED
    BY <1>1, <2>1, <2>2
<1> QED
  BY <1>2, <1>3 DEF Contiguous, r

\* A third and a half of a full window are each more than nothing and less than all.
LEMMA Fractions == \A k \in Nat : k >= 3 => k \div 3 \in 1..(k - 1) /\ k \div 2 \in 1..(k - 1)
  OBVIOUS

-----------------------------------------------------------------------------
(* The invariant *)

FileRec == [recs : Seq(Rec), count : Int, end : Int]

Frame == /\ enabled \in BOOLEAN /\ path \in BOOLEAN /\ listed \in Nat
         /\ tow \in 0..(Week - 1) /\ previous_tow \in 0..(Week - 1) /\ first_tow \in 0..(Week - 1)
         /\ lost \in SUBSET Nat
         /\ disk \in FileRec /\ closed \in FileRec

Win == /\ window \in Seq(Rec) /\ Len(window) < Capacity
       /\ total_count \in Nat
       /\ Contiguous(window, total_count)
       /\ last_drawn \in Int /\ last_drawn <= total_count

LEMMA NextTowType == ASSUME Frame PROVE NextTow \in 0..(Week - 1)
<1>1. Week \in Nat /\ Week > 0 /\ tow + 1 \in Int
  BY TrackAssumption DEF Frame
<1> QED
  BY <1>1 DEF NextTow

LEMMA GrownFacts ==
  ASSUME Frame, Win
  PROVE  /\ Grown \in Seq(Rec)
         /\ Len(Grown) = Len(window) + 1
         /\ \A i \in 1..Len(window) : Grown[i] = window[i]
         /\ Grown[Len(window) + 1].id = total_count
         /\ Grown[Len(window) + 1].off = NextTow - (IF window = <<>> THEN NextTow ELSE first_tow)
         /\ Contiguous(Grown, total_count + 1)
         /\ Ids(Grown) = Ids(window) \cup {total_count}
<1> DEFINE r == [id |-> total_count, off |-> NextTow - (IF window = <<>> THEN NextTow ELSE first_tow)]
<1>1. r \in Rec
  BY NextTowType DEF Frame, Win, Rec
<1>2. Grown = Append(window, r)
  BY DEF Grown
<1>3. Len(window) \in Nat
  BY LenProperties DEF Win
<1>4. /\ Grown \in Seq(Rec)
      /\ Len(Grown) = Len(window) + 1
      /\ \A i \in 1..Len(window) : Grown[i] = window[i]
      /\ Grown[Len(window) + 1] = r
  BY <1>1, <1>2, AppendProperties DEF Win
<1>5. Contiguous(Grown, total_count + 1)
  <2>1. ASSUME NEW i \in 1..Len(window) PROVE Grown[i].id = total_count - Len(window) + i - 1
    BY <1>4, <2>1 DEF Contiguous, Win
  <2>2. Grown[Len(window) + 1].id = total_count
    BY <1>4
  <2>3. total_count \in Nat
    BY DEF Win
  <2>4. ASSUME NEW i \in 1..(Len(window) + 1)
        PROVE  Grown[i].id = total_count + 1 - (Len(window) + 1) + i - 1
    BY <1>3, <2>1, <2>2, <2>3
  <2>5. Len(Grown) = Len(window) + 1
    BY <1>4
  <2>6. ASSUME NEW i \in 1..Len(Grown) PROVE Grown[i].id = (total_count + 1) - Len(Grown) + i - 1
    BY <1>3, <2>3, <2>4, <2>5
  <2> QED
    BY <2>6 DEF Contiguous
<1>6. Ids(Grown) = Ids(window) \cup {total_count}
  <2>1. Grown[Len(window) + 1].id = total_count
    BY <1>4
  <2>2. Ids(Grown) = {Grown[i].id : i \in 1..(Len(window) + 1)}
    BY <1>4 DEF Ids
  <2>3. 1..(Len(window) + 1) = 1..Len(window) \cup {Len(window) + 1}
    BY <1>3
  <2> QED
    BY <1>4, <2>1, <2>2, <2>3 DEF Ids
<1> QED
  BY <1>4, <1>5, <1>6

-----------------------------------------------------------------------------
(* What the operations do *)

\* A file in order: no offset is negative or beyond the end time of the header.
InOrder(file) == \A i \in 1..Len(file.recs) : file.recs[i].off \in 0..file.end

\* What is written is within 0 and the time of the last record of w, as w is.
LEMMA AppendedFacts ==
  ASSUME disk \in FileRec, NEW w \in Seq(Rec), Len(w) > 0, NEW n \in 0..Len(w), NEW t \in Int
  PROVE  LET a == Appended(w, n, t) IN
         /\ a \in FileRec
         /\ a.end = w[Len(w)].off
         /\ Ids(a.recs) = Ids(disk.recs) \cup Ids(SubSeq(w, 1, n))
         /\ ( /\ InOrder(disk)
              /\ disk.recs # <<>> => disk.end <= w[Len(w)].off
              /\ \A i \in 1..Len(w) : 0 <= w[i].off /\ w[i].off <= w[Len(w)].off )
            => InOrder(a)
<1> DEFINE u == disk.recs
           v == SubSeq(w, 1, n)
           a == Appended(w, n, t)
<1>1. Len(w) \in Nat /\ u \in Seq(Rec) /\ disk.end \in Int /\ w[Len(w)] \in Rec
  BY LenProperties, ElementOfSeq DEF FileRec
<1>4. a.recs = u \o v /\ a.end = w[Len(w)].off /\ a.count = t - (Len(w) - n)
  BY DEF Appended
<1>8. a = [recs |-> u \o v, count |-> t - (Len(w) - n), end |-> w[Len(w)].off]
  BY DEF Appended
<1>2. v \in Seq(Rec) /\ Len(v) = n /\ \A i \in 1..n : v[i] = w[i]
  BY <1>1, Part
<1>3. /\ Len(u) \in Nat /\ u \o v \in Seq(Rec)
      /\ Len(u \o v) = Len(u) + n
      /\ \A i \in 1..(Len(u) + n) : (u \o v)[i] = IF i <= Len(u) THEN u[i] ELSE v[i - Len(u)]
  <2> HIDE DEF u, v
  <2> QED
    BY <1>1, <1>2, LenProperties, ConcatProperties
<1>5. a \in FileRec
  <2>1. t - (Len(w) - n) \in Int /\ w[Len(w)].off \in Int
    BY <1>1 DEF Rec
  <2> HIDE DEF u, v, a
  <2> QED
    BY <1>3, <1>8, <2>1 DEF FileRec
<1>6. Ids(a.recs) = Ids(u) \cup Ids(v)
  BY <1>1, <1>2, <1>4, IdsOfConcat
<1> USE DEF InOrder
<1>9. InOrder(disk) <=> \A i \in 1..Len(u) : u[i].off \in 0..disk.end
  OBVIOUS
<1>10. InOrder(a) <=> \A i \in 1..Len(a.recs) : a.recs[i].off \in 0..a.end
  OBVIOUS
<1>7. ASSUME InOrder(disk), u # <<>> => disk.end <= w[Len(w)].off,
             \A i \in 1..Len(w) : 0 <= w[i].off /\ w[i].off <= w[Len(w)].off
      PROVE  InOrder(a)
  <2> HIDE DEF u, v, a, InOrder
  <2>1. ASSUME NEW i \in 1..(Len(u) + n) PROVE (u \o v)[i].off \in 0..w[Len(w)].off
    <3>1. w[Len(w)].off \in Int
      BY <1>1 DEF Rec
    <3>2. CASE i <= Len(u)
      <4>1. u # <<>> /\ i \in 1..Len(u)
        BY <1>3, <3>2
      <4>2. u[i].off \in 0..disk.end /\ disk.end <= w[Len(w)].off
        BY <1>7, <1>9, <4>1
      <4>3. u[i].off \in 0..w[Len(w)].off
        BY <1>1, <3>1, <4>2
      <4> QED
        BY <1>3, <3>2, <4>3
    <3>3. CASE i > Len(u)
      <4>1. i - Len(u) \in 1..n /\ i - Len(u) \in 1..Len(w)
        BY <1>1, <1>3, <3>3
      <4>2. (u \o v)[i] = w[i - Len(u)]
        BY <1>2, <1>3, <3>3, <4>1
      <4>3. w[i - Len(u)] \in Rec
        BY <4>1, ElementOfSeq
      <4>4. 0 <= w[i - Len(u)].off /\ w[i - Len(u)].off <= w[Len(w)].off
        BY <1>7, <4>1
      <4> QED
        BY <3>1, <4>2, <4>3, <4>4 DEF Rec
    <3> QED
      BY <1>3, <3>2, <3>3
  <2>2. Len(a.recs) = Len(u) + n
    BY <1>3, <1>4
  <2> QED
    BY <1>4, <1>10, <2>1, <2>2
<1> QED
  BY <1>4, <1>5, <1>6, <1>7

\* track_add stores the record, and makes room when the window is full.
LEMMA RecordCases ==
  ASSUME Frame, Win, Record
  PROVE  \/ window' = Grown /\ Len(window) + 1 < Capacity /\ UNCHANGED <<disk, lost>>
         \/ \E n \in 1..Len(window) :
              /\ window' = Remaining(Grown, n)
              /\ \/ enabled /\ disk' = Appended(Grown, n, total_count + 1) /\ UNCHANGED lost
                 \/ UNCHANGED disk /\ lost' = lost \cup Ids(SubSeq(Grown, 1, n))
<1>1. Len(window) \in Nat /\ Len(Grown) = Len(window) + 1 /\ Len(window) < Capacity
  BY GrownFacts, LenProperties DEF Win
<1>2. CASE ~IsFull(Grown)
  <2>1. window' = Grown /\ UNCHANGED <<disk, lost>>
    BY <1>2 DEF Record
  <2>2. Len(window) + 1 < Capacity
    BY <1>1, <1>2, TrackAssumption DEF IsFull
  <2> QED
    BY <2>1, <2>2
<1>3. CASE IsFull(Grown)
  <2>1. Len(Grown) = Capacity
    BY <1>1, <1>3, TrackAssumption DEF IsFull
  <2>2. Len(Grown) \div 3 \in 1..Len(window) /\ Len(Grown) \div 2 \in 1..Len(window)
    <3>1. Len(Grown) \in Nat /\ Len(Grown) >= 3
      BY <2>1, TrackAssumption
    <3>2. Len(Grown) \div 3 \in 1..(Len(Grown) - 1) /\ Len(Grown) \div 2 \in 1..(Len(Grown) - 1)
      BY <3>1, Fractions
    <3>3. Len(Grown) - 1 = Len(window)
      BY <1>1
    <3> QED
      BY <3>2, <3>3
  <2>3. \/ /\ enabled
           /\ disk' = Appended(Grown, Len(Grown) \div 3, total_count + 1)
           /\ window' = Remaining(Grown, Len(Grown) \div 3)
           /\ UNCHANGED lost
        \/ /\ window' = Remaining(Grown, Len(Grown) \div 2)
           /\ lost' = lost \cup Ids(SubSeq(Grown, 1, Len(Grown) \div 2))
           /\ UNCHANGED disk
    BY <1>3 DEF Record, Save
  <2> QED
    BY <2>2, <2>3
<1> QED
  BY <1>2, <1>3

LEMMA SaveAllCases ==
  ASSUME SaveAll, listed \in Nat
  PROVE  /\ listed' \in Nat
         /\ \/ UNCHANGED disk
            \/ window # <<>> /\ disk' = Appended(window, Len(window), total_count)
  BY DEF SaveAll, Save

-----------------------------------------------------------------------------
(* Preservation: types and window *)

LEMMA EmptyFile == Empty \in FileRec /\ Ids(<<>>) = {}
<1>1. <<>> \in Seq(Rec) /\ Len(<<>>) = 0
  BY EmptySeq
<1> QED
  BY <1>1 DEF Empty, FileRec, Ids

LEMMA FrameInit == Init => Frame /\ Win
<1> SUFFICES ASSUME Init PROVE Frame /\ Win
  OBVIOUS
<1>1. window \in Seq(Rec) /\ Len(window) = 0 /\ 0 < Capacity
  BY EmptySeq, TrackAssumption DEF Init
<1>2. Win
  BY <1>1 DEF Init, Win, Contiguous
<1>3. 0 \in 0..(Week - 1)
  BY TrackAssumption
<1> QED
  BY <1>2, <1>3, EmptyFile DEF Init, Frame

LEMMA StartTrackFacts ==
  ASSUME Frame, StartTrack
  PROVE  /\ window' = <<>> /\ window' \in Seq(Rec) /\ Len(window') = 0
         /\ Win'
         /\ path' \in BOOLEAN /\ listed' \in Nat
         /\ previous_tow' \in 0..(Week - 1) /\ first_tow' \in 0..(Week - 1)
         /\ lost' = {} /\ disk' = Empty
<1>1. /\ window' = <<>> /\ total_count' = 0 /\ last_drawn' = 0
      /\ previous_tow' = 0 /\ first_tow' = 0 /\ lost' = {} /\ disk' = Empty /\ listed' = 0
  BY DEF StartTrack
<1>2. path' \in BOOLEAN
  BY DEF StartTrack
<1>3. window' \in Seq(Rec) /\ Len(window') = 0
  BY <1>1, EmptySeq
<1>4. 0 \in 0..(Week - 1) /\ 0 < Capacity
  BY TrackAssumption
<1>5. Win'
  BY <1>1, <1>3, <1>4 DEF Win, Contiguous
<1> QED
  BY <1>1, <1>2, <1>3, <1>4, <1>5

LEMMA WinNext == ASSUME Frame, Win, [Next]_vars PROVE Win'
<1>q. ASSUME UNCHANGED <<window, total_count, last_drawn>> PROVE Win'
  BY <1>q DEF Win, Contiguous
<1>1. CASE Split \/ NewTrack
  BY <1>1, StartTrackFacts DEF Split, NewTrack
<1>2. CASE Record
  <2>1. /\ total_count' = total_count + 1 /\ last_drawn' = last_drawn
        /\ total_count \in Nat /\ last_drawn \in Int /\ last_drawn <= total_count
        /\ Len(window) \in Nat /\ Len(window) < Capacity
    BY <1>2, LenProperties DEF Record, Win
  <2>2. CASE window' = Grown /\ Len(window) + 1 < Capacity
    BY <2>1, <2>2, GrownFacts DEF Win
  <2>3. ASSUME NEW n \in 1..Len(window), window' = Remaining(Grown, n) PROVE Win'
    <3>1. /\ Grown \in Seq(Rec) /\ n \in 0..Len(Grown) /\ Len(Grown) = Len(window) + 1
          /\ total_count + 1 \in Nat /\ Contiguous(Grown, total_count + 1)
      BY <2>1, GrownFacts
    <3>2. /\ window' \in Seq(Rec)
          /\ Len(window') = Len(window) + 1 - n
          /\ Contiguous(window', total_count + 1)
      BY <2>3, <3>1, RemainingContiguous
    <3>3. Len(window') < Capacity
      BY <2>1, <3>2, TrackAssumption
    <3> QED
      BY <2>1, <3>2, <3>3 DEF Win
  <2> QED
    BY <1>2, <2>2, <2>3, RecordCases
<1>3. CASE Draw
  <2>1. UNCHANGED <<window, total_count>> /\ last_drawn' = total_count - 1
    BY <1>3 DEF Draw
  <2> QED
    BY <2>1 DEF Win, Contiguous
<1>4. CASE Still \/ Suspend \/ StopTrack \/ Delete \/ UNCHANGED vars
  BY <1>4, <1>q DEF Still, Suspend, StopTrack, Delete, trackVars, vars
<1> QED
  BY <1>1, <1>2, <1>3, <1>4 DEF Next

\* Only Split closes a file.
LEMMA Closes ==
  Still \/ Record \/ Suspend \/ NewTrack \/ StopTrack \/ Delete \/ Draw => closed' = Empty
  BY DEF Still, Record, Suspend, NewTrack, StopTrack, Delete, Draw

LEMMA FrameNext == ASSUME Frame, Win, [Next]_vars PROVE Frame'
<1>a. Len(window) \in Nat /\ (window # <<>> => Len(window) > 0 /\ Len(window) \in 0..Len(window))
  BY LenProperties, EmptySeq DEF Win
<1>s. ASSUME SaveAll PROVE disk' \in FileRec /\ listed' \in Nat
  BY <1>a, <1>s, SaveAllCases, AppendedFacts DEF Frame, Win
<1>t. NextTow \in 0..(Week - 1)
  BY NextTowType
<1>e. closed' = Empty => closed' \in FileRec
  BY EmptyFile
<1>1. CASE Split
  <2>1. closed' \in FileRec
    <3>1. PICK ok \in Opens : closed' = IF ok THEN Appended(window, Len(window), total_count) ELSE disk
      BY <1>1 DEF Split
    <3>2. window # <<>>
      BY <1>1 DEF Split, NewWeek
    <3> QED
      BY <1>a, <3>1, <3>2, AppendedFacts DEF Frame, Win
  <2>2. enabled' = enabled /\ tow' = NextTow /\ StartTrack
    BY <1>1 DEF Split
  <2> QED
    BY <1>t, <2>1, <2>2, StartTrackFacts, EmptyFile DEF Frame
<1>2. CASE Record /\ closed' = Empty
  <2>1. /\ enabled' = enabled /\ path' = path /\ listed' = listed
        /\ tow' = NextTow /\ previous_tow' = NextTow
        /\ first_tow' = IF window = <<>> THEN NextTow ELSE first_tow
    BY <1>2 DEF Record
  <2>2. /\ Grown \in Seq(Rec) /\ Len(Grown) > 0 /\ Len(Grown) = Len(window) + 1
        /\ Contiguous(Grown, total_count + 1) /\ total_count + 1 \in Int /\ Ids(Grown) \subseteq Nat
    <3>1. Ids(Grown) \subseteq Nat
      BY GrownFacts, IdsType
    <3> QED
      BY <1>a, <3>1, GrownFacts DEF Win
  <2>3. ASSUME NEW n \in 1..Len(window)
        PROVE  /\ Appended(Grown, n, total_count + 1) \in FileRec
               /\ lost \cup Ids(SubSeq(Grown, 1, n)) \in SUBSET Nat
    <3>1. n \in 0..Len(Grown)
      BY <1>a, <2>2
    <3>2. Ids(SubSeq(Grown, 1, n)) \subseteq Ids(Grown)
      BY <2>2, <3>1, IdsOfParts
    <3> QED
      BY <2>2, <3>1, <3>2, AppendedFacts DEF Frame
  <2>4. disk' \in FileRec /\ lost' \in SUBSET Nat
    BY <1>2, <2>3, RecordCases DEF Frame
  <2> QED
    BY <1>2, <1>t, <1>e, <2>1, <2>4 DEF Frame
<1>3. CASE (Suspend \/ StopTrack) /\ closed' = Empty
  <2>1. SaveAll /\ UNCHANGED <<tow, trackVars, path>> /\ enabled' \in {enabled, FALSE}
    BY <1>3 DEF Suspend, StopTrack
  <2> QED
    BY <1>3, <1>s, <1>e, <2>1 DEF Frame, trackVars
<1>4. CASE NewTrack /\ closed' = Empty
  <2>1. StartTrack /\ enabled' = path' /\ tow' = tow
    BY <1>4 DEF NewTrack
  <2> QED
    BY <1>4, <1>e, <2>1, StartTrackFacts, EmptyFile DEF Frame
<1>5. CASE Delete /\ closed' = Empty
  <2>1. Ids(disk.recs) \subseteq Nat
    <3>1. disk.recs \in Seq(Rec)
      BY DEF Frame, FileRec
    <3> QED
      BY <3>1, IdsType
  <2>2. listed' \in Nat
    BY <1>5 DEF Delete, Frame
  <2> QED
    BY <1>5, <1>e, <2>1, <2>2, EmptyFile DEF Delete, Frame
<1>6. CASE (Still \/ Draw) /\ closed' = Empty
  BY <1>6, <1>e, <1>t DEF Still, Draw, Frame, trackVars, fileVars
<1>7. CASE UNCHANGED vars
  BY <1>7 DEF vars, trackVars, fileVars, Frame
<1> QED
  BY <1>1, <1>2, <1>3, <1>4, <1>5, <1>6, <1>7, Closes DEF Next

-----------------------------------------------------------------------------
(* Preservation: every record is in the window, in the file or accounted for *)

Cover == 0..(total_count - 1) = Ids(window) \cup lost \cup Ids(disk.recs)

LEMMA CoverNext == ASSUME Frame, Win, Cover, [Next]_vars PROVE Cover'
<1>a. /\ Len(window) \in Nat /\ window \in Seq(Rec) /\ total_count \in Nat
      /\ (window # <<>> => Len(window) > 0 /\ Len(window) \in 0..Len(window))
  BY LenProperties, EmptySeq DEF Win
<1>b. disk \in FileRec
  BY DEF Frame
<1>q. ASSUME UNCHANGED <<window, total_count, lost, disk>> PROVE Cover'
  BY <1>q DEF Cover, Ids
<1>1. CASE Split \/ NewTrack
  <2>1. StartTrack
    BY <1>1 DEF Split, NewTrack
  <2>2. window' = <<>> /\ total_count' = 0 /\ lost' = {} /\ disk'.recs = <<>>
    BY <2>1 DEF StartTrack, Empty
  <2>3. Ids(window') = {} /\ Ids(disk'.recs) = {}
    BY <2>2, EmptyFile
  <2>4. 0..(0 - 1) = {}
    OBVIOUS
  <2> QED
    BY <2>2, <2>3, <2>4 DEF Cover, Ids
<1>2. CASE Record
  <2>1. /\ Grown \in Seq(Rec) /\ Len(Grown) = Len(window) + 1 /\ Len(Grown) > 0
        /\ Ids(Grown) = Ids(window) \cup {total_count}
    BY <1>a, GrownFacts
  <2>2. total_count' = total_count + 1
    BY <1>2 DEF Record
  <2>3. 0..(total_count + 1 - 1) = 0..(total_count - 1) \cup {total_count}
    BY <1>a
  <2>4. 0..(total_count' - 1) = Ids(Grown) \cup lost \cup Ids(disk.recs)
    BY <2>1, <2>2, <2>3 DEF Cover
  <2>5. CASE window' = Grown /\ UNCHANGED <<disk, lost>>
    <3>1. Ids(window') = Ids(Grown)
      BY <2>5
    <3> QED
      BY <2>4, <2>5, <3>1 DEF Cover, Ids
  <2>6. ASSUME NEW n \in 1..Len(window), window' = Remaining(Grown, n),
               \/ disk' = Appended(Grown, n, total_count + 1) /\ UNCHANGED lost
               \/ UNCHANGED disk /\ lost' = lost \cup Ids(SubSeq(Grown, 1, n))
        PROVE  Cover'
    <3>1. n \in 0..Len(Grown) /\ total_count + 1 \in Int
      BY <1>a, <2>1
    <3>2. Ids(Grown) = Ids(SubSeq(Grown, 1, n)) \cup Ids(window')
      BY <2>1, <2>6, <3>1, IdsOfParts DEF Remaining
    <3>3. lost' \cup Ids(disk'.recs) = lost \cup Ids(disk.recs) \cup Ids(SubSeq(Grown, 1, n))
      <4>1. Ids(Appended(Grown, n, total_count + 1).recs) = Ids(disk.recs) \cup Ids(SubSeq(Grown, 1, n))
        BY <1>b, <2>1, <3>1, AppendedFacts
      <4> QED
        BY <2>6, <4>1
    <3>4. 0..(total_count' - 1) = Ids(window') \cup lost' \cup Ids(disk'.recs)
      BY <2>4, <3>2, <3>3
    <3> QED
      BY <3>4 DEF Cover, Ids
  <2> QED
    BY <1>2, <2>5, <2>6, RecordCases
<1>3. CASE Suspend \/ StopTrack
  <2>1. SaveAll /\ UNCHANGED <<window, total_count, lost>>
    BY <1>3 DEF Suspend, StopTrack, trackVars
  <2>2. CASE UNCHANGED disk
    BY <1>q, <2>1, <2>2
  <2>3. CASE window # <<>> /\ disk' = Appended(window, Len(window), total_count)
    <3>1. Ids(disk'.recs) = Ids(disk.recs) \cup Ids(SubSeq(window, 1, Len(window)))
      BY <1>a, <1>b, <2>3, AppendedFacts
    <3>2. Ids(SubSeq(window, 1, Len(window))) \subseteq Ids(window)
      BY <1>a, <2>3, IdsOfParts
    <3>3. Ids(window') = Ids(window) /\ total_count' = total_count /\ lost' = lost
      BY <2>1
    <3>4. 0..(total_count' - 1) = Ids(window') \cup lost' \cup Ids(disk'.recs)
      BY <3>1, <3>2, <3>3 DEF Cover
    <3> QED
      BY <3>4 DEF Cover, Ids
  <2> QED
    BY <2>1, <2>2, <2>3, SaveAllCases DEF Frame
<1>4. CASE Delete
  <2>1. /\ window' = window /\ total_count' = total_count
        /\ lost' = lost \cup Ids(disk.recs) /\ disk'.recs = <<>>
    BY <1>4 DEF Delete, Empty
  <2>2. Ids(disk'.recs) = {} /\ Ids(window') = Ids(window)
    BY <2>1, EmptyFile
  <2>3. 0..(total_count' - 1) = Ids(window') \cup lost' \cup Ids(disk'.recs)
    BY <2>1, <2>2 DEF Cover
  <2> QED
    BY <2>3 DEF Cover, Ids
<1>5. CASE Still \/ Draw \/ UNCHANGED vars
  BY <1>5, <1>q DEF Still, Draw, trackVars, fileVars, vars
<1> QED
  BY <1>1, <1>2, <1>3, <1>4, <1>5 DEF Next

-----------------------------------------------------------------------------
(* Preservation: times *)

\* The offsets of w are not negative and do not go back.
Ordered(w) == \A i, j \in 1..Len(w) : i <= j => 0 <= w[i].off /\ w[i].off <= w[j].off

\* The window goes on where its file ends: the last record of the window is the last one taken.
Running ==
  /\ Ordered(window)
  /\ window = <<>> => disk.recs = <<>>
  /\ window # <<>> => /\ window[Len(window)].off = previous_tow - first_tow
                      /\ disk.recs # <<>> => disk.end <= window[Len(window)].off

Times == InOrder(disk) /\ InOrder(closed) /\ (enabled => Running)

LEMMA EmptyInOrder == InOrder(Empty) /\ Ordered(<<>>)
<1>1. Len(<<>>) = 0
  BY EmptySeq
<1> QED
  BY <1>1 DEF InOrder, Ordered, Empty

\* Anything appended from an ordered, non-empty w leaves the file in order.
LEMMA AppendedInOrder ==
  ASSUME disk \in FileRec, InOrder(disk), NEW w \in Seq(Rec), Len(w) > 0, Ordered(w),
         disk.recs # <<>> => disk.end <= w[Len(w)].off, NEW n \in 0..Len(w), NEW t \in Int
  PROVE  /\ InOrder(Appended(w, n, t))
         /\ Appended(w, n, t).end = w[Len(w)].off
<1>1. Len(w) \in Nat
  BY LenProperties
<1>2. \A i \in 1..Len(w) : 0 <= w[i].off /\ w[i].off <= w[Len(w)].off
  BY <1>1 DEF Ordered
<1> QED
  BY <1>2, AppendedFacts

LEMMA GrownOrdered ==
  ASSUME Frame, Win, Running, ~(window # <<>> /\ NextTow < previous_tow)
  PROVE  /\ Ordered(Grown)
         /\ Grown[Len(window) + 1].off = NextTow - (IF window = <<>> THEN NextTow ELSE first_tow)
         /\ disk.recs # <<>> => disk.end <= Grown[Len(window) + 1].off
<1> DEFINE last == Grown[Len(window) + 1].off
<1>1. /\ Len(window) \in Nat /\ Len(Grown) = Len(window) + 1
      /\ NextTow \in Int /\ previous_tow \in Int /\ first_tow \in Int
  BY GrownFacts, NextTowType, LenProperties, TrackAssumption DEF Win, Frame
<1>2. last = NextTow - (IF window = <<>> THEN NextTow ELSE first_tow)
  BY GrownFacts
<1>3. \A i \in 1..Len(window) : Grown[i] = window[i] /\ window[i] \in Rec
  BY GrownFacts, ElementOfSeq DEF Win
<1>4. CASE window = <<>>
  <2>1. Len(window) = 0 /\ disk.recs = <<>>
    BY <1>4, EmptySeq DEF Running
  <2>2. last = 0
    BY <1>1, <1>2, <1>4
  <2>3. Ordered(Grown)
    BY <1>1, <2>1, <2>2 DEF Ordered
  <2> QED
    BY <1>2, <2>1, <2>3
<1>5. CASE window # <<>>
  <2>1. Len(window) \in 1..Len(window)
    BY <1>1, <1>5, EmptySeq DEF Win
  <2>2. last = NextTow - first_tow /\ NextTow >= previous_tow
    BY <1>1, <1>2, <1>5
  <2>3. window[Len(window)].off = previous_tow - first_tow /\ window[Len(window)].off <= last
    BY <1>1, <1>5, <2>2 DEF Running
  <2>4. ASSUME NEW i \in 1..Len(window)
        PROVE  /\ Grown[i].off = window[i].off /\ window[i].off \in Int
               /\ 0 <= window[i].off /\ window[i].off <= window[Len(window)].off
    <3>1. Grown[i].off = window[i].off /\ window[i].off \in Int
      BY <1>3 DEF Rec
    <3>2. i <= Len(window)
      BY <1>1
    <3>3. 0 <= window[i].off /\ window[i].off <= window[Len(window)].off
      BY <2>1, <3>2 DEF Running, Ordered
    <3> QED
      BY <3>1, <3>3
  <2>5. window[Len(window)].off \in Int /\ last \in Int
    BY <1>1, <2>2, <2>3
  <2>6. Ordered(Grown)
    <3>1. ASSUME NEW i \in 1..Len(Grown), NEW j \in 1..Len(Grown), i <= j
          PROVE  0 <= Grown[i].off /\ Grown[i].off <= Grown[j].off
      <4>1. CASE j \in 1..Len(window)
        <5>1. i \in 1..Len(window)
          BY <1>1, <3>1, <4>1
        <5>2. 0 <= window[i].off /\ window[i].off <= window[j].off
          BY <3>1, <4>1, <5>1 DEF Running, Ordered
        <5> QED
          BY <1>3, <4>1, <5>1, <5>2
      <4>2. CASE j = Len(window) + 1
        <5>1. Grown[j].off = last
          BY <4>2
        <5>2. CASE i \in 1..Len(window)
          BY <2>3, <2>4, <2>5, <5>1, <5>2
        <5>3. CASE i = Len(window) + 1
          <6>1. 0 <= last
            BY <2>1, <2>3, <2>4, <2>5
          <6> QED
            BY <2>5, <5>1, <5>3, <6>1
        <5> QED
          BY <1>1, <5>2, <5>3
      <4> QED
        BY <1>1, <4>1, <4>2
    <3> QED
      BY <3>1 DEF Ordered
  <2>7. ASSUME disk.recs # <<>> PROVE disk.end <= last
    <3>1. disk.end <= window[Len(window)].off /\ disk.end \in Int
      BY <1>5, <2>7 DEF Running, Frame, FileRec
    <3> QED
      BY <2>3, <2>5, <3>1
  <2> QED
    BY <1>2, <2>6, <2>7
<1> QED
  BY <1>4, <1>5

LEMMA TimesInit == Init => Times
<1> SUFFICES ASSUME Init PROVE Times
  OBVIOUS
<1>1. disk = Empty /\ closed = Empty /\ ~enabled
  BY DEF Init
<1>2. InOrder(disk) <=> InOrder(Empty)
  BY <1>1
<1> QED
  BY <1>1, EmptyInOrder DEF Times

\* What SaveAll writes leaves the file in order, and behind the window.
LEMMA SaveAllTimes ==
  ASSUME Frame, Win, Times, enabled, SaveAll, UNCHANGED <<window, previous_tow, first_tow>>
  PROVE  InOrder(disk)' /\ Running'
<1>a. /\ Len(window) \in Nat /\ window \in Seq(Rec) /\ total_count \in Nat /\ disk \in FileRec
      /\ Running /\ InOrder(disk)
      /\ window # <<>> => Len(window) > 0 /\ Len(window) \in 0..Len(window) /\ Len(window) \in 1..Len(window)
  BY LenProperties, EmptySeq DEF Win, Frame, Times
<1>1. CASE UNCHANGED disk
  BY <1>a, <1>1 DEF Running, Ordered, InOrder
<1>2. CASE window # <<>> /\ disk' = Appended(window, Len(window), total_count)
  <2> DEFINE a == Appended(window, Len(window), total_count)
  <2>1. InOrder(a) /\ a.end = window[Len(window)].off
    <3>1. Ordered(window) /\ (disk.recs # <<>> => disk.end <= window[Len(window)].off)
      BY <1>a, <1>2 DEF Running
    <3> QED
      BY <1>a, <1>2, <3>1, AppendedInOrder
  <2>2. window[Len(window)].off = previous_tow - first_tow
    BY <1>a, <1>2 DEF Running
  <2>3. window[Len(window)].off \in Int
    <3>1. window[Len(window)] \in Rec
      BY <1>a, <1>2, ElementOfSeq
    <3> QED
      BY <3>1 DEF Rec
  <2>4. InOrder(disk)'
    BY <1>2, <2>1 DEF InOrder
  <2>5. disk'.end <= window'[Len(window')].off
    BY <1>2, <2>1, <2>3
  <2>6. Ordered(window)'
    BY <1>a DEF Running, Ordered
  <2> QED
    BY <1>2, <2>2, <2>4, <2>5, <2>6 DEF Running
<1> QED
  BY <1>1, <1>2, SaveAllCases DEF Frame

LEMMA RecordTimes ==
  ASSUME Frame, Win, Times, Record PROVE InOrder(disk)' /\ (enabled => Running')
<1>a. /\ Len(window) \in Nat /\ Len(Grown) = Len(window) + 1 /\ Grown \in Seq(Rec) /\ Len(Grown) > 0
      /\ disk \in FileRec /\ total_count + 1 \in Int /\ Contiguous(Grown, total_count + 1)
      /\ total_count + 1 \in Nat /\ InOrder(disk)
  BY GrownFacts, LenProperties DEF Win, Frame, Times
<1>b. /\ ~NewWeek /\ previous_tow' = NextTow
      /\ first_tow' = IF window = <<>> THEN NextTow ELSE first_tow
  BY DEF Record
<1>c. ASSUME enabled
      PROVE  /\ Ordered(Grown)
             /\ Grown[Len(Grown)].off = previous_tow' - first_tow'
             /\ disk.recs # <<>> => disk.end <= Grown[Len(Grown)].off
  BY <1>a, <1>b, <1>c, GrownOrdered DEF Times, NewWeek
<1>d. Grown[Len(Grown)].off \in Int
  <2>1. Grown[Len(Grown)] \in Rec
    BY <1>a, ElementOfSeq
  <2> QED
    BY <2>1 DEF Rec
<1>1. CASE window' = Grown /\ UNCHANGED <<disk, lost>>
  <2>1. window' # <<>>
    BY <1>a, <1>1, EmptySeq
  <2>2. InOrder(disk)'
    BY <1>a, <1>1 DEF InOrder
  <2>3. ASSUME enabled PROVE Running'
    BY <1>1, <1>c, <2>1, <2>3 DEF Running, Ordered
  <2> QED
    BY <2>2, <2>3
<1>2. ASSUME NEW n \in 1..Len(window), window' = Remaining(Grown, n),
             \/ enabled /\ disk' = Appended(Grown, n, total_count + 1)
             \/ UNCHANGED disk
      PROVE  InOrder(disk)' /\ (enabled => Running')
  <2>1. /\ n \in 0..Len(Grown)
        /\ window' \in Seq(Rec) /\ Len(window') = Len(Grown) - n
        /\ \A i \in 1..(Len(Grown) - n) : window'[i] = Grown[n + i]
    <3>1. n \in 0..Len(Grown)
      BY <1>a
    <3> QED
      BY <1>a, <1>2, <3>1, RemainingContiguous
  <2>2. /\ window' # <<>> /\ window'[Len(window')] = Grown[Len(Grown)]
    BY <1>a, <2>1, EmptySeq
  <2>3. ASSUME enabled PROVE Ordered(window)'
    <3>1. ASSUME NEW i \in 1..Len(window'), NEW j \in 1..Len(window'), i <= j
          PROVE  0 <= window'[i].off /\ window'[i].off <= window'[j].off
      <4>1. n + i \in 1..Len(Grown) /\ n + j \in 1..Len(Grown) /\ n + i <= n + j
        BY <1>a, <2>1, <3>1
      <4>2. 0 <= Grown[n + i].off /\ Grown[n + i].off <= Grown[n + j].off
        BY <1>c, <2>3, <4>1 DEF Ordered
      <4>3. window'[i] = Grown[n + i] /\ window'[j] = Grown[n + j]
        BY <2>1
      <4> QED
        BY <4>2, <4>3
    <3> QED
      BY <3>1 DEF Ordered
  <2>4. InOrder(disk)' /\ (enabled => (disk'.recs # <<>> => disk'.end <= Grown[Len(Grown)].off))
    <3>1. CASE enabled /\ disk' = Appended(Grown, n, total_count + 1)
      <4>1. InOrder(disk') /\ disk'.end = Grown[Len(Grown)].off
        BY <1>a, <1>c, <2>1, <3>1, AppendedInOrder
      <4> QED
        BY <1>d, <4>1 DEF InOrder
    <3>2. CASE UNCHANGED disk
      BY <1>a, <1>c, <3>2 DEF InOrder
    <3> QED
      BY <1>2, <3>1, <3>2
  <2>5. ASSUME enabled PROVE Running'
    BY <1>c, <2>2, <2>3, <2>4, <2>5 DEF Running
  <2> QED
    BY <2>4, <2>5
<1> QED
  BY <1>1, <1>2, RecordCases

LEMMA TimesNext == ASSUME Frame, Win, Times, [Next]_vars PROVE Times'
<1>e. closed' = Empty => InOrder(closed)'
  BY EmptyInOrder DEF InOrder
<1>s. ASSUME StartTrack PROVE InOrder(disk)' /\ Running'
  <2>1. window' = <<>> /\ disk' = Empty
    BY <1>s DEF StartTrack
  <2> QED
    BY <2>1, EmptyInOrder DEF Running, Ordered, InOrder, Empty
<1>1. CASE Split
  <2>1. InOrder(closed)'
    <3>1. PICK ok \in Opens : closed' = IF ok THEN Appended(window, Len(window), total_count) ELSE disk
      BY <1>1 DEF Split
    <3>2. window # <<>> /\ enabled
      BY <1>1 DEF Split, NewWeek
    <3>3. /\ Len(window) > 0 /\ Len(window) \in 0..Len(window) /\ total_count \in Int
          /\ window \in Seq(Rec) /\ disk \in FileRec
      BY <3>2, LenProperties, EmptySeq DEF Win, Frame
    <3>4. /\ InOrder(disk) /\ Ordered(window)
          /\ disk.recs # <<>> => disk.end <= window[Len(window)].off
      BY <3>2 DEF Times, Running
    <3>5. InOrder(Appended(window, Len(window), total_count))
      BY <3>3, <3>4, AppendedInOrder
    <3> QED
      BY <3>1, <3>4, <3>5 DEF InOrder
  <2>2. StartTrack
    BY <1>1 DEF Split
  <2> QED
    BY <1>s, <2>1, <2>2 DEF Times
<1>2. CASE Record /\ closed' = Empty
  <2>1. enabled' = enabled
    BY <1>2 DEF Record
  <2> QED
    BY <1>2, <1>e, <2>1, RecordTimes DEF Times
<1>3. CASE (Suspend \/ StopTrack) /\ closed' = Empty
  <2>1. enabled /\ SaveAll /\ UNCHANGED <<window, previous_tow, first_tow>>
    BY <1>3 DEF Suspend, StopTrack, trackVars
  <2> QED
    BY <1>3, <1>e, <2>1, SaveAllTimes DEF Times
<1>4. CASE NewTrack /\ closed' = Empty
  BY <1>4, <1>e, <1>s DEF Times, NewTrack
<1>5. CASE Delete /\ closed' = Empty
  <2>1. disk' = Empty /\ UNCHANGED <<enabled, window, previous_tow, first_tow>>
    BY <1>5 DEF Delete
  <2>2. InOrder(disk)'
    BY <2>1, EmptyInOrder DEF InOrder
  <2>3. Running => Running'
    BY <2>1 DEF Running, Ordered, Empty
  <2> QED
    BY <1>5, <1>e, <2>1, <2>2, <2>3 DEF Times
<1>6. CASE (Still \/ Draw) /\ closed' = Empty
  <2>1. UNCHANGED <<enabled, window, previous_tow, first_tow, disk>>
    BY <1>6 DEF Still, Draw, trackVars, fileVars
  <2> QED
    BY <1>6, <1>e, <2>1 DEF Times, Running, Ordered, InOrder
<1>7. CASE UNCHANGED vars
  BY <1>7 DEF vars, trackVars, fileVars, Times, Running, Ordered, InOrder
<1> QED
  BY <1>1, <1>2, <1>3, <1>4, <1>5, <1>6, <1>7, Closes DEF Next

-----------------------------------------------------------------------------
(* The theorems *)

TrackInv == Frame /\ Win /\ Cover /\ Times

LEMMA TrackInvInductive == Spec => []TrackInv
<1>1. Init => TrackInv
  <2> SUFFICES ASSUME Init PROVE Cover
    BY FrameInit, TimesInit DEF TrackInv
  <2>1. 0..(0 - 1) = {}
    OBVIOUS
  <2> QED
    BY <2>1, EmptyFile DEF Init, Empty, Cover
<1>2. TrackInv /\ [Next]_vars => TrackInv'
  BY FrameNext, WinNext, CoverNext, TimesNext DEF TrackInv
<1> QED
  BY <1>1, <1>2, PTL DEF Spec

\* The types of the state, and room in the window for the next record, for every capacity of
\* at least three and every length of the week.
THEOREM TrackTypeCorrect == Spec => []TrackTypeOK
<1>1. TrackInv => TrackTypeOK
  BY DEF TrackInv, Frame, Win, TrackTypeOK, FileRec
<1> QED
  BY <1>1, TrackInvInductive, PTL

\* The window is always the end of the track, without a gap, and an incremental track_draw
\* starts inside it.
THEOREM WindowCorrect == Spec => []WindowContiguous
<1>1. TrackInv => WindowContiguous
  <2> SUFFICES ASSUME TrackInv PROVE WindowContiguous
    OBVIOUS
  <2>1. /\ Len(window) \in Nat /\ total_count \in Nat
        /\ last_drawn \in Int /\ last_drawn <= total_count
        /\ \A i \in 1..Len(window) : window[i].id = total_count - Len(window) + i - 1
    BY LenProperties DEF TrackInv, Win, Contiguous
  <2>2. Len(window) >= 2 => DrawFrom \in 0..Len(window)
    <3>1. Len(window) >= 2 => window[1].id = total_count - Len(window)
      BY <2>1
    <3> QED
      BY <2>1, <3>1 DEF DrawFrom
  <2> QED
    BY <2>1, <2>2 DEF WindowContiguous
<1> QED
  BY <1>1, TrackInvInductive, PTL

\* Every record taken is in the window, in the file of its track or among those given up.
THEOREM NothingLostCorrect == Spec => []NothingLost
<1>1. TrackInv => NothingLost
  BY DEF TrackInv, Cover, NothingLost
<1> QED
  BY <1>1, TrackInvInductive, PTL

\* No file, closed or open, holds a record of another week or one later than its end time.
THEOREM WeekCorrect == Spec => []FileWithinWeek
<1>1. TrackInv => FileWithinWeek
  <2> SUFFICES ASSUME TrackInv PROVE FileWithinWeek
    OBVIOUS
  <2>1. \A file \in {disk, closed} : \A i \in 1..Len(file.recs) : file.recs[i].off \in 0..file.end
    BY DEF TrackInv, Times, InOrder
  <2>2. ASSUME enabled, NEW i \in 1..Len(window), NEW j \in 1..Len(window), i < j
        PROVE  0 <= window[i].off /\ window[i].off <= window[j].off
    <3>1. i <= j
      BY <2>2
    <3> QED
      BY <2>2, <3>1 DEF TrackInv, Times, Running, Ordered
  <2> QED
    BY <2>1, <2>2 DEF FileWithinWeek
<1> QED
  BY <1>1, TrackInvInductive, PTL
=============================================================================
