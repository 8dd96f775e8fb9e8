------------------------------ MODULE TrackLog ------------------------------
(***************************************************************************)
(* Track recording (tab_track.c): the window of records in memory, the     *)
(* files it is saved to, and the header of each file.  track_add runs in   *)
(* the polling thread, the buttons in the main thread; both hold the UI    *)
(* lock throughout, so each call is one action, all the saves it makes     *)
(* included.  A position is abstracted to "has it moved?", the time of     *)
(* week counts whole fixes.  A closed file is never written again, and     *)
(* forgotten a step later.                                                 *)
(***************************************************************************)
EXTENDS Integers, Sequences

CONSTANTS
  Capacity,     \* TRACK_MAX_IN_MEM_RECORDS
  Week,         \* fixes in a GPS week, after which its time starts from 0
  MayFail,      \* may a file fail to be created or opened?
  MaxTotal,     \* bound of the model: the records of a track
  MaxLen,       \* bound of the model: the records written to a file
  MaxRows       \* bound of the model: the rows of a file in the file list

ASSUME TrackAssumption ==
  /\ Capacity \in Nat /\ Capacity >= 3
  /\ Week \in Nat \ {0}
  /\ MayFail \in BOOLEAN
  /\ MaxTotal \in Nat /\ MaxLen \in Nat /\ MaxRows \in Nat

VARIABLES
  enabled,      \* g_context.track_enabled
  window,       \* tracks->tps[0 .. count - 1]: the records' ids and time offsets
  total_count,  \* tracks->total_count
  last_drawn,   \* tracks->last_drawn_index
  tow,          \* g_gpsdata.llh_itow
  previous_tow, \* previous_gps_tow
  first_tow,    \* first_gps_tow
  path,         \* does track_file_path name a file?
  disk,         \* the records of that file, and the count and end time of its header
  listed,       \* how many rows of the file list name the file
  closed,       \* the file the last step closed, if it did
  lost          \* records of the current track that were dropped, or deleted with their file

trackVars == <<window, total_count, last_drawn, previous_tow, first_tow, lost>>
fileVars == <<path, disk, listed>>
vars == <<enabled, tow, trackVars, fileVars, closed>>

Empty == [recs |-> <<>>, count |-> 0, end |-> 0]
Ids(recs) == {recs[i].id : i \in 1..Len(recs)}

\* track_init(FALSE), from track_tab_create
Init ==
  /\ enabled = FALSE
  /\ window = <<>>
  /\ total_count = 0
  /\ last_drawn = 0
  /\ tow \in 0..(Week - 1)
  /\ previous_tow = 0
  /\ first_tow = 0
  /\ path = FALSE
  /\ disk = Empty
  /\ listed = 0
  /\ closed = Empty
  /\ lost = {}

-----------------------------------------------------------------------------
(* track_save and track_init *)

\* Whether fopen(track_file_path, "a") succeeds.
Opens == IF ~path THEN {FALSE} ELSE IF MayFail THEN BOOLEAN ELSE {TRUE}

\* The file after the first n records of w were appended, the track having "total" records.
Appended(w, n, total) ==
  [recs  |-> disk.recs \o SubSeq(w, 1, n),
   count |-> total - (Len(w) - n),
   end   |-> w[Len(w)].off]

Save(w, n, total) ==
  /\ Len(disk.recs) + n <= MaxLen
  /\ disk' = Appended(w, n, total)

\* track_save(TRUE, FALSE): every record is written, and all of them stay in the window; the
\* file gets one more row in the list.
SaveAll ==
  \E ok \in Opens :
    IF window # <<>> /\ ok
    THEN Save(window, Len(window), total_count) /\ listed < MaxRows /\ listed' = listed + 1
    ELSE UNCHANGED <<disk, listed>>

\* track_init(TRUE): an empty window, and a file named after the current second or none.
StartTrack ==
  /\ window' = <<>>
  /\ total_count' = 0
  /\ last_drawn' = 0
  /\ previous_tow' = 0
  /\ first_tow' = 0
  /\ lost' = {}
  /\ path' \in IF MayFail THEN BOOLEAN ELSE {TRUE}
  /\ disk' = Empty
  /\ listed' = 0

-----------------------------------------------------------------------------
(* track_add, called for each accurate fix of the polling thread *)

NextTow == (tow + 1) % Week

\* Too close to the last record
Still ==
  /\ window # <<>>
  /\ tow' = NextTow
  /\ closed' = Empty
  /\ UNCHANGED <<enabled, trackVars, fileVars>>

\* Slip: the new week is not noticed.
NewWeek_never == FALSE
NewWeek == window # <<>> /\ enabled /\ NextTow < previous_tow

\* "new GPS week: split track file": track_save(TRUE, FALSE) to the file that is left, then
\* track_init; the record that shows the new week is not kept.
Split ==
  /\ NewWeek
  /\ tow' = NextTow
  /\ closed' \in {IF ok THEN Appended(window, Len(window), total_count) ELSE disk : ok \in Opens}
  /\ StartTrack
  /\ UNCHANGED enabled

\* Slip: the window is saved one record too late.
IsFull_late(w) == Len(w) > Capacity
IsFull(w) == Len(w) >= Capacity

\* Slips: the record behind those saved is overwritten too; the head of the array is kept.
Remaining_one(w, n) == SubSeq(w, n + 2, Len(w))
Remaining_head(w, n) == SubSeq(w, 1, Len(w) - n)

\* The window without its first n records (memcpy to the head of the array)
Remaining(w, n) == SubSeq(w, n + 1, Len(w))

Grown == LET first == IF window = <<>> THEN NextTow ELSE first_tow
         IN Append(window, [id |-> total_count, off |-> NextTow - first])

\* A third of a full window is saved; half of it is given up when nothing could be.
Record ==
  /\ ~NewWeek
  /\ total_count < MaxTotal
  /\ tow' = NextTow
  /\ previous_tow' = NextTow
  /\ first_tow' = IF window = <<>> THEN NextTow ELSE first_tow
  /\ total_count' = total_count + 1
  /\ \/ /\ ~IsFull(Grown)
        /\ window' = Grown
        /\ UNCHANGED <<disk, lost>>
     \/ /\ IsFull(Grown)
        /\ enabled /\ TRUE \in Opens
        /\ Save(Grown, Len(Grown) \div 3, total_count + 1)
        /\ window' = Remaining(Grown, Len(Grown) \div 3)
        /\ UNCHANGED lost
     \/ /\ IsFull(Grown)
        /\ ~enabled \/ FALSE \in Opens
        /\ window' = Remaining(Grown, Len(Grown) \div 2)
        /\ lost' = lost \cup Ids(SubSeq(Grown, 1, Len(Grown) \div 2))
        /\ UNCHANGED disk
  /\ closed' = Empty
  /\ UNCHANGED <<enabled, last_drawn, path, listed>>

\* suspend_resume saves the track "to avoid long time gap".
Suspend ==
  /\ enabled
  /\ SaveAll
  /\ closed' = Empty
  /\ UNCHANGED <<enabled, tow, trackVars, path>>

-----------------------------------------------------------------------------
(* The main thread *)

NewTrack ==
  /\ ~enabled
  /\ StartTrack
  /\ enabled' = path'
  /\ closed' = Empty
  /\ UNCHANGED tow

StopTrack ==
  /\ enabled
  /\ enabled' = FALSE
  /\ SaveAll
  /\ closed' = Empty
  /\ UNCHANGED <<tow, trackVars, path>>

\* delete_button_clicked, for the file being recorded; the next save creates it again.
Delete ==
  /\ listed > 0
  /\ listed' = listed - 1
  /\ disk' = Empty
  /\ lost' = lost \cup Ids(disk.recs)
  /\ closed' = Empty
  /\ UNCHANGED <<enabled, tow, window, total_count, last_drawn, previous_tow, first_tow, path>>

\* track_draw, whole or from the last record drawn
Draw ==
  /\ Len(window) >= 2
  /\ last_drawn' = total_count - 1
  /\ closed' = Empty
  /\ UNCHANGED <<enabled, tow, window, total_count, previous_tow, first_tow, lost, fileVars>>

\* The index of the first record an incremental track_draw takes from the window
DrawFrom == IF last_drawn < window[1].id THEN 0 ELSE last_drawn - window[1].id

Next == Split \/ Still \/ Record \/ Suspend \/ NewTrack \/ StopTrack \/ Delete \/ Draw

Spec == Init /\ [][Next]_vars

-----------------------------------------------------------------------------
(* Properties *)

Rec == [id : Nat, off : Int]

\* The types of the variables; the window always has room for the next record.
TrackTypeOK ==
  /\ enabled \in BOOLEAN
  /\ window \in Seq(Rec)
  /\ Len(window) < Capacity
  /\ total_count \in Nat
  /\ last_drawn \in Int
  /\ tow \in 0..(Week - 1)
  /\ previous_tow \in 0..(Week - 1)
  /\ first_tow \in 0..(Week - 1)
  /\ path \in BOOLEAN
  /\ disk \in [recs : Seq(Rec), count : Int, end : Int]
  /\ listed \in Nat
  /\ closed \in [recs : Seq(Rec), count : Int, end : Int]
  /\ lost \in SUBSET Nat

\* The window holds the last records of the track, without a gap, whatever was saved or given
\* up: track_draw computes array indices from ids (tab_track.c:262-269), and the index it
\* starts from lies within the window.
WindowContiguous ==
  /\ \A i \in 1..Len(window) : window[i].id = total_count - Len(window) + i - 1
  /\ last_drawn <= total_count
  /\ Len(window) >= 2 => DrawFrom \in 0..Len(window)

\* Every record of the track is in the window or in its file, unless it was given up because
\* its file could not be written, nothing was being recorded, or its file was deleted.
NothingLost ==
  0..(total_count - 1) = Ids(window) \cup lost \cup Ids(disk.recs)

\* A file lies within one week: its offsets are not negative (they are unsigned in the code, so
\* a week missed would show as years), and none is later than the end time of its header; nor
\* can what the window still holds of a recording go back in time.
FileWithinWeek ==
  /\ \A file \in {disk, closed} : \A i \in 1..Len(file.recs) : file.recs[i].off \in 0..file.end
  /\ enabled => \A i, j \in 1..Len(window) :
       i < j => 0 <= window[i].off /\ window[i].off <= window[j].off

\* "record count: " (track.h:6) in the header of a file is the number of its records, unless
\* some were lost on the way.
HeaderCounts == lost = {} => disk.count = Len(disk.recs)
=============================================================================
