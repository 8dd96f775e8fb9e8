---------------------------- MODULE TrackReplay ----------------------------
(***************************************************************************)
(* Track replay (ctx_track_replay.c): the context with its five controls,  *)
(* the thread that walks through the records, and what ends them.  The     *)
(* callbacks run in the main thread under the UI lock, one action each;    *)
(* only cancel_replay_thread sleeps, and keeps the lock while it does.     *)
(* The thread takes the UI lock for a few sections, reads and clears the   *)
(* flags without any lock, and waits on a condition without a predicate.   *)
(* Times and pixels are abstracted: whether a record is drawn now or       *)
(* together with the next one is a choice.                                 *)
(***************************************************************************)
EXTENDS Integers, FiniteSetsExt

CONSTANTS
  Threads,    \* thread identifiers
  Lengths,    \* the numbers of records of the readable files
  MaxOpens,   \* bound of the model: how often the file is read
  MaxLeaves,  \* bound of the model: how often the GPS takes the view over
  MaxClicks   \* bound of the model: clicks on the controls, except start and close

ASSUME ReplayAssumption ==
  /\ 0 \notin Threads
  /\ Lengths \subseteq Nat \ {0} /\ Lengths # {} /\ IsFiniteSet(Lengths)
  /\ MaxOpens \in Nat /\ MaxLeaves \in Nat /\ MaxClicks \in Nat

NoThread == 0
NoRecords == -1      \* replay_records == NULL

VARIABLES
  shown,      \* is the replay context the visible one?
  records,    \* replay_records: the number of records of the array, or NoRecords
  total,      \* total_records
  last_draw,  \* last_draw_idx
  forward,    \* direction_forward
  tid,        \* replay_thread_tid
  flags,      \* running, stop, toend, suspend, suspending
  canStart, canStep, canTurn,   \* sensitivity of start; of suspend and to-end; of direction
  frozen,     \* g_context.map_view_frozen
  redraw,     \* is the map drawn by replay_redraw_view?
  thr,        \* the threads: where they are, and the local variables of replay_routine
  closing,    \* "no", or who is inside cancel_replay_thread: "close" or "exit"
  over,       \* "no", or how the process ended: "exit" or "crash"
  opens, leaves, clicks,        \* bounds of the model
  tangled     \* history: was a file read while a thread was alive?

dataVars == <<records, total, last_draw>>
buttonVars == <<canStart, canStep, canTurn>>
uiVars == <<shown, forward, tid, buttonVars, frozen, redraw>>
endVars == <<closing, over, opens, leaves, clicks, tangled>>
vars == <<dataVars, uiVars, flags, thr, endVars>>

NoPass == [at |-> "none", i |-> 0, from |-> 0, end |-> 0, inc |-> 1]

InPass(t) == thr[t].at \in {"loop", "draw", "towait", "paused", "woken", "label"}
Alive(t) == thr[t].at \notin {"none", "ended"}

Init ==
  /\ shown = FALSE
  /\ records = NoRecords /\ total = 0 /\ last_draw = -1
  /\ forward = TRUE
  /\ tid = NoThread
  /\ flags = [running |-> FALSE, stop |-> FALSE, toend |-> FALSE, suspend |-> FALSE,
              suspending |-> FALSE]
  /\ canStart = TRUE /\ canStep = TRUE /\ canTurn = TRUE
  /\ frozen = FALSE /\ redraw = FALSE
  /\ thr = [t \in Threads |-> NoPass]
  /\ closing = "no" /\ over = "no"
  /\ opens = 0 /\ leaves = 0 /\ clicks = 0 /\ tangled = FALSE

\* The UI lock is free whenever no callback sleeps.
UiFree == over = "no" /\ closing = "no"

\* Bound of the model: a process that read a file over a living thread is followed through the
\* steps of that thread, the closing and the exit only.
Pressable == UiFree /\ shown /\ ~tangled

\* LOCK_MUTEX, pthread_cond_signal: one of the waiting threads, if there is one
Waiting == {t \in Threads : thr[t].at \in {"paused", "rest"}}
Awake(t) == IF thr[t].at = "paused" THEN "woken" ELSE "head"
WakeUp ==
  IF Waiting = {} THEN UNCHANGED thr
  ELSE \E t \in Waiting : thr' = [thr EXCEPT ![t].at = Awake(t)]

-----------------------------------------------------------------------------
(* The file is read whenever the context is shown: when replay_button_clicked opens the    *)
(* replay (once more as the track tab is left: view_tab_on_show), and again each time the  *)
(* polling thread says over an open replay that it suspends or runs: suspend_resume calls  *)
(* update_tab_on_poll_state_changed, and ctx_gpsfix_on_poll_state_changed leaves it there. *)

Flag(f, b) == flags' = [flags EXCEPT ![f] = b]

\* replay_reset_states
Reset == Flag("suspend", FALSE) /\ canStart' = TRUE /\ canStep' = FALSE /\ canTurn' = TRUE
Unstartable == canStart' = FALSE /\ canStep' = FALSE /\ UNCHANGED <<canTurn, flags>>

Opened ==
  /\ UiFree /\ ~tangled /\ opens < MaxOpens
  /\ shown' = TRUE
  /\ opens' = opens + 1
  /\ tangled' = \E t \in Threads : Alive(t)
  /\ UNCHANGED <<forward, frozen, redraw, thr, closing, over, leaves, clicks>>

\* The array read before is not freed.
OpenReadable ==
  /\ Opened
  /\ \E n \in Lengths : records' = n /\ total' = n
  /\ Reset
  /\ UNCHANGED <<last_draw, tid>>

\* No file, or one without a record: the array is there, total_records that of the last file.
OpenEmpty ==
  /\ Opened
  /\ records' \in {records, 0}
  /\ Unstartable
  /\ UNCHANGED <<total, last_draw, tid>>

Forgotten ==   \* replay_free_data
  /\ records' = NoRecords /\ last_draw' = -1 /\ tid' = NoThread
  /\ UNCHANGED total

\* A line does not parse.
OpenMalformed == Opened /\ Forgotten /\ Unstartable

\* The GPS starts: ctx_gpsfix_on_poll_state_changed shows the GPS context over the replay.
Leave ==
  /\ Pressable /\ leaves < MaxLeaves
  /\ shown' = FALSE /\ redraw' = FALSE /\ leaves' = leaves + 1
  /\ UNCHANGED <<dataVars, forward, tid, buttonVars, frozen, flags, thr, closing, over, opens,
                 clicks, tangled>>

-----------------------------------------------------------------------------
(* The controls *)

StartRunning ==
  /\ Pressable /\ canStart /\ flags.running
  /\ Flag("stop", TRUE)
  /\ WakeUp
  /\ UNCHANGED <<dataVars, uiVars, endVars>>

\* Slip: a second click before the thread runs creates another one.
Creatable_anyway == TRUE
Creatable == tid = NoThread

StartNew ==
  /\ Pressable /\ canStart /\ ~flags.running /\ Creatable
  /\ \/ \E t \in Threads :
          /\ ~Alive(t) /\ t # tid
          /\ tid' = t
          /\ thr' = [thr EXCEPT ![t].at = "born"]
          /\ UNCHANGED <<flags, buttonVars>>
     \/ Reset /\ UNCHANGED <<tid, thr>>
  /\ UNCHANGED <<dataVars, shown, forward, frozen, redraw, endVars>>

Click ==
  /\ Pressable /\ clicks < MaxClicks
  /\ clicks' = clicks + 1
  /\ UNCHANGED <<dataVars, shown, tid, buttonVars, frozen, redraw, closing, over, opens, leaves,
                 tangled>>

\* start_button_clicked when a thread exists but does not run, and speed_changed: the thread is
\* woken, whatever it waits for.
Nudge == Click /\ WakeUp /\ UNCHANGED <<forward, flags>>

SuspendClicked ==
  /\ Click /\ canStep
  /\ Flag("suspend", ~flags.suspending)
  /\ WakeUp
  /\ UNCHANGED forward

ToendClicked ==
  /\ Click /\ canStep /\ flags.running
  /\ WakeUp
  /\ Flag("toend", TRUE)
  /\ UNCHANGED forward

\* Slip: the direction can be turned during a pass.
Turnable_always == TRUE
Turnable == canTurn

DirectionToggled == Click /\ Turnable /\ forward' = ~forward /\ UNCHANGED <<flags, thr>>

-----------------------------------------------------------------------------
(* close_button_clicked, and track_replay_cleanup when the process exits *)

\* Slip: a thread that does not run yet, or no longer, is left alone.
NeedsCancel_running == tid # NoThread /\ flags.running
NeedsCancel == tid # NoThread

\* running = FALSE and the wake-up; cancel_replay_thread then sleeps
CancelBegins(who) ==
  /\ UiFree /\ NeedsCancel
  /\ IF who = "close" THEN shown ELSE records # NoRecords
  /\ Flag("running", FALSE)
  /\ WakeUp
  /\ closing' = who
  /\ UNCHANGED <<dataVars, uiVars, over, opens, leaves, clicks, tangled>>

\* The signal ends the thread wherever it is; it is joined.
Killed == thr' = [thr EXCEPT ![tid] = NoPass]

\* replay_update_ui_helper(FALSE); slip: the view stays frozen.
GiveBack_frozen == redraw' = FALSE /\ UNCHANGED frozen
GiveBack == redraw' = FALSE /\ frozen' = FALSE

CloseEnds ==
  /\ over = "no" /\ closing = "close"
  /\ Killed /\ GiveBack /\ Forgotten
  /\ shown' = FALSE /\ closing' = "no"
  /\ UNCHANGED <<forward, flags, buttonVars, over, opens, leaves, clicks, tangled>>

CloseIdle ==
  /\ UiFree /\ shown /\ ~NeedsCancel
  /\ Forgotten
  /\ shown' = FALSE
  /\ UNCHANGED <<forward, flags, buttonVars, frozen, redraw, thr, endVars>>

ExitEnds ==
  /\ over = "no" /\ closing = "exit"
  /\ Killed /\ Forgotten
  /\ closing' = "no" /\ over' = "exit"
  /\ UNCHANGED <<shown, forward, flags, buttonVars, frozen, redraw, opens, leaves, clicks, tangled>>

-----------------------------------------------------------------------------
(* Reading replay_records[k].  What lies outside the array may be readable too, but not what *)
(* NULL points to.                                                                           *)

Inside(k) == 0 <= k /\ k < records
Readable(k) == Inside(k) \/ records # NoRecords
Crash == over' = "crash" /\ UNCHANGED <<dataVars, uiVars, flags, thr, closing, opens, leaves,
                                         clicks, tangled>>

\* An expose event draws the map: replay_redraw_view asserts that there are records.
Expose == UiFree /\ redraw /\ records = NoRecords /\ Crash

-----------------------------------------------------------------------------
(* replay_routine *)

At(t, place) == over = "no" /\ thr[t].at = place
Goes(t, place) == thr' = [thr EXCEPT ![t].at = place]
Leaves(t, place) == thr' = [thr EXCEPT ![t] = [NoPass EXCEPT !.at = place]]
Quiet == UNCHANGED <<dataVars, uiVars, endVars>>   \* a step outside the UI lock

Born(t) ==
  /\ At(t, "born")
  /\ IF total = 0 THEN Goes(t, "ended") /\ UNCHANGED flags
                  ELSE Goes(t, "head") /\ Flag("running", TRUE)
  /\ Quiet

\* Slip: suspending is not reset.
PassFlags_keep == flags' = [flags EXCEPT !.stop = FALSE, !.suspend = FALSE]
PassFlags == flags' = [flags EXCEPT !.stop = FALSE, !.suspend = FALSE, !.suspending = FALSE]

\* while (running): the flags of the last pass are dropped, a request to go to the end is not.
Head(t) ==
  /\ At(t, "head")
  /\ IF flags.running THEN PassFlags /\ last_draw' = -1 /\ Goes(t, "setup")
                      ELSE Goes(t, "ended") /\ UNCHANGED <<flags, last_draw>>
  /\ UNCHANGED <<records, total, uiVars, endVars>>

\* The section that reads the direction and sets the buttons; assert(replay_records).
Setup(t) ==
  /\ At(t, "setup") /\ UiFree /\ records # NoRecords
  /\ frozen' = TRUE /\ redraw' = TRUE
  /\ thr' = [thr EXCEPT ![t] =
       IF forward THEN [at |-> "loop", i |-> 0, from |-> 0, end |-> total - 1, inc |-> 1]
       ELSE [at |-> "loop", i |-> total - 1, from |-> total - 1, end |-> 0, inc |-> -1]]
  /\ canStart' = TRUE /\ canStep' = TRUE /\ canTurn' = FALSE
  /\ UNCHANGED <<dataVars, shown, forward, tid, flags, endVars>>

SetupAsserts(t) == At(t, "setup") /\ UiFree /\ records = NoRecords /\ Crash

\* The condition of the loop reads the direction of the button, its increment does not.
InRange(t) == IF forward THEN thr[t].i <= thr[t].end ELSE thr[t].i >= thr[t].end

LoopEnds(t) ==
  /\ At(t, "loop") /\ InRange(t)
  /\ \/ ~flags.running /\ Leaves(t, "ended") /\ UNCHANGED flags
     \/ flags.running /\ flags.stop /\ Leaves(t, "stopping") /\ Flag("stop", FALSE)
  /\ Quiet

Walks(t) == At(t, "loop") /\ InRange(t) /\ flags.running /\ ~flags.stop

LoopSuspends(t) ==
  /\ Walks(t) /\ ~flags.toend /\ flags.suspend
  /\ flags' = [flags EXCEPT !.suspend = FALSE, !.suspending = TRUE]
  /\ Goes(t, "towait")
  /\ Quiet

Resumes(t) == At(t, "woken") /\ Flag("suspending", FALSE) /\ Goes(t, "label") /\ Quiet

\* Record k is drawn at once, or skipped to be drawn with the next; the last is never skipped.
Passes(t, k) ==
  /\ Readable(k)
  /\ \/ thr' = [thr EXCEPT ![t].at = "draw", ![t].i = k]
     \/ k # thr[t].end /\ thr' = [thr EXCEPT ![t].at = "loop", ![t].i = k + thr[t].inc]

\* On to the record, or to the last one; or past the label of the button, after a pause.
Advances(t) ==
  /\ \/ Walks(t) /\ flags.toend /\ Flag("toend", FALSE) /\ Passes(t, thr[t].end)
     \/ Walks(t) /\ ~flags.toend /\ ~flags.suspend /\ UNCHANGED flags /\ Passes(t, thr[t].i)
     \/ At(t, "label") /\ UiFree /\ UNCHANGED flags /\ Passes(t, thr[t].i)
  /\ Quiet

\* Slip: a record is left out between what was drawn and what comes next.
Next_gap(t) == thr[t].i + 2 * thr[t].inc
Next_from(t) == thr[t].i + thr[t].inc

\* Is there a record to draw? replay_update_ui goes by the direction of the button.
Drawable(t) == forward = (thr[t].inc = 1) \/ thr[t].from = thr[t].i

\* replay_update_ui(from, to), and the sleep
Draws(t) ==
  /\ At(t, "draw") /\ UiFree
  /\ Readable(thr[t].i) /\ Drawable(t)
  /\ last_draw' = thr[t].i
  /\ thr' = [thr EXCEPT ![t].at = "loop", ![t].i = @ + thr[t].inc, ![t].from = Next_from(t)]
  /\ UNCHANGED <<records, total, uiVars, flags, endVars>>

Strays(t) ==
  /\ \/ /\ Walks(t) /\ (flags.toend \/ ~flags.suspend)
        /\ ~Inside(IF flags.toend THEN thr[t].end ELSE thr[t].i)
     \/ At(t, "label") /\ UiFree /\ ~Inside(thr[t].i)
     \/ At(t, "draw") /\ UiFree /\ ~(Inside(thr[t].i) /\ Drawable(t))
  /\ Crash

\* The loop is over; draw_current_position without the lock
Finishes(t) ==
  /\ At(t, "loop") /\ ~InRange(t)
  /\ last_draw' = thr[t].end
  /\ Leaves(t, "stopping")
  /\ UNCHANGED <<records, total, uiVars, flags, endVars>>

Resets(t) ==
  /\ At(t, "stopping") /\ UiFree
  /\ Reset
  /\ Goes(t, "torest")
  /\ UNCHANGED <<dataVars, shown, forward, tid, frozen, redraw, endVars>>

\* wait_ms(0): a signal sent before it does not count.
Waits(t) ==
  /\ \/ At(t, "towait") /\ Goes(t, "paused")
     \/ At(t, "torest") /\ Goes(t, "rest")
  /\ UNCHANGED flags /\ Quiet

ThreadStep(t) ==
  \/ Born(t) \/ Head(t) \/ Setup(t) \/ SetupAsserts(t) \/ LoopEnds(t) \/ LoopSuspends(t)
  \/ Resumes(t) \/ Advances(t) \/ Draws(t) \/ Strays(t) \/ Finishes(t) \/ Resets(t) \/ Waits(t)

UiStep ==
  \/ OpenReadable \/ OpenEmpty \/ OpenMalformed \/ Leave \/ Expose
  \/ StartRunning \/ StartNew \/ Nudge \/ SuspendClicked \/ ToendClicked \/ DirectionToggled
  \/ CancelBegins("close") \/ CancelBegins("exit") \/ CloseEnds \/ CloseIdle \/ ExitEnds

Next == UiStep \/ \E t \in Threads : ThreadStep(t)

\* The threads are scheduled, and the sleep of cancel_replay_thread ends.
Fairness ==
  /\ \A t \in Threads : WF_vars(ThreadStep(t))
  /\ WF_vars(CloseEnds \/ ExitEnds)

Spec == Init /\ [][Next]_vars /\ Fairness

-----------------------------------------------------------------------------
(* Properties *)

\* Every variable keeps its type; a thread's indices stay within the records of the longest file and
\* one step beyond them.
ReplayTypeOK ==
  /\ shown \in BOOLEAN /\ forward \in BOOLEAN /\ frozen \in BOOLEAN /\ redraw \in BOOLEAN
  /\ records \in Lengths \cup {NoRecords, 0}
  /\ total \in Lengths \cup {0}
  /\ last_draw \in -1..(Max(Lengths) - 1)
  /\ tid \in Threads \cup {NoThread}
  /\ \A b \in {canStart, canStep, canTurn, tangled} : b \in BOOLEAN
  /\ flags \in [{"running", "stop", "toend", "suspend", "suspending"} -> BOOLEAN]
  /\ thr \in [Threads ->
       [at : {"none", "born", "head", "setup", "loop", "towait", "paused", "woken", "label",
              "draw", "stopping", "torest", "rest", "ended"},
        i : -1..Max(Lengths), from : -1..Max(Lengths), end : 0..Max(Lengths), inc : {1, -1}]]
  /\ closing \in {"no", "close", "exit"}
  /\ over \in {"no", "exit", "crash"}
  /\ opens \in 0..MaxOpens /\ leaves \in 0..MaxLeaves /\ clicks \in 0..MaxClicks

\* Unless a file was read over a living thread, the thread the tid names is the only one, and
\* none is left behind when the tid is cleared, however start, close and exit race with it.
OneReplayer == ~tangled => \A t \in Threads : Alive(t) => t = tid

\* Unless a file was read over a living thread, neither the thread nor the redraw of the map
\* reaches for records that are not there: closing frees them only once the thread is gone.
RecordsOutlive == over = "crash" => tangled

\* Unless a file was read over a living thread, a pass keeps the direction it started with and
\* the records drawn so far are a gapless stretch from its first one.
PassInOrder ==
  \A t \in Threads : InPass(t) /\ ~tangled =>
    /\ (thr[t].inc = 1) = forward
    /\ last_draw # -1 => thr[t].from = last_draw + thr[t].inc
    /\ last_draw = -1 => thr[t].from = (IF forward THEN 0 ELSE total - 1)

\* The button that can be clicked says "resume" only when the thread does pause, even when an
\* earlier thread was killed in its pause.
ResumeIsReal ==
  flags.suspending /\ canStep /\ ~tangled /\ closing = "no" /\ over = "no" /\ shown
    => \E t \in Threads : thr[t].at \in {"towait", "paused", "woken"}

\* A thread that was left behind: a file read over it was malformed, and its tid was cleared.
Orphaned == \E t \in Threads : Alive(t) /\ t # tid

\* When no thread is named, and none was left behind, the map is neither frozen nor drawn by the
\* replay: whoever ends the last thread gives the view back, even after the GPS took it over.
ViewGivenBack == over = "no" /\ tid = NoThread /\ ~Orphaned => ~frozen /\ ~redraw

\* A pass comes to its end or to a pause by itself: nothing the user may click in the meantime
\* makes it go on for ever (unless a file is read over it, or the main thread stays in a
\* callback).
PassEnds ==
  \A t \in Threads : InPass(t) ~> (~InPass(t) \/ thr[t].at = "paused" \/ tangled)
=============================================================================
