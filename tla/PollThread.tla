----------------------------- MODULE PollThread -----------------------------
(***************************************************************************)
(* The GPS polling thread (poll.c) and those who steer it: the start and   *)
(* stop buttons, the system-wide suspend and resume signals, the threads   *)
(* that hand it a control command, and the exit of the process, which      *)
(* kills it wherever it is.  What poll.c does under one                    *)
(* LOCK_UI or LOCK_MUTEX is one action; the flags it shares without any    *)
(* lock (ask_suspend, ctrl_cmd, poll_engine, poll_state outside the UI     *)
(* lock) are read and written by actions of their own.                     *)
(***************************************************************************)
EXTENDS Integers, FiniteSets

CONSTANTS
  Issuer,         \* the threads that call issue_ctrl_cmd
  Main,           \* the GTK main thread, one of them or not
  NULL

ASSUME IssuerAssumption == NULL \notin Issuer \cup {"UBX", "OGPSD"}

VARIABLES
  at,             \* where the polling thread is
  poll_state,     \* g_context.poll_state
  poll_engine,    \* g_context.poll_engine
  gps_poll_func,  \* the engine whose polling function is called, NULL at first
  ask_suspend,
  uart_conflict,  \* g_context.uart_conflict
  session,        \* the session with the ogpsd D-Bus service, "open" or "none"
  ctrl_cmd,       \* the command to run, named by its issuer
  ctrl_cmd_args,  \* its arguments, named by their issuer
  ran,            \* the last command run and the arguments it was given
  issuing,        \* where each issuer is in issue_ctrl_cmd
  main,           \* what the main thread is in the middle of
  woken_by,       \* who woke the polling thread up last
  killed          \* where the polling thread was when it was killed, "no" at first

engine == <<poll_engine, gps_poll_func>>
requestVars == <<main, woken_by, killed>>
commandVars == <<ctrl_cmd, ctrl_cmd_args, ran, issuing>>
vars == <<at, poll_state, engine, ask_suspend, uart_conflict, session, commandVars, requestVars>>

Init ==
  /\ at = "boot"
  /\ poll_state = "SUSPENDING"
  /\ poll_engine = "UBX"
  /\ gps_poll_func = NULL
  /\ ask_suspend = FALSE
  /\ uart_conflict = FALSE
  /\ session = "none"
  /\ ctrl_cmd = NULL
  /\ ctrl_cmd_args = NULL
  /\ ran = [cmd |-> NULL, args |-> NULL]
  /\ issuing = [i \in Issuer |-> "idle"]
  /\ main = "idle"
  /\ woken_by = "start"
  /\ killed = "no"

From(l) == at = l
To(l) == at' = l

\* A callback that ends the process keeps the UI lock to the end.
UiFree == main # "quit"

SetPollEngine(e) == poll_engine' = e /\ gps_poll_func' = e

-----------------------------------------------------------------------------
(* The polling thread: suspend_resume *)

\* The routine resets its variables; then the user may be asked "start GPS now?".
Boot ==
  /\ From("boot")
  /\ \/ To("start")
     \/ To("leave")
  /\ uart_conflict' = FALSE
  /\ ask_suspend' = FALSE
  /\ ctrl_cmd' = NULL
  /\ ctrl_cmd_args' = NULL
  /\ UNCHANGED <<poll_state, engine, session, ran, issuing, requestVars>>

\* Slip: the session is left open.
Leave_keepsSession ==
  /\ From("leave")
  /\ To("mark")
  /\ UNCHANGED <<poll_state, engine, ask_suspend, uart_conflict, session, commandVars, requestVars>>

\* Close the session with ogpsd (the track and the settings are saved).
Leave ==
  /\ From("leave")
  /\ To("mark")
  /\ session' = IF poll_engine = "OGPSD" THEN "none" ELSE session
  /\ UNCHANGED <<poll_state, engine, ask_suspend, uart_conflict, commandVars, requestVars>>

\* SUSPEND: the state changes under the UI lock, ...
Mark ==
  /\ From("mark") /\ UiFree
  /\ To("block")
  /\ poll_state' = "SUSPENDING"
  /\ UNCHANGED <<engine, ask_suspend, uart_conflict, session, commandVars, requestVars>>

\* ... then the thread waits on the condition variable.
Block ==
  /\ From("block")
  /\ To("waiting")
  /\ UNCHANGED <<poll_state, engine, ask_suspend, uart_conflict, session, commandVars, requestVars>>

\* pthread_cond_wait may return for no reason, and no condition is looked at.
WakeSpuriously ==
  /\ From("waiting")
  /\ To("start")
  /\ woken_by' = "nobody"
  /\ UNCHANGED <<poll_state, engine, ask_suspend, uart_conflict, session, commandVars, main,
                 killed>>

\* RUN: start over
Start ==
  /\ From("start") /\ UiFree
  /\ To("clear")
  /\ poll_state' = "STARTING"
  /\ UNCHANGED <<engine, ask_suspend, uart_conflict, session, commandVars, requestVars>>

Clear ==
  /\ From("clear")
  /\ To("choose")
  /\ ask_suspend' = FALSE
  /\ UNCHANGED <<poll_state, engine, uart_conflict, session, commandVars, requestVars>>

\* Another process uses ogpsd: join it, unless it releases the GPS meanwhile.
JoinOgpsd ==
  /\ From("choose")
  /\ poll_engine # "OGPSD"
  /\ \/ To("joined") /\ session' = "open"
     \/ To("mark") /\ UNCHANGED session   \* still used by others, but the service failed
  /\ UNCHANGED <<poll_state, engine, ask_suspend, uart_conflict, commandVars, requestVars>>

\* init_ogpsd_service ends under the UI lock, with a label, before the engine is set.
Joined ==
  /\ From("joined") /\ UiFree
  /\ To("ready")
  /\ SetPollEngine("OGPSD")
  /\ UNCHANGED <<poll_state, ask_suspend, uart_conflict, session, commandVars, requestVars>>

\* Slip: the engine is left as it is.
PowerOn_noEngine ==
  /\ From("choose")
  /\ \/ To("ready") /\ uart_conflict' \in BOOLEAN
     \/ To("mark") /\ uart_conflict' = FALSE
  /\ UNCHANGED <<poll_state, engine, ask_suspend, session, commandVars, requestVars>>

\* UBX: power the device on (gps_device_power_on); what is left in its buffer may show a conflict.
PowerOn ==
  /\ From("choose")
  /\ \/ /\ To("ready")
        /\ SetPollEngine("UBX")
        /\ uart_conflict' \in BOOLEAN
     \/ /\ To("mark")
        /\ uart_conflict' = FALSE
        /\ UNCHANGED engine
  /\ UNCHANGED <<poll_state, ask_suspend, session, commandVars, requestVars>>

\* Slip: the request flag is cleared after the state was published.
Ready_clearsLate ==
  /\ From("ready")
  /\ \/ To("ready") /\ poll_state' = "RUNNING" /\ UNCHANGED ask_suspend
     \/ To("loop") /\ poll_state = "RUNNING" /\ ask_suspend' = FALSE /\ UNCHANGED poll_state
  /\ UNCHANGED <<engine, uart_conflict, session, commandVars, requestVars>>

\* "Only after device being initialized!"
Ready ==
  /\ From("ready")
  /\ To("loop")
  /\ poll_state' = "RUNNING"
  /\ UNCHANGED <<engine, ask_suspend, uart_conflict, session, commandVars, requestVars>>

-----------------------------------------------------------------------------
(* The polling thread: its loop *)

Ending == main \in {"quit", "interrupted"}
Over == main \in {"over", "cut short"}
running == ~Ending /\ ~Over

\* running is FALSE from the moment the process is to end.
Loop ==
  /\ From("loop")
  /\ \/ ~running /\ To("gone")
     \/ running /\ To(IF ask_suspend THEN "leave" ELSE "poll")
  /\ UNCHANGED <<poll_state, engine, ask_suspend, uart_conflict, session, commandVars, requestVars>>

\* poll_by_fso_ogpsd, or ubx_poll_group with its two outcomes
Poll ==
  /\ From("poll")
  /\ IF gps_poll_func = "OGPSD" THEN To("loop") ELSE To("test") \/ To("failed")
  /\ UNCHANGED <<poll_state, engine, ask_suspend, uart_conflict, session, commandVars, requestVars>>

NoCommand ==
  /\ From("test")
  /\ ctrl_cmd = NULL
  /\ To("loop")
  /\ UNCHANGED <<poll_state, engine, ask_suspend, uart_conflict, session, commandVars, requestVars>>

\* exec_ctrl_cmd: the command runs, the input is flushed; ...
RunCommand ==
  /\ From("test")
  /\ ctrl_cmd # NULL
  /\ ran' = [cmd |-> ctrl_cmd, args |-> ctrl_cmd_args]
  /\ uart_conflict' \in {uart_conflict, TRUE}
  /\ To("forget")
  /\ UNCHANGED <<poll_state, engine, ask_suspend, session, ctrl_cmd, ctrl_cmd_args, issuing,
                 requestVars>>

\* ... its slot is given back, ...
ForgetCommand ==
  /\ From("forget")
  /\ ctrl_cmd' = NULL
  /\ To("forget args")
  /\ UNCHANGED <<poll_state, engine, ask_suspend, uart_conflict, session, ctrl_cmd_args, ran,
                 issuing, requestVars>>

\* ... and then its arguments.
ForgetArgs ==
  /\ From("forget args")
  /\ ctrl_cmd_args' = NULL
  /\ To("loop")
  /\ UNCHANGED <<poll_state, engine, ask_suspend, uart_conflict, session, ctrl_cmd, ran,
                 issuing, requestVars>>

\* check_failure: the device lost its power, or ogpsd is at work, or neither
CheckFailure ==
  /\ From("failed")
  /\ To("conflict")
  /\ \/ uart_conflict' \in BOOLEAN /\ UNCHANGED ask_suspend
     \/ uart_conflict' = FALSE /\ ask_suspend' = TRUE
     \/ uart_conflict' = TRUE /\ UNCHANGED ask_suspend
     \/ UNCHANGED <<uart_conflict, ask_suspend>>
  /\ UNCHANGED <<poll_state, engine, session, commandVars, requestVars>>

\* switch_to_ogpsd: the line is closed and ogpsd joined, or the thread gives up.
SwitchToOgpsd ==
  /\ From("conflict")
  /\ uart_conflict
  /\ \/ To("switched") /\ session' = "open" /\ UNCHANGED ask_suspend
     \/ To("loop") /\ ask_suspend' = TRUE /\ UNCHANGED session
  /\ UNCHANGED <<poll_state, engine, uart_conflict, commandVars, requestVars>>

Switched ==
  /\ From("switched") /\ UiFree
  /\ To("loop")
  /\ uart_conflict' = FALSE
  /\ SetPollEngine("OGPSD")
  /\ UNCHANGED <<poll_state, ask_suspend, session, commandVars, requestVars>>

NoConflict ==
  /\ From("conflict")
  /\ ~uart_conflict
  /\ To("loop")
  /\ UNCHANGED <<poll_state, engine, ask_suspend, uart_conflict, session, commandVars, requestVars>>

PollThreadStep ==
  \/ Boot \/ Leave \/ Mark \/ Block \/ Start \/ Clear \/ JoinOgpsd \/ Joined \/ PowerOn \/ Ready
  \/ Loop \/ Poll \/ NoCommand \/ RunCommand \/ ForgetCommand \/ ForgetArgs
  \/ CheckFailure \/ SwitchToOgpsd \/ Switched \/ NoConflict

-----------------------------------------------------------------------------
(* Requests: notify_poll_thread_suspend_resume and its callers *)

\* The one call means "suspend" to a running thread and "wake up" to a waiting one.
Notify(reason) ==
  /\ ask_suspend' = (ask_suspend \/ poll_state = "RUNNING")
  /\ IF at = "waiting"
     THEN To("start") /\ woken_by' = reason
     ELSE UNCHANGED <<at, woken_by>>
  /\ UNCHANGED <<poll_state, engine, uart_conflict, session, commandVars, killed>>

ClickStart ==
  /\ main = "idle"
  /\ poll_state # "RUNNING"
  /\ Notify("start")
  /\ UNCHANGED main

\* "Stop GPS?": the dialog releases the UI lock while it is open.
ClickStop ==
  /\ main = "idle"
  /\ poll_state = "RUNNING"
  /\ main' = "stop?"
  /\ UNCHANGED <<at, poll_state, engine, ask_suspend, uart_conflict, session, commandVars,
                 woken_by, killed>>

ConfirmStop ==
  /\ main = "stop?"
  /\ main' = "idle"
  /\ Notify("stop")

DenyStop ==
  /\ main = "stop?"
  /\ main' = "idle"
  /\ UNCHANGED <<at, poll_state, engine, ask_suspend, uart_conflict, session, commandVars,
                 woken_by, killed>>

\* system_action("suspend"): the test, ...
SystemSuspend ==
  /\ main = "idle"
  /\ poll_engine = "UBX"
  /\ poll_state = "RUNNING"
  /\ main' = "suspend"
  /\ UNCHANGED <<at, poll_state, engine, ask_suspend, uart_conflict, session, commandVars,
                 woken_by, killed>>

\* ... the request, ...
RequestSuspend ==
  /\ main = "suspend"
  /\ main' = "suspending"
  /\ Notify("suspend")

\* ... and the loop that waits for the polling thread, a second at a time
SuspendReached ==
  /\ main = "suspending"
  /\ poll_state = "SUSPENDING"
  /\ main' = "idle"
  /\ UNCHANGED <<at, poll_state, engine, ask_suspend, uart_conflict, session, commandVars,
                 woken_by, killed>>

SystemResume ==
  /\ main = "idle"
  /\ poll_engine = "UBX"
  /\ Notify("resume")
  /\ UNCHANGED main

Requests == \/ ClickStart \/ ClickStop \/ ConfirmStop \/ DenyStop
            \/ SystemSuspend \/ RequestSuspend \/ SuspendReached \/ SystemResume

-----------------------------------------------------------------------------
(* The end of the process: main_exit, delete_event and sig_handler call cleanup, which calls      *)
(* stop_poll_thread.                                                                              *)

\* A callback of the window ends the process, or SIGINT does, which finds the main thread without
\* the UI lock while it waits for events.  The polling thread is told and, if it waits, woken up.
EndsProcess(to) ==
  /\ main' = to
  /\ IF at = "waiting"
     THEN To("start") /\ woken_by' = "exit"
     ELSE UNCHANGED <<at, woken_by>>
  /\ UNCHANGED <<poll_state, engine, ask_suspend, uart_conflict, session, commandVars, killed>>

Exit == main = "idle" /\ EndsProcess("quit")
Interrupt == running /\ EndsProcess("interrupted")

\* After a fifth of a second, SIGUSR1 ends the thread wherever it is.
Kill ==
  /\ Ending /\ at # "gone"
  /\ To("gone")
  /\ killed' = at
  /\ UNCHANGED <<poll_state, engine, ask_suspend, uart_conflict, session, commandVars, main,
                 woken_by>>

\* Slip: a thread that was asked to suspend is left to clean up by itself.
NeedsCleanup_unasked == poll_state = "RUNNING" /\ ~ask_suspend
NeedsCleanup == poll_state = "RUNNING"

\* It was joined: what it had open is closed for it.
CleanUp ==
  /\ Ending /\ at = "gone"
  /\ main' = "over"
  /\ session' = IF NeedsCleanup /\ poll_engine = "OGPSD" THEN "none" ELSE session
  /\ poll_state' = IF NeedsCleanup THEN "SUSPENDING" ELSE poll_state
  /\ UNCHANGED <<at, engine, ask_suspend, uart_conflict, commandVars, woken_by, killed>>

\* A SIGINT amid the callback's cleanup finds cleanup_lock taken, so that its own returns and exit
\* is called at once.  (In sig_handler SIGINT is blocked.)
CutShort ==
  /\ main = "quit"
  /\ main' = "cut short" /\ To("gone")
  /\ UNCHANGED <<poll_state, engine, ask_suspend, uart_conflict, session, commandVars, woken_by,
                 killed>>

Ended == Over /\ UNCHANGED vars

-----------------------------------------------------------------------------
(* Control commands: issue_ctrl_cmd, without any lock *)

Issuing(i, from, to) ==
  /\ issuing[i] = from
  /\ i = Main => main = "idle"
  /\ issuing' = [issuing EXCEPT ![i] = to]
  /\ UNCHANGED <<at, poll_state, engine, ask_suspend, uart_conflict, session, ran, requestVars>>

\* The callers test the engine, the function tests the slot; a command that finds it taken
\* is refused ("Another command is running").
IssueTest(i) ==
  /\ poll_engine = "UBX"
  /\ Issuing(i, "idle", IF ctrl_cmd = NULL THEN "args" ELSE "idle")
  /\ UNCHANGED <<ctrl_cmd, ctrl_cmd_args>>

IssueArgs(i) ==
  /\ Issuing(i, "args", "cmd")
  /\ ctrl_cmd_args' = i
  /\ UNCHANGED ctrl_cmd

IssueCmd(i) ==
  /\ Issuing(i, "cmd", "idle")
  /\ ctrl_cmd' = i
  /\ UNCHANGED ctrl_cmd_args

Next == \/ PollThreadStep
        \/ WakeSpuriously
        \/ Requests
        \/ Exit \/ Interrupt \/ Kill \/ CleanUp \/ CutShort \/ Ended
        \/ \E i \in Issuer : IssueTest(i) \/ IssueArgs(i) \/ IssueCmd(i)

Spec == Init /\ [][Next]_vars

\* The polling thread runs whenever it can (its I/O has time-outs), the main thread comes
\* back to the loop of system_action every second, and does not stop in the middle of cleanup.
FairSpec ==
  Spec /\ WF_vars(PollThreadStep) /\ WF_vars(SuspendReached) /\ WF_vars(Kill) /\ WF_vars(CleanUp)

-----------------------------------------------------------------------------
(* Properties *)

\* The thread is polling, or between two polls.
Polling == at \in {"loop", "poll", "test", "forget", "forget args", "failed", "conflict"}

\* The types of the variables; the thread never polls through a pointer nobody has set.
PollTypeOK ==
  /\ at \in {"boot", "leave", "mark", "block", "waiting", "start", "clear", "choose", "joined",
             "ready", "loop", "poll", "test", "forget", "forget args", "failed", "conflict",
             "switched", "gone"}
  /\ poll_state \in {"SUSPENDING", "STARTING", "RUNNING"}
  /\ poll_engine \in {"UBX", "OGPSD"}
  /\ ask_suspend \in BOOLEAN
  /\ uart_conflict \in BOOLEAN
  /\ session \in {"open", "none"}
  /\ ctrl_cmd \in Issuer \cup {NULL}
  /\ ctrl_cmd_args \in Issuer \cup {NULL}
  /\ ran \in [cmd : Issuer \cup {NULL}, args : Issuer \cup {NULL}]
  /\ issuing \in [Issuer -> {"idle", "args", "cmd"}]
  /\ main \in {"idle", "stop?", "suspend", "suspending", "quit", "interrupted", "over",
              "cut short"}
  /\ woken_by \in {"start", "stop", "suspend", "resume", "exit", "nobody"}
  /\ gps_poll_func \in {"UBX", "OGPSD", NULL}
  /\ Polling => gps_poll_func # NULL

\* The GPS resource of ogpsd is held exactly while positions come from ogpsd: whichever of the
\* ways into and out of the engine was taken (suspend_resume, switch_to_ogpsd, a failed start),
\* no session outlives a suspension and none is opened twice; and the state on display is
\* RUNNING exactly while the thread polls or is about to suspend.
SessionMatchesEngine ==
  /\ Polling => (session = "open" <=> poll_engine = "OGPSD")
  /\ at \in {"mark", "block", "waiting", "start", "clear", "choose"} => session = "none"
  /\ Polling => poll_state = "RUNNING"
  /\ at \in {"block", "waiting"} => poll_state = "SUSPENDING"

\* A suspension that was asked of a running thread is reached: nothing clears ask_suspend
\* before the thread has seen it, however requests, failures and restarts interleave; and the end
\* of the process reaches it as well.
StopHonoured ==
  (ask_suspend /\ poll_state = "RUNNING") ~> (poll_state = "SUSPENDING" \/ main = "cut short")

\* The handler of the system's "suspend" signal comes back, provided its request found the
\* thread running and the thread is not woken up spuriously meanwhile (or the process ends).
SuspendReturns ==
  (main = "suspending" /\ ask_suspend /\ poll_state = "RUNNING")
    ~> (main = "idle" \/ Over \/ woken_by = "nobody")

\* The GPS of ogpsd, a resource other processes share, is given back before the process ends,
\* unless its clean-up is cut short, with one exception: a thread that was killed after it had
\* joined ogpsd and before it said so, by its engine or by its state RUNNING, which
\* stop_poll_thread goes by.  This covers a thread that was asked to suspend, one in the middle of
\* its own clean-up, and one that has ended by itself.
ExitReleases ==
  main = "over" /\ session = "open" => killed \in {"joined", "ready", "switched"}

\* "Stop GPS?" (tab_menu.c:73), "suspend" (dbus_intf.c:622): neither ever starts the GPS.
StopNeverStarts == woken_by \notin {"stop", "suspend"}

\* "NOTE: must be thread safe!" (poll.c:136): no command runs with the arguments of another one.
CommandKeepsArgs == ran.args \in {ran.cmd, NULL}
=============================================================================
