------------------------- MODULE PollThread_proofs -------------------------
(***************************************************************************)
(* Proofs about PollThread, for any set of issuers: the types of its       *)
(* state, that the session with ogpsd and the state on display match the   *)
(* engine, and what the exit of the process leaves open.                   *)
(***************************************************************************)
EXTENDS PollThread, TLAPS

\* The control state: what PollTypeOK and SessionMatchesEngine say of it, and what makes that
\* inductive: the session matches the engine from the moment the thread has chosen one and while
\* it leaves, and nothing is open before the first choice.  Opened is what the exit relies on: a
\* session is open under the engine and the state that make stop_poll_thread close it, or else the
\* thread is, or was killed, between joining ogpsd and saying so (or the clean-up was cut short).
Late == {"joined", "ready", "switched"}
Opened ==
  session = "open" =>
    \/ poll_state = "RUNNING" /\ poll_engine = "OGPSD" /\ ~Over
    \/ at \in Late
    \/ at = "gone" /\ killed \in Late
    \/ main = "cut short"

Control ==
  /\ at \in {"boot", "leave", "mark", "block", "waiting", "start", "clear", "choose", "joined",
             "ready", "loop", "poll", "test", "forget", "forget args", "failed", "conflict",
             "switched", "gone"}
  /\ poll_state \in {"SUSPENDING", "STARTING", "RUNNING"}
  /\ poll_engine \in {"UBX", "OGPSD"}
  /\ session \in {"open", "none"}
  /\ gps_poll_func \in {"UBX", "OGPSD", NULL}
  /\ Polling \/ at \in {"ready", "switched"} => gps_poll_func # NULL
  /\ Polling \/ at \in {"leave", "ready"} => (session = "open" <=> poll_engine = "OGPSD")
  /\ at \in {"mark", "block", "waiting", "start", "clear", "choose"} => session = "none"
  /\ at \in {"joined", "switched"} => session = "open"
  /\ at = "boot" => session = "none" /\ poll_engine = "UBX"
  /\ Polling \/ at = "switched" => poll_state = "RUNNING"
  /\ Opened
  /\ Over => at = "gone"
  /\ at \in {"block", "waiting"} => poll_state = "SUSPENDING"

Flags == ask_suspend \in BOOLEAN /\ uart_conflict \in BOOLEAN

Commands ==
  /\ ctrl_cmd \in Issuer \cup {NULL}
  /\ ctrl_cmd_args \in Issuer \cup {NULL}
  /\ ran \in [cmd : Issuer \cup {NULL}, args : Issuer \cup {NULL}]
  /\ issuing \in [Issuer -> {"idle", "args", "cmd"}]

Asked ==
  /\ main \in {"idle", "stop?", "suspend", "suspending", "quit", "interrupted", "over",
              "cut short"}
  /\ woken_by \in {"start", "stop", "suspend", "resume", "exit", "nobody"}

-----------------------------------------------------------------------------
LEMMA ControlInit == Init => Control
  BY IssuerAssumption DEF Init, Control, Polling, Opened, Late, Over

LEMMA DataInit == Init => Flags /\ Commands /\ Asked
<1> SUFFICES ASSUME Init PROVE Flags /\ Commands /\ Asked
  OBVIOUS
<1>1. Flags /\ Asked
  BY DEF Init, Flags, Asked
<1>2. ran \in [cmd : Issuer \cup {NULL}, args : Issuer \cup {NULL}]
  BY DEF Init
<1>3. issuing \in [Issuer -> {"idle", "args", "cmd"}]
  BY DEF Init
<1>4. ctrl_cmd \in Issuer \cup {NULL} /\ ctrl_cmd_args \in Issuer \cup {NULL}
  BY DEF Init
<1> QED
  BY <1>1, <1>2, <1>3, <1>4 DEF Commands

\* A request, or the exit, moves the polling thread's control state at most from its wait to its
\* start.
LEMMA WakeControl ==
  ASSUME Control, UNCHANGED <<poll_state, poll_engine, gps_poll_func, session, killed>>,
         at' = (IF at = "waiting" THEN "start" ELSE at), Over' => Over,
         main # "cut short"
  PROVE  Control'
<1>1. CASE at = "waiting"
  <2>1. at' = "start"
    BY <1>1
  <2> QED
    BY <1>1, <2>1 DEF Control, Polling, Opened, Late, Over
<1>2. CASE at # "waiting"
  <2>1. at' = at
    BY <1>2
  <2> QED
    BY <2>1 DEF Control, Polling, Opened, Late, Over
<1> QED
  BY <1>1, <1>2

LEMMA ControlNext == ASSUME Control, [Next]_vars PROVE Control'
<1> USE DEF From, To, engine, requestVars
<1>q. ASSUME UNCHANGED <<at, poll_state, poll_engine, gps_poll_func, session, killed>>,
             Over' => Over, main = "cut short" => main' = main
      PROVE  Control'
  BY <1>q, ZenonT(40) DEF Control, Polling, Opened, Late, Over
<1>1. CASE Boot
  BY <1>1 DEF Boot, Control, Polling, Opened, Late, Over
<1>2. CASE Leave
  BY <1>2 DEF Leave, Control, Polling, Opened, Late, Over
<1>3. CASE Mark
  BY <1>3 DEF Mark, Control, Polling, Opened, Late, Over
<1>4. CASE Block
  BY <1>4 DEF Block, Control, Polling, Opened, Late, Over
<1>5. CASE Start
  BY <1>5 DEF Start, Control, Polling, Opened, Late, Over
<1>6. CASE Clear
  BY <1>6 DEF Clear, Control, Polling, Opened, Late, Over
<1>7. CASE JoinOgpsd
  BY <1>7, IssuerAssumption DEF JoinOgpsd, SetPollEngine, Control, Polling, Opened, Late, Over
<1>8. CASE PowerOn
  BY <1>8, IssuerAssumption DEF PowerOn, SetPollEngine, Control, Polling, Opened, Late, Over
<1>9. CASE Ready
  BY <1>9 DEF Ready, Control, Polling, Opened, Late, Over
<1>10. CASE Loop
  BY <1>10 DEF Loop, running, Ending, Control, Polling, Opened, Late, Over
<1>11. CASE Poll
  BY <1>11 DEF Poll, Control, Polling, Opened, Late, Over
<1>12. CASE NoCommand
  BY <1>12 DEF NoCommand, Control, Polling, Opened, Late, Over
<1>13. CASE RunCommand
  BY <1>13 DEF RunCommand, Control, Polling, Opened, Late, Over
<1>14. CASE ForgetCommand
  BY <1>14 DEF ForgetCommand, Control, Polling, Opened, Late, Over
<1>15. CASE ForgetArgs
  BY <1>15 DEF ForgetArgs, Control, Polling, Opened, Late, Over
<1>16. CASE CheckFailure
  BY <1>16 DEF CheckFailure, Control, Polling, Opened, Late, Over
<1>17. CASE SwitchToOgpsd
  BY <1>17, IssuerAssumption DEF SwitchToOgpsd, SetPollEngine, Control, Polling, Opened, Late, Over
<1>18. CASE NoConflict
  BY <1>18 DEF NoConflict, Control, Polling, Opened, Late, Over
<1>19. CASE WakeSpuriously
  BY <1>19 DEF WakeSpuriously, Control, Polling, Opened, Late, Over
<1>20. CASE Requests
  <2>1. ASSUME NEW reason, Notify(reason), ~Over', main # "cut short" PROVE Control'
    BY <2>1, WakeControl DEF Notify
  <2> QED
    BY <1>20, <1>q, <2>1
       DEF Requests, ClickStart, ClickStop, ConfirmStop, DenyStop, SystemSuspend, RequestSuspend,
           SuspendReached, SystemResume, Over
<1>23. CASE Exit \/ Interrupt
  <2>1. main # "cut short"
    BY <1>23 DEF Exit, Interrupt, running, Over
  <2> QED
    BY <1>23, <2>1, WakeControl DEF Exit, Interrupt, EndsProcess, running, Over
<1>24. CASE Kill
  BY <1>24 DEF Kill, Ending, Control, Polling, Opened, Late, Over
<1>25. CASE CleanUp
  BY <1>25 DEF CleanUp, Ending, NeedsCleanup, Control, Polling, Opened, Late, Over
<1>28. CASE CutShort
  BY <1>28 DEF CutShort, Ending, Control, Polling, Opened, Late, Over
<1>26. CASE Joined
  BY <1>26, IssuerAssumption DEF Joined, SetPollEngine, Control, Polling, Opened, Late, Over
<1>27. CASE Switched
  BY <1>27, IssuerAssumption DEF Switched, SetPollEngine, Control, Polling, Opened, Late, Over
<1>21. ASSUME NEW i \in Issuer, IssueTest(i) \/ IssueArgs(i) \/ IssueCmd(i) PROVE Control'
  BY <1>21, <1>q DEF IssueTest, IssueArgs, IssueCmd, Issuing, Over
<1>22. CASE Ended \/ UNCHANGED vars
  BY <1>22, <1>q DEF Ended, vars, Over
<1> QED
  BY <1>1, <1>2, <1>3, <1>4, <1>5, <1>6, <1>7, <1>8, <1>9, <1>10, <1>11, <1>12, <1>13, <1>14,
     <1>15, <1>16, <1>17, <1>18, <1>19, <1>20, <1>21, <1>22, <1>23, <1>24, <1>25, <1>26, <1>27,
     <1>28
  DEF Next, PollThreadStep

\* The flags: every action keeps them, clears or sets them, or chooses a Boolean.
LEMMA FlagsNext == ASSUME Flags, [Next]_vars PROVE Flags'
<1>1. CASE PollThreadStep
  BY <1>1 DEF PollThreadStep, Flags, Boot, Leave, Mark, Block, Start, Clear, JoinOgpsd, Joined,
              PowerOn, Ready, Loop, Poll, NoCommand, RunCommand, ForgetCommand, ForgetArgs,
              CheckFailure, SwitchToOgpsd, Switched, NoConflict
<1>2. CASE WakeSpuriously
  BY <1>2 DEF WakeSpuriously, Flags
<1>3. ASSUME NEW reason, Notify(reason) PROVE Flags'
  BY <1>3 DEF Notify, Flags
<1>4. CASE Requests
  BY <1>3, <1>4 DEF Requests, ClickStart, ClickStop, ConfirmStop, DenyStop, SystemSuspend,
                    RequestSuspend, SuspendReached, SystemResume, Flags
<1>5. ASSUME NEW i \in Issuer, IssueTest(i) \/ IssueArgs(i) \/ IssueCmd(i) PROVE Flags'
  BY <1>5 DEF IssueTest, IssueArgs, IssueCmd, Issuing, Flags
<1>6. CASE Exit \/ Interrupt \/ Kill \/ CleanUp \/ CutShort
  BY <1>6 DEF Exit, Interrupt, EndsProcess, Kill, CleanUp, CutShort, Flags
<1>7. CASE Ended \/ UNCHANGED vars
  BY <1>7 DEF Ended, vars, Flags
<1> QED
  BY <1>1, <1>2, <1>4, <1>5, <1>6, <1>7 DEF Next

\* The command slot: only its issuers and exec_ctrl_cmd touch it.
LEMMA CommandsNext == ASSUME Commands, [Next]_vars PROVE Commands'
<1>q. ASSUME UNCHANGED commandVars PROVE Commands'
  BY <1>q DEF commandVars, Commands
<1>1. CASE Boot
  BY <1>1 DEF Boot, Commands
<1>2. CASE RunCommand
  <2>1. ran' \in [cmd : Issuer \cup {NULL}, args : Issuer \cup {NULL}]
    BY <1>2 DEF RunCommand, Commands
  <2> QED
    BY <1>2, <2>1 DEF RunCommand, Commands
<1>3. CASE ForgetCommand \/ ForgetArgs
  BY <1>3 DEF ForgetCommand, ForgetArgs, Commands
<1>4. CASE PollThreadStep /\ ~(Boot \/ RunCommand \/ ForgetCommand \/ ForgetArgs)
  BY <1>4, <1>q DEF PollThreadStep, Leave, Mark, Block, Start, Clear, JoinOgpsd, Joined, PowerOn,
                    Ready, Loop, Poll, NoCommand, CheckFailure, SwitchToOgpsd, Switched, NoConflict
<1>7. CASE Exit \/ Interrupt \/ Kill \/ CleanUp \/ CutShort
  BY <1>7, <1>q DEF Exit, Interrupt, EndsProcess, Kill, CleanUp, CutShort
<1>5. CASE WakeSpuriously \/ Requests \/ Ended \/ UNCHANGED vars
  BY <1>5, <1>q DEF WakeSpuriously, Ended, Requests, ClickStart, ClickStop, ConfirmStop, DenyStop,
                    SystemSuspend, RequestSuspend, SuspendReached, SystemResume, Notify, vars
<1>6. ASSUME NEW i \in Issuer, IssueTest(i) \/ IssueArgs(i) \/ IssueCmd(i) PROVE Commands'
  <2>1. issuing' \in [Issuer -> {"idle", "args", "cmd"}]
    BY <1>6 DEF IssueTest, IssueArgs, IssueCmd, Issuing, Commands
  <2>2. ctrl_cmd' \in Issuer \cup {NULL} /\ ctrl_cmd_args' \in Issuer \cup {NULL}
    BY <1>6 DEF IssueTest, IssueArgs, IssueCmd, Commands
  <2>3. ran' = ran
    BY <1>6 DEF IssueTest, IssueArgs, IssueCmd, Issuing
  <2> QED
    BY <2>1, <2>2, <2>3 DEF Commands
<1> QED
  BY <1>1, <1>2, <1>3, <1>4, <1>5, <1>6, <1>7 DEF Next

LEMMA AskedNext == ASSUME Asked, [Next]_vars PROVE Asked'
<1>q. ASSUME UNCHANGED requestVars PROVE Asked'
  BY <1>q DEF requestVars, Asked
<1>1. CASE PollThreadStep
  BY <1>1, <1>q DEF PollThreadStep, Boot, Leave, Mark, Block, Start, Clear, JoinOgpsd, Joined,
                    PowerOn, Ready, Loop, Poll, NoCommand, RunCommand, ForgetCommand, ForgetArgs,
                    CheckFailure, SwitchToOgpsd, Switched, NoConflict
<1>2. CASE WakeSpuriously
  BY <1>2 DEF WakeSpuriously, Asked
<1>3. CASE Requests
  BY <1>3 DEF Requests, ClickStart, ClickStop, ConfirmStop, DenyStop, SystemSuspend, RequestSuspend,
              SuspendReached, SystemResume, Notify, Asked
<1>4. ASSUME NEW i \in Issuer, IssueTest(i) \/ IssueArgs(i) \/ IssueCmd(i) PROVE Asked'
  BY <1>4, <1>q DEF IssueTest, IssueArgs, IssueCmd, Issuing
<1>5. CASE Exit \/ Interrupt \/ Kill \/ CleanUp \/ CutShort
  BY <1>5 DEF Exit, Interrupt, EndsProcess, Kill, CleanUp, CutShort, Asked
<1>6. CASE Ended \/ UNCHANGED vars
  BY <1>6, <1>q DEF Ended, vars
<1> QED
  BY <1>1, <1>2, <1>3, <1>4, <1>5, <1>6 DEF Next

-----------------------------------------------------------------------------
IInv == Control /\ Flags /\ Commands /\ Asked

LEMMA Inductive == Spec => []IInv
<1>1. Init => IInv
  BY ControlInit, DataInit DEF IInv
<1>2. IInv /\ [Next]_vars => IInv'
  BY ControlNext, FlagsNext, CommandsNext, AskedNext DEF IInv
<1> QED
  BY <1>1, <1>2, PTL DEF Spec

\* The types of the polling thread's state, whatever interleaves; in particular it never polls
\* through a function pointer nobody has set (poll.c:482).
THEOREM PollTypeCorrect == Spec => []PollTypeOK
<1>1. IInv => PollTypeOK
  BY DEF IInv, Control, Flags, Commands, Asked, PollTypeOK
<1> QED
  BY <1>1, Inductive, PTL

\* The session with ogpsd is open exactly while it is the engine, and the state on display is
\* RUNNING while the thread polls (poll.c 206-283, 366-387).
THEOREM SessionCorrect == Spec => []SessionMatchesEngine
<1>1. IInv => SessionMatchesEngine
  BY DEF IInv, Control, SessionMatchesEngine
<1> QED
  BY <1>1, Inductive, PTL

\* However the process is ended, by the window or by SIGINT, the GPS of ogpsd is given back unless
\* the polling thread was killed between joining ogpsd and saying so (poll.c:501-551).
THEOREM ExitCorrect == Spec => []ExitReleases
<1>1. IInv => ExitReleases
  BY DEF IInv, Control, Opened, Late, Over, ExitReleases
<1> QED
  BY <1>1, Inductive, PTL
=============================================================================
