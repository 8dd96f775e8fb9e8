------------------------------ MODULE UbxLink ------------------------------
(***************************************************************************)
(* The serial line between the polling thread and the GPS receiver: power  *)
(* and UART (uart.c), the UBX messages on it (ubx.c), and the loop that    *)
(* polls, runs commands and recovers from failures (poll.c).  A message is *)
(* sent, answered and read as a whole, what does not begin with a UBX      *)
(* header is noise, and the line or the receiver may fail MaxFaults times. *)
(***************************************************************************)
EXTENDS Integers, Sequences, SequencesExt

CONSTANT MaxFaults   \* how often the line or the receiver misbehaves

ASSUME FaultAssumption == MaxFaults \in Nat

VARIABLES
  at,            \* where the polling thread is
  cmd,           \* the command it sends, or sent last
  back,          \* where uart_init or a flush returns to
  left,          \* answers ubx_poll_group has still to read
  time_synced,   \* g_context.time_synced
  uart_conflict, \* g_context.uart_conflict
  fix,           \* what each part of g_gpsdata comes from
  power,         \* the receiver is powered
  applied,       \* the commands in force in the receiver
  rx,            \* requests on their way to the receiver
  out,           \* what the receiver sent and nobody has read
  executed,      \* the receiver has carried out the last command sent
  clean,         \* the line was empty when the current poll was sent
  faults         \* how often something failed

hostVars == <<at, cmd, back, left>>
dataVars == <<time_synced, fix>>
receiverVars == <<power, applied, rx>>
auxVars == <<executed, clean>>
vars == <<hostVars, dataVars, receiverVars, auxVars, uart_conflict, out, faults>>

-----------------------------------------------------------------------------
(* Messages *)

\* The commands of uart_init, in their order.
Configuration == <<"rate", "prt", "nmea_ubx", "nmea_std", "sbas">>

\* The commands that other threads hand over.
UserCommand == {"nav2", "rst"}

Command == Range(Configuration) \cup UserCommand

\* The type an acknowledgement names; both NMEA commands are CFG-MSG.
AckType(c) == IF c \in {"nmea_ubx", "nmea_std"} THEN "msg" ELSE c

\* There is no answer to CFG-RST.
ReadsAck(c) == c # "rst"

\* Of these g_gpsdata keeps the state of the fix, the position and the velocity
\* in every poll.
FixType == {"status", "posllh", "velned"}

NavType == {"status", "posllh", "velned", "timeutc", "svinfo"}

\* The group that is polled; SVINFO is the last and polled now and then.
PollTypes(synced) ==
  IF synced THEN <<"status", "posllh", "velned", "svinfo">>
            ELSE <<"status", "posllh", "velned", "timeutc", "svinfo">>

Group(synced, pollsv) ==
  IF pollsv THEN PollTypes(synced) ELSE Front(PollTypes(synced))

\* Slip: the satellites are waited for even when they were not asked for.
Awaited_all(synced, pollsv) == Len(PollTypes(synced))

Awaited(synced, pollsv) == Len(Group(synced, pollsv))

Request == [of : Command \cup NavType, new : BOOLEAN]
Answer == [kind : {"nav", "ack", "nak"}, of : NavType \cup {AckType(c) : c \in Command}, new : BOOLEAN]
Noise == [kind |-> "noise", of |-> "none", new |-> FALSE]

Requests(types) == [i \in DOMAIN types |-> [of |-> types[i], new |-> TRUE]]

\* What was on the line before a new request.
Aged(line) == [i \in DOMAIN line |-> [line[i] EXCEPT !.new = FALSE]]

\* A receiver without power gets nothing.
Sent(requests) == IF power THEN Aged(rx) \o requests ELSE <<>>

\* Slip: the message id is not looked at, so a refusal passes.
Acknowledges_nak(m, c) == m.kind \in {"ack", "nak"} /\ m.of = AckType(c)

Acknowledges(m, c) == m.kind = "ack" /\ m.of = AckType(c)

-----------------------------------------------------------------------------

Init ==
  /\ at = "closed" /\ cmd = "rate" /\ back = "ready" /\ left = 0
  /\ time_synced = FALSE /\ uart_conflict = FALSE
  /\ fix = [t \in FixType |-> "none"]
  /\ power \in BOOLEAN
  /\ applied \in IF power THEN {{}, Range(Configuration)} ELSE {{}}
  /\ rx = <<>> /\ out = <<>>
  /\ executed = FALSE /\ clean = TRUE
  /\ faults = 0

Fault == faults < MaxFaults /\ faults' = faults + 1

-----------------------------------------------------------------------------
(* Power and initialisation *)

\* Close the device, switch the power off and on, go on in uart_init; the file
\* of the power switch may be out of reach, which goes unnoticed.
GpsDevicePowerOn(return) ==
  /\ at' = "open"
  /\ back' = return
  /\ uart_conflict' = FALSE
  /\ out' = <<>>
  /\ \/ /\ power' = TRUE
        /\ applied' = {}
        /\ rx' = <<>>
        /\ UNCHANGED faults
     \/ /\ Fault
        /\ UNCHANGED receiverVars

\* The thread starts or resumes with this engine.
Start ==
  /\ at = "closed"
  /\ GpsDevicePowerOn("ready")
  /\ UNCHANGED <<cmd, left, dataVars, auxVars>>

\* uart_open waits for the first output; then nothing is known of the position.
OpenUart ==
  /\ at = "open"
  /\ out # <<>>
  /\ out' = Tail(out)
  /\ at' = "send"
  /\ cmd' = Head(Configuration)
  /\ fix' = [t \in FixType |-> "none"]
  /\ UNCHANGED <<back, left, time_synced, receiverVars, auxVars, uart_conflict, faults>>

\* The device cannot be opened or set up.
OpenFails ==
  /\ at = "open"
  /\ Fault
  /\ at' = "closed"
  /\ UNCHANGED <<cmd, back, left, dataVars, receiverVars, auxVars, uart_conflict, out>>

-----------------------------------------------------------------------------
(* Commands and their acknowledgement *)

\* Where a failed command leaves the thread, and whether the line is flushed.
GiveUp(flushed) ==
  IF cmd \in UserCommand
  THEN at' = "flush" /\ back' = "ready"
  ELSE IF flushed THEN at' = "flush" /\ back' = "closed" ELSE at' = "closed" /\ back' = back

\* ubx_issue_cmd, and no acknowledgement is read of CFG-RST.
SendCommand ==
  /\ at = "send"
  /\ rx' = Sent(Requests(<<cmd>>))
  /\ out' = Aged(out)
  /\ executed' = FALSE
  /\ IF ReadsAck(cmd) THEN at' = "ack" /\ back' = back ELSE at' = "flush" /\ back' = "ready"
  /\ UNCHANGED <<cmd, left, dataVars, power, applied, clean, uart_conflict, faults>>

\* The line does not take the command within the time-out.
SendFails ==
  /\ at = "send"
  /\ Fault
  /\ GiveUp(FALSE)
  /\ UNCHANGED <<cmd, left, dataVars, receiverVars, auxVars, uart_conflict, out>>

\* The last command of uart_init is followed by the A-GPS data and a flush.
NextCommand ==
  LET i == SelectInSeq(Configuration, LAMBDA c : c = cmd) IN
  IF i \in 1..Len(Configuration) - 1
  THEN at' = "send" /\ cmd' = Configuration[i + 1] /\ back' = back
  ELSE at' = "flush" /\ cmd' = cmd /\ back' = IF cmd \in UserCommand THEN "ready" ELSE back

\* ubx_read_ack finds what it expects.
Acknowledged ==
  /\ at = "ack"
  /\ out # <<>>
  /\ Head(out) # Noise
  /\ Acknowledges(Head(out), cmd)
  /\ out' = Tail(out)
  /\ NextCommand
  /\ UNCHANGED <<left, dataVars, receiverVars, auxVars, uart_conflict, faults>>

\* ... or anything else.
BadAck ==
  /\ at = "ack"
  /\ out # <<>>
  /\ Head(out) # Noise
  /\ ~Acknowledges(Head(out), cmd)
  /\ out' = Tail(out)
  /\ GiveUp(TRUE)
  /\ UNCHANGED <<cmd, left, dataVars, receiverVars, auxVars, uart_conflict, faults>>

-----------------------------------------------------------------------------
(* Reading the line *)

\* ubx_read_header reads on until a header.
SkipNoise ==
  /\ at \in {"ack", "read"}
  /\ out # <<>>
  /\ Head(out) = Noise
  /\ out' = Tail(out)
  /\ UNCHANGED <<hostVars, dataVars, receiverVars, auxVars, uart_conflict, faults>>

\* Nothing will come, or it comes too late.
NoAnswer == out = <<>> /\ IF rx = <<>> \/ ~power THEN UNCHANGED faults ELSE Fault

TimeOut ==
  /\ at \in {"ack", "read"}
  /\ NoAnswer
  /\ \/ at = "ack" /\ GiveUp(TRUE)
     \/ at = "read" /\ at' = "flush" /\ back' = "failed"
  /\ UNCHANGED <<cmd, left, dataVars, receiverVars, auxVars, uart_conflict, out>>

\* Slip: the flush does not wait for what the receiver has still to write.
Settled_atOnce == TRUE

\* The flush waits for pending output before it reads everything away.
Settled == rx = <<>>

\* uart_flush_output; more than 1K of output is taken for another program's
\* doing, and the rest is left unread.
Flush ==
  /\ at = "flush"
  /\ Settled
  /\ at' = back
  /\ \/ out' = <<>> /\ UNCHANGED uart_conflict
     \/ /\ Contains(out, Noise)
        /\ out' \in Suffixes(out)
        /\ uart_conflict' = TRUE
  /\ UNCHANGED <<cmd, back, left, dataVars, receiverVars, auxVars, faults>>

-----------------------------------------------------------------------------
(* The polling loop *)

\* ubx_poll_group sends its requests in one write.
PollGroup ==
  /\ at = "ready"
  /\ \E pollsv \in BOOLEAN :
       /\ rx' = Sent(Requests(Group(time_synced, pollsv)))
       /\ left' = Awaited(time_synced, pollsv)
  /\ out' = Aged(out)
  /\ fix' = [t \in FixType |-> IF fix[t] = "new" THEN "old" ELSE fix[t]]
  /\ clean' = (rx = <<>> /\ out = <<>>)
  /\ at' = "read"
  /\ UNCHANGED <<cmd, back, time_synced, power, applied, executed, uart_conflict, faults>>

\* The write stops after some of them, and nothing is flushed.
PollWriteFails ==
  /\ at = "ready"
  /\ Fault
  /\ \E pollsv \in BOOLEAN :
       \E sent \in Prefixes(Group(time_synced, pollsv)) \ {Group(time_synced, pollsv)} :
          rx' = Sent(Requests(sent))
  /\ out' = Aged(out)
  /\ fix' = [t \in FixType |-> IF fix[t] = "new" THEN "old" ELSE fix[t]]
  /\ at' = "failed"
  /\ UNCHANGED <<cmd, back, left, time_synced, power, applied, auxVars, uart_conflict>>

\* Slip: the number of answers is read anew once the time was taken over.
Remaining_anew(synced) == IF synced # time_synced THEN left - 2 ELSE left - 1

Remaining(synced) == left - 1

\* One answer of the group is read and understood; a valid time is handed to the
\* system, when that works.
ParseResponse ==
  /\ at = "read"
  /\ out # <<>>
  /\ Head(out) # Noise
  /\ Head(out).kind = "nav"
  /\ LET m == Head(out) IN
       \E valid \in (IF m.of = "status" THEN {TRUE} ELSE BOOLEAN) :
         /\ fix' = [t \in FixType |-> IF t # m.of THEN fix[t]
                                 ELSE IF ~valid THEN "none" ELSE IF m.new THEN "new" ELSE "old"]
         /\ time_synced' \in {time_synced, time_synced \/ (m.of = "timeutc" /\ valid)}
  /\ out' = Tail(out)
  /\ left' = Remaining(time_synced')
  /\ at' = IF left' <= 0 THEN "publish" ELSE "read"
  /\ UNCHANGED <<cmd, back, receiverVars, auxVars, uart_conflict, faults>>

\* An answer of a wrong length, or one that was not asked for: the poll fails and
\* the rest of its answers is not read.
ParseFails ==
  /\ at = "read"
  /\ out # <<>>
  /\ Head(out) # Noise
  /\ IF Head(out).kind = "nav" THEN Fault ELSE UNCHANGED faults
  /\ out' = Tail(out)
  /\ at' = "failed"
  /\ UNCHANGED <<cmd, back, left, dataVars, receiverVars, auxVars, uart_conflict>>

\* The position is shown; then a command that was handed over is run.
Publish ==
  /\ at = "publish"
  /\ \/ at' = "ready" /\ UNCHANGED cmd
     \/ at' = "send" /\ cmd' \in UserCommand
  /\ UNCHANGED <<back, left, dataVars, receiverVars, auxVars, uart_conflict, out, faults>>

\* check_failure: start over without power, suspect the ogpsd service if it runs.
CheckFailure ==
  /\ at = "failed"
  /\ \/ ~power /\ GpsDevicePowerOn("failed on")
     \/ /\ power
        /\ at' = "failed on"
        /\ uart_conflict' \in {uart_conflict, TRUE}
        /\ UNCHANGED <<back, out, receiverVars, faults>>
  /\ UNCHANGED <<cmd, left, dataVars, auxVars>>

\* switch_to_ogpsd: the rate is set once more, and the device is closed; whatever
\* the receiver still answers is for nobody.
SwitchToOgpsd ==
  /\ at = "failed on"
  /\ uart_conflict
  /\ applied' = IF power THEN applied \cup {"rate"} ELSE applied
  /\ rx' = <<>> /\ out' = <<>>
  /\ uart_conflict' \in BOOLEAN
  /\ at' = "closed"
  /\ UNCHANGED <<cmd, back, left, dataVars, power, auxVars, faults>>

NoConflict ==
  /\ at = "failed on"
  /\ ~uart_conflict
  /\ at' = "ready"
  /\ UNCHANGED <<cmd, back, left, dataVars, receiverVars, auxVars, uart_conflict, out, faults>>

\* The user or the system suspends the thread; the device stays open.
Suspend ==
  /\ at = "ready"
  /\ at' = "closed"
  /\ UNCHANGED <<cmd, back, left, dataVars, receiverVars, auxVars, uart_conflict, out, faults>>

-----------------------------------------------------------------------------
(* The receiver and the other programs *)

AnswerTo(q, kind) ==
  [kind |-> kind, of |-> IF q.of \in NavType THEN q.of ELSE AckType(q.of), new |-> q.new]

\* The receiver takes a request and answers.
Obey ==
  /\ power
  /\ rx # <<>>
  /\ LET q == Head(rx) IN
       /\ applied' = IF q.of \in Command THEN applied \cup {q.of} ELSE applied
       /\ executed' = (executed \/ (q.of \in Command /\ q.new))
       /\ out' = IF q.of \in NavType THEN Append(out, AnswerTo(q, "nav"))
                 ELSE IF ReadsAck(q.of) THEN Append(out, AnswerTo(q, "ack")) ELSE out
  /\ rx' = Tail(rx)
  /\ UNCHANGED <<hostVars, dataVars, power, clean, uart_conflict, faults>>

\* The request is refused, or it or its answer is lost on the line.
Disobey ==
  /\ power
  /\ rx # <<>>
  /\ Fault
  /\ LET q == Head(rx) IN
       \/ out' = out /\ UNCHANGED <<applied, executed>>
       \/ /\ q.of \in Command
          /\ out' = Append(out, AnswerTo(q, "nak")) /\ UNCHANGED <<applied, executed>>
       \/ /\ q.of \in Command
          /\ applied' = applied \cup {q.of}
          /\ executed' = (executed \/ q.new)
          /\ out' = out
  /\ rx' = Tail(rx)
  /\ UNCHANGED <<hostVars, dataVars, power, clean, uart_conflict>>

\* NMEA sentences come until the port was set to UBX alone.
Nmea ==
  /\ power
  /\ "prt" \notin applied
  /\ out # <<>> => Last(out) # Noise
  /\ out' = Append(out, Noise)
  /\ UNCHANGED <<hostVars, dataVars, receiverVars, auxVars, uart_conflict, faults>>

\* Another program, or the system, switches the receiver off.
PowerLost ==
  /\ power
  /\ power' = FALSE /\ applied' = {} /\ rx' = <<>>
  /\ UNCHANGED <<hostVars, dataVars, auxVars, uart_conflict, out, faults>>

-----------------------------------------------------------------------------

Thread ==
  \/ OpenUart \/ OpenFails \/ SendCommand \/ SendFails \/ Acknowledged \/ BadAck
  \/ SkipNoise \/ TimeOut \/ Flush
  \/ PollGroup \/ PollWriteFails \/ ParseResponse \/ ParseFails \/ Publish
  \/ CheckFailure \/ SwitchToOgpsd \/ NoConflict

Receiver == Obey \/ Disobey

Next ==
  \/ Thread \/ Start \/ Suspend
  \/ Receiver \/ Nmea \/ PowerLost

\* The thread is scheduled; a powered receiver takes what it is sent.
Fairness == WF_vars(Thread) /\ WF_vars(Receiver)

Spec == Init /\ [][Next]_vars /\ Fairness

-----------------------------------------------------------------------------
(* Properties *)

At == {"closed", "open", "send", "ack", "flush", "ready", "read", "publish", "failed", "failed on"}

\* The types; in particular answers are counted down to none and not below, and
\* never more are awaited than were asked for.
UbxTypeOK ==
  /\ at \in At
  /\ cmd \in Command
  /\ back \in {"ready", "failed", "failed on", "closed"}
  /\ left \in 0..Len(PollTypes(FALSE))
  /\ at = "read" => left > 0
  /\ time_synced \in BOOLEAN
  /\ uart_conflict \in BOOLEAN
  /\ fix \in [FixType -> {"none", "new", "old"}]
  /\ power \in BOOLEAN
  /\ applied \in SUBSET Command
  /\ Range(rx) \subseteq Request
  /\ Range(out) \subseteq Answer \cup {Noise}
  /\ executed \in BOOLEAN
  /\ clean \in BOOLEAN
  /\ faults \in 0..MaxFaults

\* uart_init succeeds only if the receiver is as it asks for: while the thread
\* polls (poll_by_ubx_binary), a receiver that has kept its power has carried out
\* every command of uart_init, whatever was refused, lost or answered late before.
ConfiguredWhilePolling ==
  at \in {"ready", "read", "publish", "failed"} /\ power => Range(Configuration) \subseteq applied

\* ubx_read_ack returns TRUE only for the command it was called for: the receiver
\* has carried out the command that was sent last, and the acknowledgement of an
\* earlier one of the same type, late or left on the line, is not taken for it.
AckMeansExecuted == [][Acknowledged => executed]_vars

\* A poll that began on an empty line and succeeds has read the whole group and
\* nothing else (ubx_poll_group: "ALL ok, may be invalid"): what is shown is of
\* this poll, and the line is empty again for the next one, even when the group
\* loses a type half way, as the clock is set (sync_gpstime_to_system).
CleanPollIsWhole ==
  at = "publish" /\ clean =>
    /\ rx = <<>> /\ out = <<>>
    /\ fix["status"] = "new"
    /\ fix["posllh"] # "old" /\ fix["velned"] # "old"

\* With a limited number of failures the polling loop (poll_gps_data_routine) is
\* not stuck in them: as long as the receiver has power and the thread is not
\* suspended or switched to ogpsd, a position is published after every start of a
\* poll, although failed polls leave answers on the line.
PollsGoOn == at = "ready" ~> (at \in {"publish", "closed"} \/ ~power)

=============================================================================
