----------------------------- MODULE BatchJobs -----------------------------
(***************************************************************************)
(* What the batch download service of one map promises the user, without   *)
(* threads, slots or counters: batches are served in the order they were   *)
(* submitted, the tiles of a batch are handed out one after the other and  *)
(* each exactly once, a batch is done exactly when all of its tiles have   *)
(* come back, and a batch that is still in the list may be cancelled.      *)
(***************************************************************************)
EXTENDS Integers, Sequences, SequencesExt

CONSTANTS Batch,    \* the batches the user may ask for
          Total     \* Total[b]: how many tiles batch b has to download, at least one

VARIABLES queue,    \* the batches submitted and not cancelled, oldest first
          phase,    \* phase[b]: where batch b is in its life
          handed,   \* handed[b]: tiles 1..handed[b] of b have been handed out
          busy      \* busy[b]: the tiles of b that are being downloaded

jobVars == <<queue, phase, handed, busy>>

Init == /\ queue = <<>>
        /\ phase = [b \in Batch |-> "new"]
        /\ handed = [b \in Batch |-> 0]
        /\ busy = [b \in Batch |-> {}]

Submit(b) == /\ phase[b] = "new"
             /\ phase' = [phase EXCEPT ![b] = "queued"]
             /\ queue' = Append(queue, b)
             /\ UNCHANGED <<handed, busy>>

\* The first batch of the queue that still has a tile to hand out gives the next one.
HandOut(i) == LET b == queue[i] IN
  /\ i \in 1..Len(queue)
  /\ handed[b] < Total[b]
  /\ \A j \in 1..(i - 1) : handed[queue[j]] = Total[queue[j]]
  /\ handed' = [handed EXCEPT ![b] = @ + 1]
  /\ busy' = [busy EXCEPT ![b] = @ \cup {handed[b] + 1}]
  /\ UNCHANGED <<queue, phase>>

Return(b, t) ==
  /\ t \in busy[b]
  /\ busy' = [busy EXCEPT ![b] = @ \ {t}]
  /\ phase' = IF handed[b] = Total[b] /\ busy[b] = {t}
              THEN [phase EXCEPT ![b] = "done"]
              ELSE phase
  /\ UNCHANGED <<queue, handed>>

Cancel(i) ==
  /\ i \in 1..Len(queue)
  /\ phase' = [phase EXCEPT ![queue[i]] = "canceled"]
  /\ busy' = [busy EXCEPT ![queue[i]] = {}]
  /\ queue' = RemoveAt(queue, i)
  /\ UNCHANGED handed

Next == \/ \E b \in Batch : Submit(b)
        \/ \E b \in Batch : \E t \in 1..Total[b] : Return(b, t)
        \/ \E i \in 1..Len(queue) : HandOut(i) \/ Cancel(i)

Spec == Init /\ [][Next]_jobVars
=============================================================================
