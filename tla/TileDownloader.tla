--------------------------- MODULE TileDownloader ---------------------------
(***************************************************************************)
(* The tile downloader of one map repository (tile_dl.c): the queue of     *)
(* front-end requests, the list of batches, and the threads that serve     *)
(* both.  Every section of the code between LOCK_MUTEX(&td->lock) and the  *)
(* next UNLOCK_MUTEX is one action: no other lock is ever taken inside it. *)
(* What a thread does without the lock (an HTTP download, the wait for the *)
(* UI lock, a sleep) is a value of its program counter.                    *)
(***************************************************************************)
EXTENDS Integers, Sequences, FiniteSets, SequencesExt

CONSTANTS
  Batch,          \* the batch_dl_t objects the user creates, each enqueued once
  NoBatch,        \* the NULL of td->cur_batch
  Total,          \* Total[b]: num_dl_total of batch b
  Tile,           \* the tiles the map view may request
  ThreadLimit,    \* TILE_DL_THREADS_LIMIT
  TasksPerThread, \* the 5 of "num_dl_total / 5"
  FrontPerThread, \* the 4 of "dl_threads_count << 2"
  CreateMayFail,  \* may pthread_create return an error?
  MaxFrontCount,  \* bound of the model: front_task_count stays below it
  MaxExiting      \* bound of the model: threads between their last unlock and their end

ASSUME DownloaderAssumption ==
  /\ NoBatch \notin Batch
  /\ IsFiniteSet(Batch)
  /\ Total \in [Batch -> Nat \ {0}]    \* ctx_dl_tiles.c: "already on disk" otherwise
  /\ ThreadLimit \in Nat \ {0}
  /\ TasksPerThread \in Nat \ {0}
  /\ FrontPerThread \in Nat \ {0}
  /\ CreateMayFail \in BOOLEAN
  /\ MaxFrontCount \in Nat
  /\ MaxExiting \in Nat

Slot == 0..(ThreadLimit - 1)           \* td->dl_threads[]

VARIABLES
  state,                    \* batch->state, "NEW" before batch_download(batch)
  cur_task_id,              \* batch->cur_task_id, -1 once the last task is taken
  num_dl_done,              \* batch->num_dl_done
  num_dl_failed,            \* batch->num_dl_failed
  batches,                  \* the list td->batches .. td->batches_tail
  cur_batch,                \* td->cur_batch
  batch_count,              \* td->batch_count
  unfinished_batch_count,   \* td->unfinished_batch_count
  front_tasks,              \* the list td->front_tasks .. td->front_tasks_tail
  front_task_count,         \* td->front_task_count
  dl_threads_count,         \* td->dl_threads_count
  pc,                       \* what the thread of a slot is about to do; "none": tid = 0
  job,                      \* the batch and the task a thread is downloading
  num_downloading_batches,  \* update_ui_thread.num_downloading_batches
  pending_free,             \* pending_free_list
  freed,                    \* the batches whose memory was given back by free()
  exiting,                  \* threads that have left their slot and not yet ended
  crashed                   \* the process was killed after a use of freed memory

batchVars == <<state, cur_task_id, num_dl_done, num_dl_failed, batches, cur_batch,
               batch_count, unfinished_batch_count>>
frontVars == <<front_tasks, front_task_count>>
threadVars == <<dl_threads_count, pc, job>>
freeVars == <<pending_free, freed, exiting, crashed>>
vars == <<batchVars, frontVars, threadVars, num_downloading_batches, freeVars>>

NoJob == [batch |-> NoBatch, task |-> -1]

Init ==
  /\ state = [b \in Batch |-> "NEW"]
  /\ cur_task_id = [b \in Batch |-> 0]
  /\ num_dl_done = [b \in Batch |-> 0]
  /\ num_dl_failed = [b \in Batch |-> 0]
  /\ batches = <<>>
  /\ cur_batch = NoBatch
  /\ batch_count = 0
  /\ unfinished_batch_count = 0
  /\ front_tasks = <<>>
  /\ front_task_count = 0
  /\ dl_threads_count = 0
  /\ pc = [w \in Slot |-> "none"]
  /\ job = [w \in Slot |-> NoJob]
  /\ num_downloading_batches = 0
  /\ pending_free = {}
  /\ freed = {}
  /\ exiting = 0
  /\ crashed = FALSE

-----------------------------------------------------------------------------
(* Threads: creation and wake-up *)

FreeSlots == {w \in Slot : pc[w] = "none"}

\* The slots n calls of tile_downloader_create_thread fill: each takes the first free one.
NewSlots(n) == {w \in FreeSlots : Cardinality({v \in FreeSlots : v < w}) < n}

\* Of "wanted" calls, those that may succeed.
Created(wanted) == IF CreateMayFail THEN 0..wanted ELSE {wanted}

\* Slip: the broadcast is forgotten, only the created threads run.
CreateAndBroadcast_silent(n) ==
  /\ dl_threads_count' = dl_threads_count + Cardinality(NewSlots(n))
  /\ pc' = [w \in Slot |-> IF w \in NewSlots(n) THEN "loop" ELSE pc[w]]
  /\ UNCHANGED job

\* Create n threads, then pthread_cond_broadcast(&td->cv): every waiting thread contends again.
CreateAndBroadcast(n) ==
  /\ dl_threads_count' = dl_threads_count + Cardinality(NewSlots(n))
  /\ pc' = [w \in Slot |-> IF w \in NewSlots(n) \/ pc[w] = "wait" THEN "loop" ELSE pc[w]]
  /\ UNCHANGED job

Least(m, n) == IF m < n THEN m ELSE n
Greatest(m, n) == IF m > n THEN m ELSE n

\* How many threads batch_download asks for.
WantedThreads(b) ==
  Least(Greatest(1, Total[b] \div TasksPerThread), ThreadLimit - dl_threads_count)

-----------------------------------------------------------------------------
(* The main thread, inside a GTK callback: it holds the UI lock throughout *)

\* batch_download(b)
BatchDownload(b) ==
  /\ ~crashed
  /\ state[b] = "NEW"
  /\ num_downloading_batches' = num_downloading_batches + 1
  /\ state' = [state EXCEPT ![b] = IF cur_batch = NoBatch THEN "PROCESSING" ELSE "PENDING"]
  /\ cur_batch' = IF cur_batch = NoBatch THEN b ELSE cur_batch
  /\ batches' = Append(batches, b)
  /\ batch_count' = batch_count + 1
  /\ unfinished_batch_count' = unfinished_batch_count + 1
  /\ \E n \in Created(WantedThreads(b)) : CreateAndBroadcast(n)
  /\ UNCHANGED <<cur_task_id, num_dl_done, num_dl_failed, frontVars, freeVars>>

WantsFrontThread == /\ front_task_count + 1 > dl_threads_count * FrontPerThread
                    /\ dl_threads_count < ThreadLimit

\* add_front_download_task(t); a tile that is already queued is dropped.
AddFront(t) ==
  /\ ~crashed
  /\ front_task_count < MaxFrontCount
  /\ \A k \in 1..Len(front_tasks) : front_tasks[k] # t
  /\ front_tasks' = IF front_task_count = 0 THEN <<t>> ELSE Append(front_tasks, t)
  /\ front_task_count' = front_task_count + 1
  /\ \E n \in Created(IF WantsFrontThread THEN 1 ELSE 0) : CreateAndBroadcast(n)
  /\ UNCHANGED <<batchVars, num_downloading_batches, freeVars>>

\* Slip: the queue is served from its head again; or the next batch is never promoted.
NextCurBatch_head(i) == IF i < Len(batches) THEN batches[1] ELSE NoBatch
NextCurBatch_none(i) == NoBatch

\* The batch after position i of the list becomes the current one, if there is one.
NextCurBatch(i) == IF i < Len(batches) THEN batches[i + 1] ELSE NoBatch

\* states with the batch after position i PROCESSING; what "st" says otherwise.
StartNext(st, i) == IF i < Len(batches)
                    THEN [st EXCEPT ![batches[i + 1]] = "PROCESSING"]
                    ELSE st

RestartNext(i) == IF i < Len(batches)
                  THEN [cur_task_id EXCEPT ![batches[i + 1]] = 0]
                  ELSE cur_task_id

\* Slip: a finished batch that is cancelled is counted out once more.
CountsAsUnfinished_always(b) == TRUE
CountsAsUnfinished(b) == state[b] # "FINISHED"

\* A cancelled batch is handed to free_pending_frees, except the current one.
ToFree(b) == IF b = cur_batch THEN {} ELSE {b}

\* download_cancel_batch of the batch at position i of the list
CancelBatch(i) ==
  LET b == batches[i]
      open == IF CountsAsUnfinished(b) THEN 1 ELSE 0
  IN /\ ~crashed
     /\ batches' = RemoveAt(batches, i)
     /\ IF b = cur_batch
        THEN /\ cur_batch' = NextCurBatch(i)
             /\ cur_task_id' = RestartNext(i)
             /\ state' = [StartNext(state, i) EXCEPT ![b] = "CANCELED"]
        ELSE /\ state' = [state EXCEPT ![b] = "CANCELED"]
             /\ UNCHANGED <<cur_batch, cur_task_id>>
     /\ pending_free' = pending_free \cup ToFree(b)
     /\ unfinished_batch_count' = unfinished_batch_count - open
     /\ num_downloading_batches' = num_downloading_batches - open
     /\ batch_count' = batch_count - 1
     /\ UNCHANGED <<num_dl_done, num_dl_failed, frontVars, threadVars, freed, exiting, crashed>>

-----------------------------------------------------------------------------
(* The download threads: download_routine *)

At(w, l) == ~crashed /\ pc[w] = l
Goto(w, l) == pc' = [pc EXCEPT ![w] = l]

HasWork == front_task_count > 0 \/ unfinished_batch_count > 0

\* Slip: the counter is not reset when the queue runs empty.
TakeFront_noReset(w) ==
  /\ At(w, "loop")
  /\ front_tasks # <<>>
  /\ front_tasks' = Tail(front_tasks)
  /\ Goto(w, "front")
  /\ UNCHANGED <<batchVars, front_task_count, dl_threads_count, job, num_downloading_batches, freeVars>>

\* download_next_front, up to the download
TakeFront(w) ==
  /\ At(w, "loop")
  /\ front_task_count > 0
  /\ front_tasks' = Tail(front_tasks)
  /\ front_task_count' = IF Len(front_tasks) = 1 THEN 0 ELSE front_task_count
  /\ Goto(w, "front")
  /\ UNCHANGED <<batchVars, dl_threads_count, job, num_downloading_batches, freeVars>>

\* The download is over, the view was told, the lock is held again.
FinishFront(w) ==
  /\ At(w, "front")
  /\ Goto(w, "loop")
  /\ UNCHANGED <<batchVars, frontVars, dl_threads_count, job, num_downloading_batches, freeVars>>

\* download_next_batch with no current batch: sleep for a second without the lock
Nap(w) ==
  /\ At(w, "loop")
  /\ front_task_count = 0
  /\ unfinished_batch_count > 0
  /\ cur_batch = NoBatch
  /\ Goto(w, "nap")
  /\ UNCHANGED <<batchVars, frontVars, dl_threads_count, job, num_downloading_batches, freeVars>>

WakeFromNap(w) ==
  /\ At(w, "nap")
  /\ Goto(w, "loop")
  /\ UNCHANGED <<batchVars, frontVars, dl_threads_count, job, num_downloading_batches, freeVars>>

\* Slip: the last task is compared before the increment.
LastTaskTaken_late(b) == cur_task_id[b] = Total[b]
LastTaskTaken(b) == cur_task_id[b] + 1 = Total[b]

\* download_next_batch, up to the download
TakeBatchTask(w) ==
  LET b == cur_batch
      i == CHOOSE k \in 1..Len(batches) : batches[k] = b
  IN /\ At(w, "loop")
     /\ front_task_count = 0
     /\ unfinished_batch_count > 0
     /\ b # NoBatch
     /\ job' = [job EXCEPT ![w] = [batch |-> b, task |-> cur_task_id[b]]]
     /\ IF LastTaskTaken(b)
        THEN /\ state' = [StartNext(state, i) EXCEPT ![b] = "FINISHING"]
             /\ cur_task_id' = [RestartNext(i) EXCEPT ![b] = -1]
             /\ cur_batch' = NextCurBatch(i)
        ELSE /\ cur_task_id' = [cur_task_id EXCEPT ![b] = @ + 1]
             /\ UNCHANGED <<state, cur_batch>>
     /\ Goto(w, "batch")
     /\ UNCHANGED <<num_dl_done, num_dl_failed, batches, batch_count, unfinished_batch_count,
                    frontVars, dl_threads_count, num_downloading_batches, freeVars>>

\* download_next_batch after the download of a task of a batch cancelled meanwhile
DropCanceled(w) ==
  /\ At(w, "batch")
  /\ state[job[w].batch] = "CANCELED"
  /\ Goto(w, "loop")
  /\ job' = [job EXCEPT ![w] = NoJob]
  /\ UNCHANGED <<batchVars, frontVars, dl_threads_count, num_downloading_batches, freeVars>>

\* ... when the batch was freed too, batch->state is whatever the allocator left there:
\* unless it still reads CANCELED (DropCanceled), the assertions on the freed task abort.
TouchFreedBatch(w) ==
  /\ At(w, "batch")
  /\ job[w].batch \in freed
  /\ crashed' = TRUE
  /\ UNCHANGED <<batchVars, frontVars, threadVars, num_downloading_batches,
                 pending_free, freed, exiting>>

\* Slips: done is compared before the increment; or the state is trusted instead of the count.
AllDone_late(b) == num_dl_done[b] = Total[b]
AllDone_early(b) == state[b] = "FINISHING"
AllDone(b) == num_dl_done[b] + 1 = Total[b]

\* download_next_batch after the download of a task; "failed": download_tile returned < 0
FinishBatchTask(w, failed) ==
  LET b == job[w].batch
  IN /\ At(w, "batch")
     /\ state[b] # "CANCELED"
     /\ num_dl_failed' = [num_dl_failed EXCEPT ![b] = IF failed THEN @ + 1 ELSE @]
     /\ num_dl_done' = [num_dl_done EXCEPT ![b] = @ + 1]
     /\ job' = [job EXCEPT ![w] = NoJob]
     /\ IF AllDone(b)
        THEN /\ state' = [state EXCEPT ![b] = "FINISHED"]
             /\ unfinished_batch_count' = unfinished_batch_count - 1
             /\ Goto(w, "report")
        ELSE /\ Goto(w, "loop")
             /\ UNCHANGED <<state, unfinished_batch_count>>
     /\ UNCHANGED <<cur_task_id, batches, cur_batch, batch_count, frontVars, dl_threads_count,
                    num_downloading_batches, freeVars>>

\* The thread that finished a batch counts it out under the UI lock.
ReportFinished(w) ==
  /\ At(w, "report")
  /\ num_downloading_batches' = num_downloading_batches - 1
  /\ Goto(w, "loop")
  /\ UNCHANGED <<batchVars, frontVars, dl_threads_count, job, freeVars>>

\* wait_ms(MAX_IDLE_MS, cv, lock, FALSE): the condition variable releases the lock
Wait(w) ==
  /\ At(w, "loop")
  /\ ~HasWork
  /\ Goto(w, "wait")
  /\ UNCHANGED <<batchVars, frontVars, dl_threads_count, job, num_downloading_batches, freeVars>>

\* A spurious wake-up, or the time-out of a thread that finds work
WakeUp(w) ==
  /\ At(w, "wait")
  /\ Goto(w, "loop")
  /\ UNCHANGED <<batchVars, frontVars, dl_threads_count, job, num_downloading_batches, freeVars>>

\* The time-out of a thread that finds nothing to do: it gives its slot back.
IdleExit(w) ==
  /\ At(w, "wait")
  /\ ~HasWork
  /\ exiting < MaxExiting
  /\ dl_threads_count' = dl_threads_count - 1
  /\ Goto(w, "none")
  /\ exiting' = exiting + 1
  /\ UNCHANGED <<batchVars, frontVars, job, num_downloading_batches, pending_free, freed, crashed>>

\* The end of a thread: free_pending_frees, without any lock
FreePendingFrees ==
  /\ ~crashed
  /\ exiting > 0
  /\ exiting' = exiting - 1
  /\ freed' = freed \cup pending_free
  /\ pending_free' = {}
  /\ UNCHANGED <<batchVars, frontVars, threadVars, num_downloading_batches, crashed>>

-----------------------------------------------------------------------------

Worker(w) == \/ TakeFront(w)
             \/ FinishFront(w)
             \/ Nap(w)
             \/ WakeFromNap(w)
             \/ TakeBatchTask(w)
             \/ DropCanceled(w)
             \/ TouchFreedBatch(w)
             \/ \E failed \in BOOLEAN : FinishBatchTask(w, failed)
             \/ ReportFinished(w)
             \/ Wait(w)
             \/ WakeUp(w)
             \/ IdleExit(w)

Next == \/ \E b \in Batch : BatchDownload(b)
        \/ \E t \in Tile : AddFront(t)
        \/ \E i \in 1..Len(batches) : CancelBatch(i)
        \/ \E w \in Slot : Worker(w)
        \/ FreePendingFrees

Spec == Init /\ [][Next]_vars

-----------------------------------------------------------------------------
(* Properties *)

Open == {"PENDING", "PROCESSING", "FINISHING"}
Unfinished == {b \in Batch : state[b] \in Open}
InList == {b \in Batch : state[b] \in Open \cup {"FINISHED"}}
Running == {w \in Slot : pc[w] # "none"}
Reporting == {w \in Slot : pc[w] = "report"}
InFlight(b) == {w \in Slot : pc[w] = "batch" /\ job[w].batch = b}
Taken(b) == IF cur_task_id[b] = -1 THEN Total[b] ELSE cur_task_id[b]

BatchTypes ==
  /\ state \in [Batch -> {"NEW", "PENDING", "PROCESSING", "FINISHING", "FINISHED", "CANCELED"}]
  /\ cur_task_id \in [Batch -> Int]
  /\ \A b \in Batch : cur_task_id[b] \in -1..(Total[b] - 1)
  /\ num_dl_done \in [Batch -> Nat]
  /\ num_dl_failed \in [Batch -> Nat]
  /\ batches \in Seq(Batch)
  /\ cur_batch \in Batch \cup {NoBatch}
  /\ batch_count \in Int
  /\ unfinished_batch_count \in Int

FrontTypes == /\ front_tasks \in Seq(Tile)
              /\ front_task_count \in Nat

ThreadTypes ==
  /\ dl_threads_count \in Int
  /\ pc \in [Slot -> {"none", "loop", "front", "batch", "report", "nap", "wait"}]
  /\ job \in [Slot -> [batch : Batch \cup {NoBatch}, task : Int]]
  /\ \A w \in Slot : pc[w] = "batch" => job[w].batch \in Batch

FreeTypes == /\ pending_free \in SUBSET Batch
             /\ freed \in SUBSET Batch
             /\ exiting \in Nat
             /\ crashed \in BOOLEAN

\* The types of the variables; the index of the next task stays within its batch.
TypeOK == /\ BatchTypes
          /\ FrontTypes
          /\ ThreadTypes
          /\ FreeTypes
          /\ num_downloading_batches \in Int

\* The counters the code keeps by hand (tile_dl.c 267-269, 322-330, 400, 445, 574-590, 624) say
\* what they are meant to say, whatever is cancelled while threads finish, report or exit:
\* a thread per used slot, the unfinished batches, the batches of the list, and for the thread
\* that refreshes the view every unfinished batch and every one not yet counted out.
CountersAgree ==
  /\ dl_threads_count = Cardinality(Running)
  /\ unfinished_batch_count = Cardinality(Unfinished)
  /\ batch_count = Cardinality(InList)
  /\ num_downloading_batches = unfinished_batch_count + Cardinality(Reporting)

\* What batch b has handed out is what came back and what threads still hold.
BatchAccount(b) ==
  /\ state[b] \in {"NEW", "PENDING"} => cur_task_id[b] = 0
  /\ state[b] = "PROCESSING" => cur_task_id[b] >= 0
  /\ state[b] \in {"FINISHING", "FINISHED"} => cur_task_id[b] = -1
  /\ num_dl_done[b] + Cardinality(InFlight(b)) = Taken(b)
  /\ state[b] = "FINISHED" <=> num_dl_done[b] = Total[b]
  /\ num_dl_failed[b] <= num_dl_done[b]
  /\ \A w \in InFlight(b) : job[w].task \in 0..(Taken(b) - 1)

\* Each task of a batch is downloaded once: unless it is cancelled, a batch's account balances,
\* no two threads hold the same task, and the batch is FINISHED exactly when all of its tasks
\* came back (the test "++num_dl_done == num_dl_total" cannot be jumped over).
TaskAccounting ==
  /\ \A b \in Batch : state[b] # "CANCELED" => BatchAccount(b)
  /\ \A v, w \in Slot :
       (pc[v] = "batch" /\ pc[w] = "batch" /\ v # w) => job[v] # job[w]

\* The list is served from its head: every batch before the current one has given all of its
\* tasks, the current one alone is PROCESSING, those behind it have given none; and without
\* a current batch nothing in the list waits.
QueueInOrder ==
  /\ \A i, j \in 1..Len(batches) : i # j => batches[i] # batches[j]
  /\ \A b \in InList : \E i \in 1..Len(batches) : batches[i] = b
  /\ \A i \in 1..Len(batches) :
       /\ batches[i] \in InList
       /\ state[batches[i]] = "PROCESSING" <=> batches[i] = cur_batch
       /\ cur_batch = NoBatch => state[batches[i]] # "PENDING"
  /\ \A i, j \in 1..Len(batches) :
       i < j => \/ state[batches[i]] \in {"FINISHING", "FINISHED"}
                \/ state[batches[j]] = "PENDING"

\* No wake-up is lost: while anything is queued or being downloaded some thread is up, because
\* whoever adds work creates a thread or finds one, and wakes all who wait; a thread that
\* times out looks at the queues again before it leaves.  Only if pthread_create failed may
\* there be work and no thread at all.
WorkIsAttended ==
  HasWork => \/ \E w \in Slot : pc[w] \notin {"none", "wait"}
             \/ CreateMayFail /\ Running = {}

\* front_task_count is no length (it is only reset when the queue runs empty), but it is 0 exactly
\* for the empty queue, which is what every reader relies on; no tile is queued twice.
FrontQueueSound ==
  /\ front_task_count = 0 <=> front_tasks = <<>>
  /\ front_task_count >= Len(front_tasks)
  /\ \A i, j \in 1..Len(front_tasks) : front_tasks[i] = front_tasks[j] => i = j

\* "download threads may hold reference to this batch, can't free" (tile_dl.c:245): no thread
\* comes back from a download to a batch whose memory was freed.
NoUseAfterFree == \A w \in Slot : pc[w] = "batch" => job[w].batch \notin freed

\* The downloader implements the service the user sees: what a batch still owes is what it owes
\* in BatchJobs, under the phases below.
Phase(b) == CASE state[b] = "NEW" -> "new"
              [] state[b] \in Open -> "queued"
              [] state[b] = "FINISHED" -> "done"
              [] OTHER -> "canceled"
Busy(b) == IF state[b] = "CANCELED" THEN {} ELSE {job[w].task + 1 : w \in InFlight(b)}

Jobs == INSTANCE BatchJobs WITH queue <- batches,
                                phase <- [b \in Batch |-> Phase(b)],
                                handed <- [b \in Batch |-> Taken(b)],
                                busy <- [b \in Batch |-> Busy(b)]

JobsRefined == Jobs!Spec

\* The scheduler runs every thread that can run, a sleep ends, and the UI lock is released after
\* each callback.  Nothing sees to the end of a download: the time-outs of network.c:125-126 are set
\* at a level at which they do not take, and read_http_header_line may read for ever.  A thread that
\* waits for work is owed nothing.
Fairness == \A w \in Slot :
              /\ WF_vars(TakeFront(w) \/ TakeBatchTask(w) \/ Nap(w) \/ Wait(w))
              /\ WF_vars(WakeFromNap(w))
              /\ WF_vars(ReportFinished(w))

FairSpec == Spec /\ Fairness

\* A running thread that is not in the middle of a download, or none that runs at all.
SomeThreadBack == Running = {} \/ \E w \in Running : pc[w] \notin {"front", "batch"}

\* A batch that was accepted is eventually finished or cancelled, the process living, once the user
\* leaves the map alone for good (front-end requests go first and could starve it). That every
\* download ends is not asked for: those of this batch have to, and of the others, which may hang
\* for ever (a read has no time-out), as many that they do not hold all the threads.
BatchSettles ==
  \A b \in Batch :
    (/\ <>[](front_task_count = 0)
     /\ \A w \in Slot : []<>(w \notin InFlight(b))
     /\ []<>SomeThreadBack)
    => (state[b] \in Open ~> (state[b] \in {"FINISHED", "CANCELED"} \/ crashed))
=============================================================================
