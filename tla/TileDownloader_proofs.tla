----------------------- MODULE TileDownloader_proofs -----------------------
(***************************************************************************)
(* Proofs about TileDownloader for every number of batches, tiles, threads *)
(* and every bound.                                                        *)
(***************************************************************************)
EXTENDS TileDownloader, SequenceTheorems, FiniteSetTheorems, TLAPS

USE DownloaderAssumption

-----------------------------------------------------------------------------
(* The list of batches *)

\* Unlinking an element keeps the others in their order.
LEMMA RemoveAtProperties ==
  ASSUME NEW S, NEW s \in Seq(S), NEW i \in 1..Len(s)
  PROVE  /\ RemoveAt(s, i) \in Seq(S)
         /\ Len(RemoveAt(s, i)) = Len(s) - 1
         /\ \A j \in 1..(Len(s) - 1) : RemoveAt(s, i)[j] = IF j < i THEN s[j] ELSE s[j + 1]
<1> DEFINE l == SubSeq(s, 1, i - 1)
           r == SubSeq(s, i + 1, Len(s))
<1>1. l \in Seq(S) /\ Len(l) = i - 1 /\ \A j \in 1..(i - 1) : l[j] = s[j]
  BY SMT
<1>2. r \in Seq(S) /\ Len(r) = Len(s) - i /\ \A j \in 1..(Len(s) - i) : r[j] = s[i + j]
  BY SMT
<1> HIDE DEF l, r
<1>3. /\ l \o r \in Seq(S)
      /\ Len(l \o r) = Len(l) + Len(r)
      /\ \A j \in 1..(Len(l) + Len(r)) : (l \o r)[j] = IF j <= Len(l) THEN l[j] ELSE r[j - Len(l)]
  <2>1. l \in Seq(S) /\ r \in Seq(S)
    BY <1>1, <1>2
  <2> QED
    BY <2>1, ConcatProperties
<1>4. Len(l) + Len(r) = Len(s) - 1
  BY <1>1, <1>2
<1>5. ASSUME NEW j \in 1..(Len(s) - 1)
      PROVE  (l \o r)[j] = IF j < i THEN s[j] ELSE s[j + 1]
  <2>1. CASE j < i
    BY <2>1, <1>1, <1>3, <1>4
  <2>2. CASE ~(j < i)
    <3>1. r[j - (i - 1)] = s[i + (j - (i - 1))]
      BY <2>2, <1>2
    <3>2. QED
      BY <2>2, <3>1, <1>1, <1>3, <1>4
  <2>3. QED
    BY <2>1, <2>2
<1>6. QED
  BY <1>3, <1>4, <1>5 DEF RemoveAt, l, r

-----------------------------------------------------------------------------
(* Types *)

\* What TypeOK needs to be inductive: the current batch is in the list, and the counter of
\* front-end requests is 0 exactly for an empty queue.
CurListed == cur_batch # NoBatch => \E i \in 1..Len(batches) : batches[i] = cur_batch
TypeInv == TypeOK /\ FrontQueueSound /\ CurListed

LEMMA TypeInit == Init => TypeInv
<1> SUFFICES ASSUME Init PROVE TypeInv
  OBVIOUS
<1> USE DEF Init
<1>1. BatchTypes
  BY DEF BatchTypes
<1>2. FrontTypes /\ FrontQueueSound
  BY DEF FrontTypes, FrontQueueSound
<1>3. ThreadTypes
  BY DEF ThreadTypes, NoJob
<1>4. FreeTypes /\ CurListed
  BY DEF FreeTypes, CurListed
<1>5. QED
  BY <1>1, <1>2, <1>3, <1>4 DEF TypeInv, TypeOK

\* The slots that n creations fill are free slots.
LEMMA NewSlotsFree ==
  ASSUME NEW n
  PROVE  /\ NewSlots(n) \subseteq FreeSlots
         /\ FreeSlots \subseteq Slot
         /\ IsFiniteSet(Slot)
         /\ IsFiniteSet(FreeSlots)
         /\ IsFiniteSet(NewSlots(n))
<1>1. NewSlots(n) \subseteq FreeSlots /\ FreeSlots \subseteq Slot
  BY DEF NewSlots, FreeSlots
<1>2. IsFiniteSet(Slot)
  BY FS_Interval DEF Slot
<1>3. QED
  BY <1>1, <1>2, FS_Subset

\* Creating threads and waking the waiting ones keeps the types of the thread variables.
LEMMA CreateTypes ==
  ASSUME ThreadTypes, NEW n, CreateAndBroadcast(n)
  PROVE  ThreadTypes'
<1>1. Cardinality(NewSlots(n)) \in Nat
  BY NewSlotsFree, FS_CardinalityType
<1>2. dl_threads_count' \in Int
  BY <1>1 DEF CreateAndBroadcast, ThreadTypes
<1>3. QED
  BY <1>2 DEF CreateAndBroadcast, ThreadTypes

\* The list keeps the types of what follows position i.
LEMMA NextTypes ==
  ASSUME BatchTypes, NEW i \in 1..Len(batches)
  PROVE  /\ NextCurBatch(i) \in Batch \cup {NoBatch}
         /\ StartNext(state, i) \in [Batch -> {"NEW", "PENDING", "PROCESSING", "FINISHING",
                                              "FINISHED", "CANCELED"}]
         /\ RestartNext(i) \in [Batch -> Int]
         /\ \A b \in Batch : RestartNext(i)[b] \in -1..(Total[b] - 1)
<1>1. batches \in Seq(Batch) /\ Len(batches) \in Nat
  BY DEF BatchTypes
<1>2. i < Len(batches) => batches[i + 1] \in Batch
  BY <1>1
<1>3. NextCurBatch(i) \in Batch \cup {NoBatch}
  BY <1>2 DEF NextCurBatch
<1>4. StartNext(state, i) \in [Batch -> {"NEW", "PENDING", "PROCESSING", "FINISHING",
                                         "FINISHED", "CANCELED"}]
  BY <1>2 DEF StartNext, BatchTypes
<1>5. RestartNext(i) \in [Batch -> Int]
  <2>1. cur_task_id \in [Batch -> Int]
    BY DEF BatchTypes
  <2>2. 0 \in Int
    OBVIOUS
  <2>3. [cur_task_id EXCEPT ![batches[i + 1]] = 0] \in [Batch -> Int]
    BY <2>1, <2>2, Zenon
  <2>4. QED
    BY <2>1, <2>3 DEF RestartNext
<1>6. ASSUME NEW b \in Batch
      PROVE  RestartNext(i)[b] \in -1..(Total[b] - 1)
  <2>1. cur_task_id \in [Batch -> Int] /\ cur_task_id[b] \in -1..(Total[b] - 1)
    BY DEF BatchTypes
  <2>2. Total[b] \in Nat \ {0}
    OBVIOUS
  <2>3. QED
    BY <1>2, <2>1, <2>2 DEF RestartNext
<1>7. QED
  BY <1>3, <1>4, <1>5, <1>6

LEMMA TypeNext == ASSUME TypeInv, [Next]_vars PROVE TypeInv'
<1> USE DEF TypeInv, TypeOK
<1>1. ASSUME NEW b \in Batch, BatchDownload(b)
      PROVE  TypeInv'
  <2>1. ThreadTypes'
    BY <1>1, CreateTypes DEF BatchDownload
  <2>2. BatchTypes'
    BY <1>1 DEF BatchDownload, BatchTypes
  <2>3. (FrontTypes /\ FrontQueueSound /\ FreeTypes)' /\ num_downloading_batches' \in Int
    BY <1>1 DEF BatchDownload, FrontTypes, FrontQueueSound, FreeTypes, frontVars, freeVars
  <2>4. CurListed'
    <3>1. /\ Len(batches') = Len(batches) + 1
          /\ \A i \in 1..Len(batches) : batches'[i] = batches[i]
          /\ batches'[Len(batches) + 1] = b
      BY <1>1 DEF BatchDownload, BatchTypes
    <3>2. Len(batches) \in Nat
      BY DEF BatchTypes
    <3>3. QED
      BY <1>1, <3>1, <3>2 DEF BatchDownload, CurListed
  <2>5. QED
    BY <2>1, <2>2, <2>3, <2>4
<1>2. ASSUME NEW t \in Tile, AddFront(t)
      PROVE  TypeInv'
  <2>1. ThreadTypes'
    BY <1>2, CreateTypes DEF AddFront
  <2>2. (FrontTypes /\ FrontQueueSound)'
    <3>1. front_tasks \in Seq(Tile) /\ front_task_count \in Nat
      BY DEF FrontTypes
    <3>2. CASE front_task_count = 0
      BY <1>2, <3>1, <3>2 DEF AddFront, FrontTypes, FrontQueueSound
    <3>3. CASE front_task_count # 0
      <4>1. /\ front_tasks' \in Seq(Tile)
            /\ Len(front_tasks') = Len(front_tasks) + 1
            /\ \A k \in 1..Len(front_tasks) : front_tasks'[k] = front_tasks[k]
            /\ front_tasks'[Len(front_tasks) + 1] = t
        BY <1>2, <3>1, <3>3 DEF AddFront
      <4>2. front_task_count' = front_task_count + 1
        BY <1>2 DEF AddFront
      <4>3. \A i, j \in 1..Len(front_tasks') : front_tasks'[i] = front_tasks'[j] => i = j
        BY <1>2, <3>1, <4>1 DEF AddFront, FrontQueueSound
      <4>4. QED
        BY <3>1, <4>1, <4>2, <4>3 DEF FrontTypes, FrontQueueSound
    <3>4. QED
      BY <3>2, <3>3
  <2>3. (BatchTypes /\ CurListed /\ FreeTypes)' /\ num_downloading_batches' \in Int
    BY <1>2 DEF AddFront, BatchTypes, CurListed, FreeTypes, batchVars, freeVars
  <2>4. QED
    BY <2>1, <2>2, <2>3
<1>3. ASSUME NEW i \in 1..Len(batches), CancelBatch(i)
      PROVE  TypeInv'
  <2>1. batches \in Seq(Batch) /\ batches' = RemoveAt(batches, i)
    BY <1>3 DEF CancelBatch, BatchTypes
  <2>2. /\ batches' \in Seq(Batch)
        /\ Len(batches') = Len(batches) - 1
        /\ \A j \in 1..(Len(batches) - 1) :
             batches'[j] = IF j < i THEN batches[j] ELSE batches[j + 1]
    BY <2>1, RemoveAtProperties
  <2>3. Len(batches) \in Nat /\ batches[i] \in Batch
    BY <2>1
  <2>4. BatchTypes'
    <3>1. /\ batch_count' \in Int
          /\ unfinished_batch_count' \in Int
          /\ num_dl_done' = num_dl_done
          /\ num_dl_failed' = num_dl_failed
      BY <1>3 DEF CancelBatch, BatchTypes
    <3>2. CASE batches[i] = cur_batch
      <4>1. /\ cur_batch' = NextCurBatch(i)
            /\ cur_task_id' = RestartNext(i)
            /\ state' = [StartNext(state, i) EXCEPT ![batches[i]] = "CANCELED"]
        BY <1>3, <3>2 DEF CancelBatch
      <4>2. QED
        BY <2>2, <3>1, <4>1, NextTypes DEF BatchTypes
    <3>3. CASE batches[i] # cur_batch
      BY <1>3, <2>2, <2>3, <3>1, <3>3 DEF CancelBatch, BatchTypes
    <3>4. QED
      BY <3>2, <3>3
  <2>5. CurListed'
    <3>1. CASE batches[i] = cur_batch
      <4>1. cur_batch' = NextCurBatch(i)
        BY <1>3, <3>1 DEF CancelBatch
      <4>2. CASE i < Len(batches)
        <5>1. i \in 1..(Len(batches) - 1) /\ batches'[i] = batches[i + 1]
          BY <2>2, <2>3, <4>2
        <5>2. QED
          BY <2>2, <4>1, <4>2, <5>1 DEF CurListed, NextCurBatch
      <4>3. CASE ~(i < Len(batches))
        BY <4>1, <4>3 DEF CurListed, NextCurBatch
      <4>4. QED
        BY <4>2, <4>3
    <3>2. CASE batches[i] # cur_batch
      <4>1. cur_batch' = cur_batch
        BY <1>3, <3>2 DEF CancelBatch
      <4>2. ASSUME cur_batch # NoBatch
            PROVE  \E k \in 1..Len(batches') : batches'[k] = cur_batch
        <5>1. PICK k \in 1..Len(batches) : batches[k] = cur_batch
          BY <4>2 DEF CurListed
        <5>2. CASE k < i
          <6>1. k \in 1..(Len(batches) - 1)
            BY <2>3, <5>2
          <6>2. batches'[k] = cur_batch
            BY <2>2, <5>1, <5>2, <6>1
          <6>3. QED
            BY <2>2, <6>1, <6>2
        <5>3. CASE k > i
          <6>1. k - 1 \in 1..(Len(batches) - 1) /\ ~(k - 1 < i) /\ (k - 1) + 1 = k
            BY <2>3, <5>3
          <6>2. batches'[k - 1] = cur_batch
            BY <2>2, <5>1, <6>1
          <6>3. QED
            BY <2>2, <6>1, <6>2
        <5>4. QED
          BY <2>3, <3>2, <5>1, <5>2, <5>3
      <4>3. QED
        BY <4>1, <4>2 DEF CurListed
    <3>3. QED
      BY <3>1, <3>2
  <2>6. (FrontTypes /\ FrontQueueSound /\ ThreadTypes)'
    BY <1>3 DEF CancelBatch, FrontTypes, FrontQueueSound, ThreadTypes, frontVars, threadVars
  <2>7. FreeTypes' /\ num_downloading_batches' \in Int
    BY <1>3, <2>3 DEF CancelBatch, FreeTypes, ToFree
  <2>8. QED
    BY <2>4, <2>5, <2>6, <2>7
<1>4. ASSUME NEW w \in Slot, Worker(w)
      PROVE  TypeInv'
  <2>1. CASE TakeFront(w)
    <3>1. front_tasks # <<>> /\ front_tasks \in Seq(Tile) /\ front_task_count \in Nat
      BY <2>1 DEF TakeFront, FrontQueueSound, FrontTypes
    <3>2. /\ front_tasks' \in Seq(Tile)
          /\ Len(front_tasks') = Len(front_tasks) - 1
          /\ \A k \in 1..Len(front_tasks') : front_tasks'[k] = front_tasks[k + 1]
      BY <2>1, <3>1 DEF TakeFront
    <3>3. \A i, j \in 1..Len(front_tasks') : front_tasks'[i] = front_tasks'[j] => i = j
      <4>1. SUFFICES ASSUME NEW i \in 1..Len(front_tasks'), NEW j \in 1..Len(front_tasks'),
                            front_tasks'[i] = front_tasks'[j]
                     PROVE  i = j
        OBVIOUS
      <4>2. i + 1 \in 1..Len(front_tasks) /\ j + 1 \in 1..Len(front_tasks)
        BY <3>1, <3>2
      <4>3. QED
        BY <3>2, <4>1, <4>2 DEF FrontQueueSound
    <3>4. Len(front_tasks) = 1 <=> front_tasks' = <<>>
      BY <3>1, <3>2
    <3>5. (FrontTypes /\ FrontQueueSound)'
      BY <2>1, <3>1, <3>2, <3>3, <3>4 DEF TakeFront, FrontTypes, FrontQueueSound
    <3>6. (BatchTypes /\ CurListed /\ FreeTypes)' /\ num_downloading_batches' \in Int
      BY <2>1 DEF TakeFront, BatchTypes, CurListed, FreeTypes, batchVars, freeVars
    <3>7. ThreadTypes'
      BY <2>1 DEF TakeFront, ThreadTypes, Goto
    <3>8. QED
      BY <3>5, <3>6, <3>7
  <2>2. CASE TakeBatchTask(w)
    <3> DEFINE i == CHOOSE k \in 1..Len(batches) : batches[k] = cur_batch
    <3>1. i \in 1..Len(batches) /\ batches[i] = cur_batch /\ cur_batch # NoBatch
      BY <2>2 DEF TakeBatchTask, CurListed
    <3>2. cur_batch \in Batch /\ Len(batches) \in Nat
      BY <3>1 DEF BatchTypes
    <3>3. BatchTypes'
      <4>1. /\ num_dl_done' = num_dl_done
            /\ num_dl_failed' = num_dl_failed
            /\ batches' = batches
            /\ batch_count' = batch_count
            /\ unfinished_batch_count' = unfinished_batch_count
        BY <2>2 DEF TakeBatchTask
      <4>2. CASE LastTaskTaken(cur_batch)
        <5>1. /\ state' = [StartNext(state, i) EXCEPT ![cur_batch] = "FINISHING"]
              /\ cur_task_id' = [RestartNext(i) EXCEPT ![cur_batch] = -1]
              /\ cur_batch' = NextCurBatch(i)
          BY <2>2, <4>2 DEF TakeBatchTask
        <5> HIDE DEF i
        <5>2. /\ NextCurBatch(i) \in Batch \cup {NoBatch}
              /\ StartNext(state, i) \in [Batch -> {"NEW", "PENDING", "PROCESSING", "FINISHING",
                                                   "FINISHED", "CANCELED"}]
              /\ RestartNext(i) \in [Batch -> Int]
              /\ \A b \in Batch : RestartNext(i)[b] \in -1..(Total[b] - 1)
          BY <3>1, NextTypes
        <5>3. state' \in [Batch -> {"NEW", "PENDING", "PROCESSING", "FINISHING", "FINISHED",
                                   "CANCELED"}]
          BY <5>1, <5>2
        <5>4. /\ cur_task_id' \in [Batch -> Int]
              /\ \A b \in Batch : cur_task_id'[b] = IF b = cur_batch THEN -1 ELSE RestartNext(i)[b]
          BY <3>2, <5>1, <5>2
        <5>5. ASSUME NEW b \in Batch PROVE cur_task_id'[b] \in -1..(Total[b] - 1)
          <6>1. Total[b] \in Nat \ {0}
            OBVIOUS
          <6>2. QED
            BY <5>2, <5>4, <6>1
        <5>6. QED
          BY <4>1, <5>1, <5>2, <5>3, <5>4, <5>5 DEF BatchTypes
      <4>3. CASE ~LastTaskTaken(cur_batch)
        <5>1. /\ cur_task_id' = [cur_task_id EXCEPT ![cur_batch] = @ + 1]
              /\ state' = state
              /\ cur_batch' = cur_batch
          BY <2>2, <4>3 DEF TakeBatchTask
        <5>2. Total[cur_batch] \in Nat \ {0} /\ cur_task_id[cur_batch] + 1 # Total[cur_batch]
          BY <3>2, <4>3 DEF LastTaskTaken
        <5>3. QED
          BY <3>2, <4>1, <5>1, <5>2 DEF BatchTypes
      <4>4. QED
        BY <4>2, <4>3
    <3>4. CurListed'
      <4>1. CASE LastTaskTaken(cur_batch)
        <5>1. cur_batch' = NextCurBatch(i) /\ batches' = batches
          BY <2>2, <4>1 DEF TakeBatchTask
        <5>2. i < Len(batches) => i + 1 \in 1..Len(batches)
          BY <3>1, <3>2
        <5>3. QED
          BY <5>1, <5>2 DEF NextCurBatch, CurListed
      <4>2. CASE ~LastTaskTaken(cur_batch)
        BY <2>2, <4>2 DEF TakeBatchTask, CurListed
      <4>3. QED
        BY <4>1, <4>2
    <3>5. ThreadTypes'
      <4>1. cur_task_id[cur_batch] \in Int
        BY <3>2 DEF BatchTypes
      <4>2. QED
        BY <2>2, <3>2, <4>1 DEF TakeBatchTask, ThreadTypes, Goto
    <3>6. (FrontTypes /\ FrontQueueSound /\ FreeTypes)' /\ num_downloading_batches' \in Int
      BY <2>2 DEF TakeBatchTask, FrontTypes, FrontQueueSound, FreeTypes, frontVars, freeVars
    <3>7. QED
      BY <3>3, <3>4, <3>5, <3>6
  <2>3. CASE FinishFront(w) \/ Nap(w) \/ WakeFromNap(w) \/ Wait(w) \/ WakeUp(w)
    <3>1. /\ UNCHANGED <<batchVars, frontVars, dl_threads_count, job, num_downloading_batches, freeVars>>
          /\ \E l \in {"loop", "nap", "wait"} : Goto(w, l)
      BY <2>3 DEF FinishFront, Nap, WakeFromNap, Wait, WakeUp
    <3>2. ThreadTypes'
      BY <3>1 DEF ThreadTypes, Goto
    <3>3. QED
      BY <3>1, <3>2 DEF BatchTypes, FrontTypes, FrontQueueSound, CurListed, FreeTypes,
         batchVars, frontVars, freeVars
  <2>4. CASE DropCanceled(w) \/ TouchFreedBatch(w) \/ ReportFinished(w) \/ IdleExit(w)
    <3>1. UNCHANGED <<batchVars, frontVars>>
      BY <2>4 DEF DropCanceled, TouchFreedBatch, ReportFinished, IdleExit
    <3>2. ThreadTypes'
      BY <2>4 DEF DropCanceled, TouchFreedBatch, ReportFinished, IdleExit, ThreadTypes, Goto,
         NoJob, threadVars
    <3>3. FreeTypes'
      <4>1. CASE DropCanceled(w) \/ ReportFinished(w)
        BY <4>1 DEF DropCanceled, ReportFinished, FreeTypes, freeVars
      <4>2. CASE TouchFreedBatch(w)
        BY <4>2 DEF TouchFreedBatch, FreeTypes
      <4>3. CASE IdleExit(w)
        BY <4>3 DEF IdleExit, FreeTypes
      <4>4. QED
        BY <2>4, <4>1, <4>2, <4>3
    <3>4. num_downloading_batches' \in Int
      BY <2>4 DEF DropCanceled, TouchFreedBatch, ReportFinished, IdleExit
    <3>5. BatchTypes' /\ CurListed'
      BY <3>1 DEF BatchTypes, CurListed, batchVars
    <3>6. FrontTypes' /\ FrontQueueSound'
      BY <3>1 DEF FrontTypes, FrontQueueSound, frontVars
    <3>7. QED
      BY <3>2, <3>3, <3>4, <3>5, <3>6
  <2>5. ASSUME NEW failed \in BOOLEAN, FinishBatchTask(w, failed)
        PROVE  TypeInv'
    <3>1. job[w].batch \in Batch
      BY <2>5 DEF FinishBatchTask, At, ThreadTypes
    <3>2. BatchTypes'
      <4>1. /\ num_dl_done' \in [Batch -> Nat]
            /\ num_dl_failed' \in [Batch -> Nat]
        <5>1. /\ num_dl_done \in [Batch -> Nat] /\ num_dl_failed \in [Batch -> Nat]
              /\ num_dl_done' = [num_dl_done EXCEPT ![job[w].batch] = @ + 1]
              /\ num_dl_failed' =
                   [num_dl_failed EXCEPT ![job[w].batch] = IF failed THEN @ + 1 ELSE @]
          BY <2>5 DEF FinishBatchTask, BatchTypes
        <5>2. QED
          BY <3>1, <5>1
      <4>2. /\ state' \in [Batch -> {"NEW", "PENDING", "PROCESSING", "FINISHING", "FINISHED",
                                     "CANCELED"}]
            /\ unfinished_batch_count' \in Int
        <5>1. /\ state \in [Batch -> {"NEW", "PENDING", "PROCESSING", "FINISHING", "FINISHED",
                                      "CANCELED"}]
              /\ unfinished_batch_count \in Int
          BY DEF BatchTypes
        <5>2. CASE AllDone(job[w].batch)
          BY <2>5, <3>1, <5>1, <5>2 DEF FinishBatchTask
        <5>3. CASE ~AllDone(job[w].batch)
          BY <2>5, <5>1, <5>3 DEF FinishBatchTask
        <5>4. QED
          BY <5>2, <5>3
      <4>3. QED
        BY <2>5, <4>1, <4>2 DEF FinishBatchTask, BatchTypes
    <3>3. ThreadTypes'
      BY <2>5 DEF FinishBatchTask, ThreadTypes, Goto, NoJob
    <3>4. FrontTypes' /\ FrontQueueSound' /\ FreeTypes'
      BY <2>5 DEF FinishBatchTask, FrontTypes, FrontQueueSound, FreeTypes, frontVars, freeVars
    <3>5. CurListed'
      BY <2>5 DEF FinishBatchTask, CurListed
    <3>6. num_downloading_batches' \in Int
      BY <2>5 DEF FinishBatchTask
    <3>7. QED
      BY <3>2, <3>3, <3>4, <3>5, <3>6
  <2>6. QED
    BY <1>4, <2>1, <2>2, <2>3, <2>4, <2>5 DEF Worker
<1>5. CASE FreePendingFrees
  <2>1. UNCHANGED <<batchVars, frontVars, threadVars, num_downloading_batches>> /\ FreeTypes'
    BY <1>5 DEF FreePendingFrees, FreeTypes
  <2>2. BatchTypes'
    BY <2>1 DEF BatchTypes, batchVars
  <2>3. CurListed'
    BY <2>1 DEF CurListed, batchVars
  <2>4. FrontTypes' /\ FrontQueueSound' /\ ThreadTypes'
    BY <2>1 DEF FrontTypes, FrontQueueSound, ThreadTypes, frontVars, threadVars
  <2>5. QED
    BY <2>1, <2>2, <2>3, <2>4
<1>6. CASE UNCHANGED vars
  <2>1. UNCHANGED <<batchVars, frontVars, threadVars, freeVars, num_downloading_batches>>
    BY <1>6 DEF vars
  <2>2. BatchTypes' /\ CurListed'
    <3>1. BatchTypes'
      BY <2>1 DEF BatchTypes, batchVars
    <3>2. CurListed'
      BY <2>1 DEF CurListed, batchVars
    <3>3. QED
      BY <3>1, <3>2
  <2>3. FrontTypes' /\ FrontQueueSound'
    BY <2>1 DEF FrontTypes, FrontQueueSound, frontVars
  <2>4. ThreadTypes' /\ FreeTypes'
    BY <2>1 DEF ThreadTypes, FreeTypes, threadVars, freeVars
  <2>5. QED
    BY <2>1, <2>2, <2>3, <2>4
<1>7. QED
  BY <1>1, <1>2, <1>3, <1>4, <1>5, <1>6 DEF Next

\* Every variable keeps its type, and task indices stay within their batch.
THEOREM TypeCorrect == Spec => []TypeOK
<1>1. Spec => []TypeInv
  BY TypeInit, TypeNext, PTL DEF Spec
<1>2. TypeInv => TypeOK
  BY DEF TypeInv
<1>3. QED
  BY <1>1, <1>2, PTL

\* The request counter is 0 exactly for the empty queue (add_front_download_task and
\* download_routine rely on it), whatever the threads and the view do.
THEOREM FrontQueueCorrect == Spec => []FrontQueueSound
<1>1. Spec => []TypeInv
  BY TypeInit, TypeNext, PTL DEF Spec
<1>2. TypeInv => FrontQueueSound
  BY DEF TypeInv
<1>3. QED
  BY <1>1, <1>2, PTL

-----------------------------------------------------------------------------
(* The account of each batch *)

LEMMA InFlightFinite ==
  ASSUME NEW b
  PROVE  /\ IsFiniteSet(InFlight(b))
         /\ Cardinality(InFlight(b)) \in Nat
<1>1. InFlight(b) \subseteq Slot /\ IsFiniteSet(Slot)
  BY FS_Interval DEF InFlight, Slot
<1>2. QED
  BY <1>1, FS_Subset, FS_CardinalityType

\* A step that moves no thread into or out of a download, and touches no batch, keeps the
\* accounts as they are.
LEMMA QuietStep ==
  ASSUME TaskAccounting,
         UNCHANGED <<state, cur_task_id, num_dl_done, num_dl_failed, job>>,
         \A v \in Slot : pc'[v] = "batch" <=> pc[v] = "batch"
  PROVE  TaskAccounting'
<1>1. \A b : InFlight(b)' = InFlight(b)
  BY DEF InFlight
<1>2. ASSUME NEW b \in Batch, state'[b] # "CANCELED"
      PROVE  BatchAccount(b)'
  <2>1. BatchAccount(b) /\ InFlight(b)' = InFlight(b) /\ Taken(b)' = Taken(b)
    BY <1>1, <1>2 DEF TaskAccounting, Taken
  <2>2. QED
    BY <2>1 DEF BatchAccount
<1>3. QED
  BY <1>2 DEF TaskAccounting

\* A step that changes only the state of batches keeps the accounts of those that stay within
\* the same stage of their life.
LEMMA SameStage ==
  ASSUME NEW b \in Batch, BatchAccount(b),
         cur_task_id'[b] = cur_task_id[b],
         num_dl_done'[b] = num_dl_done[b],
         num_dl_failed'[b] = num_dl_failed[b],
         InFlight(b)' = InFlight(b),
         job' = job,
         state'[b] = state[b] \/ (state[b] \in {"NEW", "PENDING"} /\ state'[b] \in {"PENDING", "PROCESSING"})
  PROVE  BatchAccount(b)'
<1>1. Taken(b)' = Taken(b)
  BY DEF Taken
<1>2. QED
  BY <1>1 DEF BatchAccount

\* Promoting the batch after position i changes the state of a PENDING batch only.
LEMMA NextIsPending ==
  ASSUME TypeInv, QueueInOrder, TaskAccounting, NEW i \in 1..Len(batches),
         batches[i] = cur_batch, NEW c \in Batch, c # cur_batch
  PROVE  /\ RestartNext(i)[c] = cur_task_id[c]
         /\ \/ StartNext(state, i)[c] = state[c]
            \/ state[c] = "PENDING" /\ StartNext(state, i)[c] = "PROCESSING"
<1>a. /\ batches \in Seq(Batch)
      /\ state \in [Batch -> {"NEW", "PENDING", "PROCESSING", "FINISHING", "FINISHED", "CANCELED"}]
      /\ cur_task_id \in [Batch -> Int]
  BY DEF TypeInv, TypeOK, BatchTypes
<1>b. Len(batches) \in Nat
  BY <1>a
<1>1. /\ batches \in Seq(Batch)
      /\ Len(batches) \in Nat
      /\ state \in [Batch -> {"NEW", "PENDING", "PROCESSING", "FINISHING", "FINISHED", "CANCELED"}]
      /\ cur_task_id \in [Batch -> Int]
  BY <1>a, <1>b
<1>2. CASE i < Len(batches) /\ batches[i + 1] = c
  <2>1. i + 1 \in 1..Len(batches)
    BY <1>1, <1>2
  <2>2. state[cur_batch] = "PROCESSING"
    BY DEF QueueInOrder
  <2>3. state[c] = "PENDING"
    BY <1>2, <2>1, <2>2 DEF QueueInOrder
  <2>4. cur_task_id[c] = 0
    BY <2>3 DEF TaskAccounting, BatchAccount
  <2>5. QED
    BY <1>1, <1>2, <2>3, <2>4 DEF StartNext, RestartNext
<1>3. CASE ~(i < Len(batches) /\ batches[i + 1] = c)
  BY <1>1, <1>3 DEF StartNext, RestartNext
<1>4. QED
  BY <1>2, <1>3

LEMMA AccountInit == Init => TaskAccounting
<1> SUFFICES ASSUME Init PROVE TaskAccounting
  OBVIOUS
<1>1. ASSUME NEW b \in Batch PROVE BatchAccount(b)
  <2>1. InFlight(b) = {}
    BY DEF Init, InFlight
  <2>2. Total[b] \in Nat \ {0} /\ Cardinality({}) = 0
    BY FS_EmptySet
  <2>3. QED
    BY <2>1, <2>2 DEF Init, BatchAccount, Taken
<1>2. QED
  BY <1>1 DEF TaskAccounting, Init

LEMMA AccountNext ==
  ASSUME TypeInv, QueueInOrder, TaskAccounting, [Next]_vars
  PROVE  TaskAccounting'
<1>0. /\ state \in [Batch -> {"NEW", "PENDING", "PROCESSING", "FINISHING", "FINISHED", "CANCELED"}]
      /\ cur_task_id \in [Batch -> Int]
      /\ num_dl_done \in [Batch -> Nat]
      /\ num_dl_failed \in [Batch -> Nat]
      /\ pc \in [Slot -> {"none", "loop", "front", "batch", "report", "nap", "wait"}]
      /\ job \in [Slot -> [batch : Batch \cup {NoBatch}, task : Int]]
      /\ \A w \in Slot : pc[w] = "batch" => job[w].batch \in Batch
      /\ \A b \in Batch : Total[b] \in Nat \ {0} /\ cur_task_id[b] \in -1..(Total[b] - 1)
  BY DEF TypeInv, TypeOK, BatchTypes, ThreadTypes
<1>1. ASSUME NEW b \in Batch, BatchDownload(b)
      PROVE  TaskAccounting'
  <2>1. PICK n : CreateAndBroadcast(n)
    BY <1>1 DEF BatchDownload
  <2>2. job' = job /\ \A v \in Slot : pc'[v] = "batch" <=> pc[v] = "batch"
    BY <1>0, <2>1 DEF CreateAndBroadcast, NewSlots, FreeSlots
  <2>3. \A c : InFlight(c)' = InFlight(c)
    BY <2>2 DEF InFlight
  <2>4. ASSUME NEW c \in Batch, state'[c] # "CANCELED"
        PROVE  BatchAccount(c)'
    BY <1>0, <1>1, <2>2, <2>3, <2>4, SameStage DEF BatchDownload, TaskAccounting
  <2>5. QED
    BY <2>2, <2>4 DEF TaskAccounting
<1>2. ASSUME NEW t \in Tile, AddFront(t)
      PROVE  TaskAccounting'
  <2>1. PICK n : CreateAndBroadcast(n)
    BY <1>2 DEF AddFront
  <2>2. job' = job /\ \A v \in Slot : pc'[v] = "batch" <=> pc[v] = "batch"
    BY <1>0, <2>1 DEF CreateAndBroadcast, NewSlots, FreeSlots
  <2>3. QED
    BY <1>2, <2>2, QuietStep DEF AddFront, batchVars
<1>3. ASSUME NEW i \in 1..Len(batches), CancelBatch(i)
      PROVE  TaskAccounting'
  <2>1. /\ UNCHANGED <<num_dl_done, num_dl_failed, pc, job>>
        /\ \A c : InFlight(c)' = InFlight(c)
    BY <1>3 DEF CancelBatch, threadVars, InFlight
  <2>2. ASSUME NEW c \in Batch, state'[c] # "CANCELED"
        PROVE  BatchAccount(c)'
    <3>0. batches[i] \in Batch
      BY DEF TypeInv, TypeOK, BatchTypes
    <3>1. CASE batches[i] = cur_batch
      <4>1. /\ state' = [StartNext(state, i) EXCEPT ![batches[i]] = "CANCELED"]
            /\ cur_task_id' = RestartNext(i)
        BY <1>3, <3>1 DEF CancelBatch
      <4>2. StartNext(state, i) \in [Batch -> {"NEW", "PENDING", "PROCESSING", "FINISHING",
                                             "FINISHED", "CANCELED"}]
        BY NextTypes DEF TypeInv, TypeOK
      <4>3. c # cur_batch /\ state'[c] = StartNext(state, i)[c]
        BY <2>2, <3>0, <3>1, <4>1, <4>2
      <4>4. /\ cur_task_id'[c] = cur_task_id[c]
            /\ state'[c] = state[c] \/ (state[c] = "PENDING" /\ state'[c] = "PROCESSING")
        BY <3>1, <4>1, <4>3, NextIsPending
      <4>5. QED
        BY <2>1, <2>2, <4>4, SameStage DEF TaskAccounting
    <3>2. CASE batches[i] # cur_batch
      <4>1. state' = [state EXCEPT ![batches[i]] = "CANCELED"] /\ cur_task_id' = cur_task_id
        BY <1>3, <3>2 DEF CancelBatch
      <4>2. state'[c] = state[c]
        BY <1>0, <2>2, <3>0, <4>1
      <4>3. QED
        BY <2>1, <2>2, <4>1, <4>2, SameStage DEF TaskAccounting
    <3>3. QED
      BY <3>1, <3>2
  <2>3. QED
    BY <2>1, <2>2 DEF TaskAccounting
<1>4. ASSUME NEW w \in Slot, TakeBatchTask(w)
      PROVE  TaskAccounting'
  <2>a. batches \in Seq(Batch) /\ cur_batch \in Batch
    BY <1>4 DEF TakeBatchTask, TypeInv, TypeOK, BatchTypes
  <2>b. \E k \in 1..Len(batches) : batches[k] = cur_batch
    BY <1>4 DEF TakeBatchTask, TypeInv, CurListed
  <2>c. PICK b \in Batch, i \in 1..Len(batches) :
          /\ b = cur_batch
          /\ i = CHOOSE k \in 1..Len(batches) : batches[k] = cur_batch
    BY <2>a, <2>b
  <2>1. i \in 1..Len(batches) /\ batches[i] = b /\ b # NoBatch /\ b \in Batch
    BY <1>4, <2>b, <2>c DEF TakeBatchTask
  <2>2. state[b] = "PROCESSING" /\ BatchAccount(b)
    BY <2>1, <2>c DEF QueueInOrder, TaskAccounting
  <2>3. /\ pc[w] = "loop"
        /\ pc' = [pc EXCEPT ![w] = "batch"]
        /\ job' = [job EXCEPT ![w] = [batch |-> b, task |-> cur_task_id[b]]]
        /\ UNCHANGED <<num_dl_done, num_dl_failed>>
    BY <1>4, <2>c DEF TakeBatchTask, At, Goto
  <2>4. ASSUME NEW c \in Batch
        PROVE  InFlight(c)' = IF c = b THEN InFlight(c) \cup {w} ELSE InFlight(c)
    BY <1>0, <2>3 DEF InFlight
  <2>5. w \notin InFlight(b)
    BY <2>3 DEF InFlight
  <2>6. Cardinality(InFlight(b)') = Cardinality(InFlight(b)) + 1
    <3>1. InFlight(b)' = InFlight(b) \cup {w}
      BY <2>1, <2>4
    <3>2. IsFiniteSet(InFlight(b))
      BY InFlightFinite
    <3>3. Cardinality(InFlight(b) \cup {w}) = Cardinality(InFlight(b)) + 1
      BY <2>5, <3>2, FS_AddElement
    <3>4. QED
      BY <3>1, <3>3
  <2>7. Taken(b)' = Taken(b) + 1 /\ Taken(b) = cur_task_id[b] /\ cur_task_id[b] \in 0..(Total[b] - 1)
    <3>1. Taken(b) = cur_task_id[b] /\ cur_task_id[b] \in 0..(Total[b] - 1)
      BY <1>0, <2>1, <2>2 DEF BatchAccount, Taken
    <3>2. CASE LastTaskTaken(b)
      <4>1. cur_task_id' = [RestartNext(i) EXCEPT ![b] = -1]
        BY <1>4, <2>c, <3>2 DEF TakeBatchTask
      <4>2. RestartNext(i) \in [Batch -> Int]
        BY <2>1, NextTypes DEF TypeInv, TypeOK
      <4>3. cur_task_id'[b] = -1
        BY <2>1, <4>1, <4>2
      <4>4. Taken(b)' = Total[b]
        BY <4>3 DEF Taken
      <4>5. QED
        BY <3>1, <3>2, <4>4 DEF LastTaskTaken
    <3>3. CASE ~LastTaskTaken(b)
      <4>1. cur_task_id' = [cur_task_id EXCEPT ![b] = @ + 1]
        BY <1>4, <2>c, <3>3 DEF TakeBatchTask
      <4>2. cur_task_id'[b] = cur_task_id[b] + 1
        BY <1>0, <2>1, <4>1
      <4>3. Taken(b)' = cur_task_id'[b]
        BY <3>1, <4>2 DEF Taken
      <4>4. QED
        BY <3>1, <4>2, <4>3
    <3>4. QED
      BY <3>2, <3>3
  <2>8. BatchAccount(b)'
    <3>1. \/ state'[b] = "FINISHING" /\ cur_task_id'[b] = -1
          \/ state'[b] = "PROCESSING" /\ cur_task_id'[b] >= 0
      <4>1. CASE LastTaskTaken(b)
        <5>1. /\ state' = [StartNext(state, i) EXCEPT ![b] = "FINISHING"]
              /\ cur_task_id' = [RestartNext(i) EXCEPT ![b] = -1]
          BY <1>4, <2>c, <4>1 DEF TakeBatchTask
        <5>2. /\ RestartNext(i) \in [Batch -> Int]
              /\ StartNext(state, i) \in [Batch -> {"NEW", "PENDING", "PROCESSING", "FINISHING",
                                                   "FINISHED", "CANCELED"}]
          BY <2>1, NextTypes DEF TypeInv, TypeOK
        <5>3. state'[b] = "FINISHING"
          BY <2>1, <5>1, <5>2
        <5>4. cur_task_id'[b] = -1
          BY <2>1, <5>1, <5>2
        <5>5. QED
          BY <5>3, <5>4
      <4>2. CASE ~LastTaskTaken(b)
        <5>1. /\ cur_task_id' = [cur_task_id EXCEPT ![b] = @ + 1]
              /\ state' = state
          BY <1>4, <2>c, <4>2 DEF TakeBatchTask
        <5>2. QED
          BY <1>0, <2>1, <2>2, <2>7, <5>1
      <4>3. QED
        BY <4>1, <4>2
    <3>2. num_dl_done[b] # Total[b] /\ num_dl_done[b] + Cardinality(InFlight(b)) = Taken(b)
      BY <2>2 DEF BatchAccount
    <3>3. num_dl_done'[b] + Cardinality(InFlight(b)') = Taken(b)'
      BY <1>0, <2>1, <2>3, <2>6, <2>7, <3>2, InFlightFinite
    <3>4. ASSUME NEW v \in InFlight(b)'
          PROVE  job'[v].task \in 0..(Taken(b)' - 1)
      <4>1. CASE v = w
        BY <1>0, <2>1, <2>3, <2>7, <4>1
      <4>2. CASE v # w
        <5>1. v \in InFlight(b) /\ job'[v] = job[v]
          BY <1>0, <2>1, <2>3, <2>4, <3>4, <4>2 DEF InFlight
        <5>2. job[v].task \in 0..(Taken(b) - 1)
          BY <2>2, <5>1 DEF BatchAccount
        <5>3. QED
          BY <2>7, <5>1, <5>2
      <4>3. QED
        BY <4>1, <4>2
    <3>5. num_dl_failed'[b] <= num_dl_done'[b] /\ num_dl_done'[b] # Total[b]
      BY <2>2, <2>3, <3>2 DEF BatchAccount
    <3>6. QED
      BY <3>1, <3>3, <3>4, <3>5 DEF BatchAccount
  <2>9. ASSUME NEW c \in Batch, c # b, state'[c] # "CANCELED"
        PROVE  BatchAccount(c)'
    <3>1. /\ cur_task_id'[c] = cur_task_id[c]
          /\ state'[c] = state[c] \/ (state[c] = "PENDING" /\ state'[c] = "PROCESSING")
      <4>1. CASE LastTaskTaken(b)
        <5>1. /\ state' = [StartNext(state, i) EXCEPT ![b] = "FINISHING"]
              /\ cur_task_id' = [RestartNext(i) EXCEPT ![b] = -1]
          BY <1>4, <2>c, <4>1 DEF TakeBatchTask
        <5>2. /\ RestartNext(i) \in [Batch -> Int]
              /\ StartNext(state, i) \in [Batch -> {"NEW", "PENDING", "PROCESSING", "FINISHING",
                                                   "FINISHED", "CANCELED"}]
          BY <2>1, NextTypes DEF TypeInv, TypeOK
        <5>3. cur_task_id'[c] = RestartNext(i)[c] /\ state'[c] = StartNext(state, i)[c]
          BY <2>9, <5>1, <5>2
        <5>4. QED
          BY <2>1, <2>9, <5>3, <2>c, NextIsPending
      <4>2. CASE ~LastTaskTaken(b)
        <5>1. /\ cur_task_id' = [cur_task_id EXCEPT ![b] = @ + 1]
              /\ state' = state
          BY <1>4, <2>c, <4>2 DEF TakeBatchTask
        <5>2. QED
          BY <1>0, <2>9, <5>1
      <4>3. QED
        BY <4>1, <4>2
    <3>2. BatchAccount(c)
      BY <2>9, <3>1 DEF TaskAccounting
    <3>3. InFlight(c)' = InFlight(c) /\ Taken(c)' = Taken(c)
      BY <2>4, <2>9, <3>1 DEF Taken
    <3>4. ASSUME NEW v \in InFlight(c)'
          PROVE  job'[v].task \in 0..(Taken(c)' - 1)
      <4>1. v \in InFlight(c) /\ v # w
        BY <2>3, <3>3, <3>4 DEF InFlight
      <4>2. job'[v] = job[v]
        BY <2>3, <4>1
      <4>3. QED
        BY <3>2, <3>3, <4>1, <4>2 DEF BatchAccount
    <3>5. QED
      BY <2>3, <3>1, <3>2, <3>3, <3>4 DEF BatchAccount
  <2>10. ASSUME NEW u \in Slot, NEW v \in Slot, pc'[u] = "batch", pc'[v] = "batch", u # v
         PROVE  job'[u] # job'[v]
    <3>1. ASSUME NEW x \in Slot, x # w, pc'[x] = "batch"
          PROVE  job'[x] # job'[w]
      <4>1. pc[x] = "batch" /\ job'[x] = job[x]
        BY <1>0, <2>3, <3>1
      <4>2. job'[w].batch = b /\ job'[w].task = cur_task_id[b]
        BY <1>0, <2>3
      <4>3. CASE job[x].batch = b
        <5>1. job[x].task \in 0..(cur_task_id[b] - 1)
          BY <2>2, <2>7, <4>1, <4>3 DEF BatchAccount, InFlight
        <5>2. QED
          BY <2>7, <4>1, <4>2, <5>1
      <4>4. CASE job[x].batch # b
        BY <4>1, <4>2, <4>4
      <4>5. QED
        BY <4>3, <4>4
    <3>2. CASE u # w /\ v # w
      BY <1>0, <2>3, <2>10, <3>2 DEF TaskAccounting
    <3>3. QED
      BY <2>10, <3>1, <3>2
  <2>11. QED
    BY <2>8, <2>9, <2>10 DEF TaskAccounting
<1>5. ASSUME NEW w \in Slot, DropCanceled(w)
      PROVE  TaskAccounting'
  <2>1. /\ pc[w] = "batch"
        /\ state[job[w].batch] = "CANCELED"
        /\ pc' = [pc EXCEPT ![w] = "loop"]
        /\ job' = [job EXCEPT ![w] = NoJob]
        /\ UNCHANGED <<state, cur_task_id, num_dl_done, num_dl_failed>>
    BY <1>5 DEF DropCanceled, At, Goto, batchVars
  <2>2. ASSUME NEW c \in Batch, state'[c] # "CANCELED"
        PROVE  BatchAccount(c)'
    <3>1. BatchAccount(c) /\ Taken(c)' = Taken(c)
      BY <2>1, <2>2 DEF TaskAccounting, Taken
    <3>2. InFlight(c)' = InFlight(c)
      BY <1>0, <2>1, <2>2 DEF InFlight
    <3>3. \A v \in InFlight(c) : job'[v] = job[v]
      BY <1>0, <2>1, <2>2 DEF InFlight
    <3>4. QED
      BY <2>1, <3>1, <3>2, <3>3 DEF BatchAccount
  <2>3. QED
    BY <1>0, <2>1, <2>2 DEF TaskAccounting
<1>6. ASSUME NEW w \in Slot, NEW failed \in BOOLEAN, FinishBatchTask(w, failed)
      PROVE  TaskAccounting'
  <2>a. job[w].batch \in Batch
    BY <1>0, <1>6 DEF FinishBatchTask, At
  <2>b. PICK b \in Batch : b = job[w].batch
    BY <2>a
  <2>1. /\ pc[w] = "batch"
        /\ b \in Batch
        /\ state[b] # "CANCELED"
        /\ num_dl_failed' = [num_dl_failed EXCEPT ![b] = IF failed THEN @ + 1 ELSE @]
        /\ num_dl_done' = [num_dl_done EXCEPT ![b] = @ + 1]
        /\ job' = [job EXCEPT ![w] = NoJob]
        /\ cur_task_id' = cur_task_id
    BY <1>0, <1>6, <2>b DEF FinishBatchTask, At
  <2>2. \E l \in {"loop", "report"} : pc' = [pc EXCEPT ![w] = l]
    BY <1>6, <2>b DEF FinishBatchTask, Goto
  <2>3. w \in InFlight(b) /\ BatchAccount(b)
    BY <2>1, <2>b DEF InFlight, TaskAccounting
  <2>4. \A c \in Batch : InFlight(c)' = IF c = b THEN InFlight(c) \ {w} ELSE InFlight(c)
    BY <1>0, <2>1, <2>2, <2>b DEF InFlight
  <2>5. /\ Cardinality(InFlight(b)') = Cardinality(InFlight(b)) - 1
        /\ Cardinality(InFlight(b)') \in Nat
    <3>1. InFlight(b)' = InFlight(b) \ {w}
      BY <2>1, <2>4
    <3>2. IsFiniteSet(InFlight(b)) /\ IsFiniteSet(InFlight(b) \ {w})
      BY InFlightFinite, FS_RemoveElement
    <3>3. Cardinality(InFlight(b) \ {w}) = Cardinality(InFlight(b)) - 1
      BY <2>3, <3>2, FS_RemoveElement
    <3>4. Cardinality(InFlight(b) \ {w}) \in Nat
      BY <3>2, FS_CardinalityType
    <3>5. QED
      BY <3>1, <3>3, <3>4
  <2>6. \A c \in Batch : Taken(c)' = Taken(c) /\ Taken(c) \in Nat
    <3>1. \A c \in Batch : Taken(c)' = Taken(c)
      BY <2>1 DEF Taken
    <3>2. \A c \in Batch : Taken(c) \in Nat
      BY <1>0 DEF Taken
    <3>3. QED
      BY <3>1, <3>2
  <2>7. BatchAccount(b)'
    <3>1. num_dl_done'[b] = num_dl_done[b] + 1 /\ num_dl_failed'[b] <= num_dl_done'[b]
      BY <1>0, <2>1, <2>3 DEF BatchAccount
    <3>2. num_dl_done'[b] + Cardinality(InFlight(b)') = Taken(b)'
      <4>1. num_dl_done[b] + Cardinality(InFlight(b)) = Taken(b)
        BY <2>3 DEF BatchAccount
      <4>2. Cardinality(InFlight(b)) \in Nat /\ num_dl_done[b] \in Nat
        BY <1>0, <2>1, InFlightFinite
      <4>3. QED
        BY <2>1, <2>5, <2>6, <3>1, <4>1, <4>2
    <3>3. \A v \in InFlight(b)' : job'[v].task \in 0..(Taken(b)' - 1)
      <4>1. \A v \in InFlight(b)' : v \in InFlight(b) /\ job'[v] = job[v]
        BY <1>0, <2>1, <2>4 DEF InFlight
      <4>2. QED
        BY <2>1, <2>3, <2>6, <4>1 DEF BatchAccount
    <3>4. CASE AllDone(b)
      <4>1. state' = [state EXCEPT ![b] = "FINISHED"]
        BY <1>6, <2>b, <3>4 DEF FinishBatchTask
      <4>2. state'[b] = "FINISHED"
        BY <1>0, <2>1, <4>1
      <4>3. num_dl_done'[b] = Total[b]
        BY <3>1, <3>4 DEF AllDone
      <4>4. cur_task_id[b] = -1
        <5>1. Taken(b) >= Total[b]
          BY <1>0, <2>1, <2>5, <2>6, <3>2, <4>3
        <5>2. QED
          BY <1>0, <2>1, <5>1 DEF Taken
      <4>5. QED
        BY <2>1, <3>1, <3>2, <3>3, <4>2, <4>3, <4>4 DEF BatchAccount
    <3>5. CASE ~AllDone(b)
      <4>1. state' = state
        BY <1>6, <2>b, <3>5 DEF FinishBatchTask
      <4>2. num_dl_done'[b] # Total[b]
        BY <3>1, <3>5 DEF AllDone
      <4>3. state[b] # "FINISHED"
        <5>1. num_dl_done[b] < Total[b]
          <6>1. Taken(b) <= Total[b]
            BY <1>0, <2>1 DEF Taken
          <6>2. QED
            BY <1>0, <2>1, <2>5, <2>6, <3>1, <3>2, <6>1
        <5>2. QED
          BY <2>3, <5>1, <1>0, <2>1 DEF BatchAccount
      <4>4. QED
        BY <2>1, <2>3, <3>1, <3>2, <3>3, <4>1, <4>2, <4>3 DEF BatchAccount
    <3>6. QED
      BY <3>4, <3>5
  <2>8. ASSUME NEW c \in Batch, c # b, state'[c] # "CANCELED"
        PROVE  BatchAccount(c)'
    <3>1. state'[c] = state[c] /\ num_dl_done'[c] = num_dl_done[c] /\ num_dl_failed'[c] = num_dl_failed[c]
      BY <1>0, <1>6, <2>b, <2>1, <2>8 DEF FinishBatchTask
    <3>2. BatchAccount(c) /\ InFlight(c)' = InFlight(c) /\ Taken(c)' = Taken(c)
      BY <2>4, <2>6, <2>8, <3>1 DEF TaskAccounting
    <3>3. \A v \in InFlight(c) : job'[v] = job[v]
      <4>1. ASSUME NEW v \in InFlight(c) PROVE v # w
        BY <2>b, <2>8, <4>1 DEF InFlight
      <4>2. QED
        BY <1>0, <2>1, <4>1 DEF InFlight
    <3>4. QED
      BY <2>1, <3>1, <3>2, <3>3 DEF BatchAccount
  <2>9. \A u, v \in Slot : (pc'[u] = "batch" /\ pc'[v] = "batch" /\ u # v) => job'[u] # job'[v]
    BY <1>0, <2>1, <2>2 DEF TaskAccounting
  <2>10. QED
    BY <2>7, <2>8, <2>9 DEF TaskAccounting
<1>7. ASSUME NEW w \in Slot,
             \/ TakeFront(w) \/ FinishFront(w) \/ Nap(w) \/ WakeFromNap(w) \/ ReportFinished(w)
             \/ Wait(w) \/ WakeUp(w) \/ IdleExit(w)
      PROVE  TaskAccounting'
  <2>1. /\ UNCHANGED <<state, cur_task_id, num_dl_done, num_dl_failed, job>>
        /\ pc[w] # "batch"
        /\ \E l \in {"loop", "front", "nap", "wait", "none"} : pc' = [pc EXCEPT ![w] = l]
    BY <1>7 DEF TakeFront, FinishFront, Nap, WakeFromNap, ReportFinished, Wait, WakeUp, IdleExit,
       At, Goto, batchVars
  <2>2. \A v \in Slot : pc'[v] = "batch" <=> pc[v] = "batch"
    BY <1>0, <2>1
  <2>3. QED
    BY <2>1, <2>2, QuietStep
<1>8. ASSUME \/ \E w \in Slot : TouchFreedBatch(w)
             \/ FreePendingFrees
             \/ UNCHANGED vars
      PROVE  TaskAccounting'
  <2>1. UNCHANGED <<state, cur_task_id, num_dl_done, num_dl_failed, pc, job>>
    BY <1>8 DEF TouchFreedBatch, FreePendingFrees, vars, batchVars, threadVars
  <2>2. QED
    BY <2>1, QuietStep
<1>9. QED
  BY <1>1, <1>2, <1>3, <1>4, <1>5, <1>6, <1>7, <1>8 DEF Next, Worker

-----------------------------------------------------------------------------
(* The order of the list *)

BatchStates == {"NEW", "PENDING", "PROCESSING", "FINISHING", "FINISHED", "CANCELED"}
Listed == Open \cup {"FINISHED"}

\* What the promotion of the batch after the current one (position i) does to each batch.
LEMMA Promotion ==
  ASSUME TypeInv, QueueInOrder, NEW i \in 1..Len(batches), batches[i] = cur_batch
  PROVE  /\ \A j \in 1..Len(batches) :
              /\ j < i => /\ state[batches[j]] \in {"FINISHING", "FINISHED"}
                         /\ StartNext(state, i)[batches[j]] = state[batches[j]]
              /\ j = i + 1 => /\ StartNext(state, i)[batches[j]] = "PROCESSING"
                             /\ NextCurBatch(i) = batches[j]
              /\ j > i + 1 => /\ StartNext(state, i)[batches[j]] = "PENDING"
                             /\ NextCurBatch(i) # batches[j]
         /\ \A j \in 1..Len(batches) : j < i => NextCurBatch(i) # batches[j]
         /\ i = Len(batches) => NextCurBatch(i) = NoBatch
         /\ \A c \in Batch : StartNext(state, i)[c] \in Listed <=> state[c] \in Listed
         /\ StartNext(state, i) \in [Batch -> BatchStates]
<1>1. batches \in Seq(Batch) /\ state \in [Batch -> BatchStates]
  BY DEF TypeInv, TypeOK, BatchTypes, BatchStates
<1>2. Len(batches) \in Nat /\ \A j \in 1..Len(batches) : batches[j] \in Batch
  BY <1>1
<1>3. state[batches[i]] = "PROCESSING"
  BY DEF QueueInOrder
<1>4. \A j \in 1..Len(batches) : j < i => state[batches[j]] \in {"FINISHING", "FINISHED"}
  BY <1>3 DEF QueueInOrder
<1>5. \A j \in 1..Len(batches) : j > i => state[batches[j]] = "PENDING"
  BY <1>3 DEF QueueInOrder
<1>6. \A j, k \in 1..Len(batches) : j # k => batches[j] # batches[k]
  BY DEF QueueInOrder
<1>7. CASE i < Len(batches)
  <2>1. PICK k \in 1..Len(batches) : k = i + 1
    BY <1>2, <1>7
  <2>2. /\ NextCurBatch(i) = batches[k]
        /\ StartNext(state, i) = [state EXCEPT ![batches[k]] = "PROCESSING"]
        /\ k # i
        /\ batches[k] \in Batch
        /\ state[batches[k]] = "PENDING"
    BY <1>2, <1>5, <1>7, <2>1 DEF NextCurBatch, StartNext
  <2>3. \A c \in Batch :
          StartNext(state, i)[c] = IF c = batches[k] THEN "PROCESSING" ELSE state[c]
    BY <1>1, <2>2
  <2>4. \A c \in Batch : StartNext(state, i)[c] \in Listed <=> state[c] \in Listed
    BY <2>2, <2>3 DEF Listed, Open
  <2>5. StartNext(state, i) \in [Batch -> BatchStates]
    BY <1>1, <2>2 DEF BatchStates
  <2>6. ASSUME NEW j \in 1..Len(batches)
        PROVE  /\ j < i => /\ state[batches[j]] \in {"FINISHING", "FINISHED"}
                          /\ StartNext(state, i)[batches[j]] = state[batches[j]]
                          /\ NextCurBatch(i) # batches[j]
               /\ j = i + 1 => /\ StartNext(state, i)[batches[j]] = "PROCESSING"
                              /\ NextCurBatch(i) = batches[j]
               /\ j > i + 1 => /\ StartNext(state, i)[batches[j]] = "PENDING"
                              /\ NextCurBatch(i) # batches[j]
    <3>1. j # k => batches[j] # batches[k]
      BY <1>6
    <3>2. batches[j] \in Batch
      BY <1>2
    <3>3. CASE j < i
      BY <1>4, <2>1, <2>2, <2>3, <3>1, <3>2, <3>3
    <3>4. CASE j = i + 1
      BY <2>1, <2>2, <2>3, <3>2, <3>4
    <3>5. CASE j > i + 1
      <4>1. j > i
        BY <3>5
      <4>2. QED
        BY <1>5, <2>1, <2>2, <2>3, <3>1, <3>2, <3>5, <4>1
    <3>6. QED
      BY <3>3, <3>4, <3>5
  <2>7. QED
    BY <1>7, <2>4, <2>5, <2>6
<1>8. CASE i = Len(batches)
  <2>1. NextCurBatch(i) = NoBatch /\ StartNext(state, i) = state
    BY <1>8 DEF NextCurBatch, StartNext
  <2>2. \A j \in 1..Len(batches) : batches[j] # NoBatch /\ ~(j = i + 1) /\ ~(j > i + 1)
    BY <1>2, <1>8
  <2>3. QED
    BY <1>1, <1>4, <1>8, <2>1, <2>2
<1>9. QED
  BY <1>2, <1>7, <1>8

\* The thread that brings back the last task of a batch finds it FINISHING.
LEMMA LastTaskFinishing ==
  ASSUME TypeInv, TaskAccounting, NEW w \in Slot, NEW b \in Batch, pc[w] = "batch",
         job[w].batch = b, state[b] # "CANCELED", AllDone(b)
  PROVE  state[b] = "FINISHING"
<1>1. /\ state[b] \in BatchStates
      /\ num_dl_done[b] \in Nat
      /\ cur_task_id[b] \in -1..(Total[b] - 1)
      /\ Total[b] \in Nat \ {0}
  BY DEF TypeInv, TypeOK, BatchTypes, BatchStates
<1>2. BatchAccount(b) /\ w \in InFlight(b)
  BY DEF TaskAccounting, InFlight
<1>3. Cardinality(InFlight(b)) \in Nat \ {0}
  BY <1>2, InFlightFinite, FS_EmptySet
<1>4. Taken(b) >= Total[b]
  BY <1>1, <1>2, <1>3 DEF AllDone, BatchAccount, Taken
<1>5. cur_task_id[b] = -1
  BY <1>1, <1>4 DEF Taken
<1>6. num_dl_done[b] # Total[b]
  BY <1>1 DEF AllDone
<1>7. QED
  BY <1>1, <1>2, <1>5, <1>6 DEF BatchAccount, BatchStates

LEMMA OrderInit == Init => QueueInOrder
  BY DEF Init, QueueInOrder, InList, Open

\* A step that leaves the list, the current batch and the states alone keeps the order.
LEMMA QuietOrder ==
  ASSUME QueueInOrder, UNCHANGED <<batches, cur_batch, state>>
  PROVE  QueueInOrder'
BY DEF QueueInOrder, InList

LEMMA OrderNext ==
  ASSUME TypeInv, QueueInOrder, TaskAccounting, [Next]_vars
  PROVE  QueueInOrder'
<1>0. /\ batches \in Seq(Batch)
      /\ state \in [Batch -> BatchStates]
  BY DEF TypeInv, TypeOK, BatchTypes, BatchStates
<1>a. Len(batches) \in Nat /\ \A j \in 1..Len(batches) : batches[j] \in Batch
  BY <1>0
<1>b. \A j \in 1..Len(batches) : state[batches[j]] \in Listed
  BY DEF QueueInOrder, InList, Listed
<1>1. ASSUME NEW b \in Batch, BatchDownload(b)
      PROVE  QueueInOrder'
  <2> DEFINE n == Len(batches)
  <2>1. /\ Len(batches') = n + 1
        /\ \A j \in 1..n : batches'[j] = batches[j]
        /\ batches'[n + 1] = b
    BY <1>0, <1>1 DEF BatchDownload
  <2>2. \A j \in 1..n : batches[j] # b
    BY <1>1, <1>b DEF BatchDownload, Listed, Open
  <2>3. /\ state'[b] = IF cur_batch = NoBatch THEN "PROCESSING" ELSE "PENDING"
        /\ \A c \in Batch : c # b => state'[c] = state[c]
        /\ cur_batch' = IF cur_batch = NoBatch THEN b ELSE cur_batch
    BY <1>0, <1>1 DEF BatchDownload
  <2>4. \A j \in 1..n : state'[batches'[j]] = state[batches[j]]
    BY <1>a, <2>1, <2>2, <2>3
  <2>5. \A j \in 1..n : cur_batch = NoBatch => state[batches[j]] \in {"FINISHING", "FINISHED"}
    BY <1>a, <1>b DEF QueueInOrder, Listed, Open
  <2>6. cur_batch # NoBatch => cur_batch # b
    BY <2>2 DEF TypeInv, CurListed
  <2>7. ASSUME NEW j \in 1..(n + 1), NEW k \in 1..(n + 1), j # k
        PROVE  batches'[j] # batches'[k]
    <3>1. j \in 1..n \/ j = n + 1
      BY <1>a
    <3>2. k \in 1..n \/ k = n + 1
      BY <1>a
    <3>3. QED
      BY <2>1, <2>2, <2>7, <3>1, <3>2 DEF QueueInOrder
  <2>8. ASSUME NEW c \in InList'
        PROVE  \E j \in 1..(n + 1) : batches'[j] = c
    <3>1. CASE c = b
      BY <1>a, <2>1, <3>1
    <3>2. CASE c # b
      <4>1. c \in InList
        BY <2>3, <2>8, <3>2 DEF InList
      <4>2. PICK j \in 1..n : batches[j] = c
        BY <4>1 DEF QueueInOrder
      <4>3. j \in 1..(n + 1)
        BY <1>a
      <4>4. QED
        BY <2>1, <4>2, <4>3
    <3>3. QED
      BY <3>1, <3>2
  <2>9. ASSUME NEW j \in 1..(n + 1)
        PROVE  /\ batches'[j] \in InList'
               /\ state'[batches'[j]] = "PROCESSING" <=> batches'[j] = cur_batch'
               /\ cur_batch' = NoBatch => state'[batches'[j]] # "PENDING"
    <3>1. CASE j = n + 1
      <4>1. b # NoBatch
        OBVIOUS
      <4>2. QED
        BY <2>1, <2>3, <2>6, <3>1, <4>1 DEF InList, Open
    <3>2. CASE j \in 1..n
      <4>1. batches[j] \in Batch /\ state[batches[j]] \in Listed /\ batches[j] # b
        BY <1>a, <1>b, <2>2, <3>2
      <4>2. batches'[j] \in InList'
        BY <2>1, <2>4, <3>2, <4>1 DEF InList, Listed
      <4>3. state[batches[j]] = "PROCESSING" <=> batches[j] = cur_batch
        BY <3>2 DEF QueueInOrder
      <4>4. CASE cur_batch = NoBatch
        BY <2>1, <2>3, <2>4, <2>5, <3>2, <4>1, <4>2, <4>4
      <4>5. CASE cur_batch # NoBatch
        BY <2>1, <2>3, <2>4, <3>2, <4>1, <4>2, <4>3, <4>5
      <4>6. QED
        BY <4>4, <4>5
    <3>3. QED
      BY <1>a, <3>1, <3>2
  <2>10. ASSUME NEW j \in 1..(n + 1), NEW k \in 1..(n + 1), j < k
         PROVE  \/ state'[batches'[j]] \in {"FINISHING", "FINISHED"}
                \/ state'[batches'[k]] = "PENDING"
    <3>1. j \in 1..n
      BY <1>a, <2>10
    <3>2. CASE k = n + 1
      BY <2>1, <2>3, <2>4, <2>5, <3>1, <3>2
    <3>3. CASE k \in 1..n
      <4>1. \/ state[batches[j]] \in {"FINISHING", "FINISHED"}
            \/ state[batches[k]] = "PENDING"
        BY <2>10, <3>1, <3>3 DEF QueueInOrder
      <4>2. QED
        BY <2>4, <3>1, <3>3, <4>1
    <3>4. QED
      BY <1>a, <3>2, <3>3
  <2>11. QED
    BY <2>1, <2>7, <2>8, <2>9, <2>10 DEF QueueInOrder
<1>2. ASSUME NEW t \in Tile, AddFront(t)
      PROVE  QueueInOrder'
  BY <1>2, QuietOrder DEF AddFront, batchVars
<1>3. ASSUME NEW i \in 1..Len(batches), CancelBatch(i)
      PROVE  QueueInOrder'
  <2> DEFINE n == Len(batches)
             m(j) == IF j < i THEN j ELSE j + 1
  <2>1. batches' = RemoveAt(batches, i)
    BY <1>3 DEF CancelBatch
  <2>2. /\ Len(batches') = n - 1
        /\ \A j \in 1..(n - 1) : batches'[j] = batches[m(j)]
    BY <1>0, <2>1, RemoveAtProperties
  <2>3. /\ \A j \in 1..(n - 1) : m(j) \in 1..n /\ m(j) # i
        /\ \A j, k \in 1..(n - 1) : j < k => m(j) < m(k)
        /\ \A j, k \in 1..(n - 1) : j # k => m(j) # m(k)
        /\ \A l \in 1..n : l # i => \E j \in 1..(n - 1) : m(j) = l
    <3>1. ASSUME NEW l \in 1..n, l # i PROVE \E j \in 1..(n - 1) : m(j) = l
      <4>1. CASE l < i
        BY <1>a, <4>1
      <4>2. CASE l > i
        <5>1. l - 1 \in 1..(n - 1) /\ m(l - 1) = l
          BY <1>a, <4>2
        <5>2. QED
          BY <5>1
      <4>3. QED
        BY <1>a, <3>1, <4>1, <4>2
    <3>2. QED
      BY <1>a, <3>1
  <2>4. PICK b \in Batch : b = batches[i]
    BY <1>a
  <2>5. \A l \in 1..n : l # i => batches[l] # b
    BY <2>4 DEF QueueInOrder
  <2> HIDE DEF m
  <2>6. /\ state'[b] = "CANCELED"
        /\ \A c \in Batch : c # b => (state'[c] \in Listed <=> state[c] \in Listed)
        /\ \A l \in 1..n : l # i =>
             /\ state'[batches[l]] = "PROCESSING" <=> batches[l] = cur_batch'
             /\ cur_batch' = NoBatch => state'[batches[l]] # "PENDING"
        /\ \A l, o \in 1..n : (l # i /\ o # i /\ l < o) =>
             \/ state'[batches[l]] \in {"FINISHING", "FINISHED"}
             \/ state'[batches[o]] = "PENDING"
    <3>1. CASE b = cur_batch
      <4>1. /\ state' = [StartNext(state, i) EXCEPT ![b] = "CANCELED"]
            /\ cur_batch' = NextCurBatch(i)
        BY <1>3, <2>4, <3>1 DEF CancelBatch
      <4>2. /\ StartNext(state, i) \in [Batch -> BatchStates]
            /\ \A c \in Batch : StartNext(state, i)[c] \in Listed <=> state[c] \in Listed
        BY <2>4, <3>1, Promotion
      <4>3. /\ state'[b] = "CANCELED"
            /\ \A c \in Batch : c # b => state'[c] = StartNext(state, i)[c]
        BY <4>1, <4>2
      <4>4. \A l \in 1..n : l # i => state'[batches[l]] = StartNext(state, i)[batches[l]]
        BY <1>a, <2>5, <4>3
      <4>5. \A l \in 1..n :
              /\ l < i => /\ state'[batches[l]] \in {"FINISHING", "FINISHED"}
                         /\ cur_batch' # batches[l]
              /\ l = i + 1 => state'[batches[l]] = "PROCESSING" /\ cur_batch' = batches[l]
              /\ l > i + 1 => state'[batches[l]] = "PENDING" /\ cur_batch' # batches[l]
        <5>1. SUFFICES ASSUME NEW l \in 1..n
              PROVE  /\ l < i => /\ state'[batches[l]] \in {"FINISHING", "FINISHED"}
                                /\ cur_batch' # batches[l]
                     /\ l = i + 1 => state'[batches[l]] = "PROCESSING" /\ cur_batch' = batches[l]
                     /\ l > i + 1 => state'[batches[l]] = "PENDING" /\ cur_batch' # batches[l]
          OBVIOUS
        <5>2. /\ l < i => /\ StartNext(state, i)[batches[l]] \in {"FINISHING", "FINISHED"}
                         /\ NextCurBatch(i) # batches[l]
              /\ l = i + 1 => /\ StartNext(state, i)[batches[l]] = "PROCESSING"
                             /\ NextCurBatch(i) = batches[l]
              /\ l > i + 1 => /\ StartNext(state, i)[batches[l]] = "PENDING"
                             /\ NextCurBatch(i) # batches[l]
          BY <2>4, <3>1, Promotion
        <5>3. l < i \/ l = i + 1 \/ l > i + 1 => l # i
          BY <1>a
        <5>4. QED
          BY <4>1, <4>4, <5>2, <5>3
      <4>6. \A l \in 1..n : l # i =>
             /\ state'[batches[l]] = "PROCESSING" <=> batches[l] = cur_batch'
             /\ cur_batch' = NoBatch => state'[batches[l]] # "PENDING"
        <5>1. SUFFICES ASSUME NEW l \in 1..n, l # i
                       PROVE  /\ state'[batches[l]] = "PROCESSING" <=> batches[l] = cur_batch'
                              /\ cur_batch' = NoBatch => state'[batches[l]] # "PENDING"
          OBVIOUS
        <5>2. l < i \/ l = i + 1 \/ l > i + 1
          BY <1>a, <5>1
        <5>3. batches[l] \in Batch /\ NoBatch \notin Batch
          BY <1>a
        <5>4. CASE l > i + 1
          <6>1. i # n
            BY <1>a, <5>4
          <6>2. i + 1 \in 1..n
            BY <1>a, <5>4
          <6>3. cur_batch' = batches[i + 1] /\ batches[i + 1] # NoBatch
            BY <1>a, <4>5, <6>2
          <6>4. QED
            BY <4>5, <5>4, <6>3
        <5>5. QED
          BY <4>5, <5>2, <5>3, <5>4
      <4>7. ASSUME NEW l \in 1..n, NEW o \in 1..n, l # i, o # i, l < o
            PROVE  \/ state'[batches[l]] \in {"FINISHING", "FINISHED"}
                   \/ state'[batches[o]] = "PENDING"
        <5>1. l < i \/ o > i + 1
          BY <1>a, <4>7
        <5>2. QED
          BY <4>5, <5>1
      <4>8. QED
        BY <4>2, <4>3, <4>6, <4>7
    <3>2. CASE b # cur_batch
      <4>1. state' = [state EXCEPT ![b] = "CANCELED"] /\ cur_batch' = cur_batch
        BY <1>3, <2>4, <3>2 DEF CancelBatch
      <4>2. state'[b] = "CANCELED" /\ \A c \in Batch : c # b => state'[c] = state[c]
        BY <1>0, <4>1
      <4>3. \A l \in 1..n : l # i => state'[batches[l]] = state[batches[l]]
        BY <1>a, <2>5, <4>2
      <4>4. \A l \in 1..n : l # i =>
             /\ state'[batches[l]] = "PROCESSING" <=> batches[l] = cur_batch'
             /\ cur_batch' = NoBatch => state'[batches[l]] # "PENDING"
        BY <4>1, <4>3 DEF QueueInOrder
      <4>5. \A l, o \in 1..n : (l # i /\ o # i /\ l < o) =>
             \/ state'[batches[l]] \in {"FINISHING", "FINISHED"}
             \/ state'[batches[o]] = "PENDING"
        BY <4>3 DEF QueueInOrder
      <4>6. QED
        BY <4>2, <4>4, <4>5
    <3>3. QED
      BY <3>1, <3>2
  <2>7. ASSUME NEW j \in 1..(n - 1), NEW k \in 1..(n - 1), j # k
        PROVE  batches'[j] # batches'[k]
    <3>1. m(j) \in 1..n /\ m(k) \in 1..n /\ m(j) # m(k)
      BY <2>3, <2>7
    <3>2. batches[m(j)] # batches[m(k)]
      BY <3>1 DEF QueueInOrder
    <3>3. QED
      BY <2>2, <3>2
  <2>8. ASSUME NEW c \in InList'
        PROVE  \E j \in 1..(n - 1) : batches'[j] = c
    <3>1. c \in Batch /\ c # b /\ c \in InList
      BY <2>6, <2>8 DEF InList, Listed, Open
    <3>2. PICK l \in 1..n : batches[l] = c
      BY <3>1 DEF QueueInOrder
    <3>3. PICK j \in 1..(n - 1) : m(j) = l
      BY <2>3, <2>4, <3>1, <3>2
    <3>4. QED
      BY <2>2, <3>2, <3>3
  <2>9. ASSUME NEW j \in 1..(n - 1)
        PROVE  /\ batches'[j] \in InList'
               /\ state'[batches'[j]] = "PROCESSING" <=> batches'[j] = cur_batch'
               /\ cur_batch' = NoBatch => state'[batches'[j]] # "PENDING"
    <3>1. m(j) \in 1..n /\ m(j) # i /\ batches'[j] = batches[m(j)]
      BY <2>2, <2>3
    <3>2. batches[m(j)] \in Batch /\ batches[m(j)] # b /\ state[batches[m(j)]] \in Listed
      BY <1>a, <1>b, <2>5, <3>1
    <3>3. batches'[j] \in InList'
      BY <2>6, <3>1, <3>2 DEF InList, Listed
    <3>4. QED
      BY <2>6, <3>1, <3>3
  <2>10. ASSUME NEW j \in 1..(n - 1), NEW k \in 1..(n - 1), j < k
         PROVE  \/ state'[batches'[j]] \in {"FINISHING", "FINISHED"}
                \/ state'[batches'[k]] = "PENDING"
    <3>1. m(j) < m(k) /\ m(j) \in 1..n /\ m(k) \in 1..n /\ m(j) # i /\ m(k) # i
      BY <2>3, <2>10
    <3>2. QED
      BY <2>2, <2>6, <3>1
  <2>11. QED
    BY <2>2, <2>7, <2>8, <2>9, <2>10 DEF QueueInOrder
<1>4. ASSUME NEW w \in Slot, TakeBatchTask(w)
      PROVE  QueueInOrder'
  <2>1. CASE ~LastTaskTaken(cur_batch)
    BY <1>4, <2>1, QuietOrder DEF TakeBatchTask
  <2>2. CASE LastTaskTaken(cur_batch)
    <3> DEFINE n == Len(batches)
    <3>1. cur_batch \in Batch /\ \E k \in 1..n : batches[k] = cur_batch
      BY <1>4 DEF TakeBatchTask, TypeInv, CurListed, TypeOK, BatchTypes
    <3>2. PICK b \in Batch, i \in 1..n :
            /\ b = cur_batch
            /\ i = CHOOSE k \in 1..n : batches[k] = cur_batch
      BY <3>1
    <3>3. batches[i] = b /\ batches[i] = cur_batch
      BY <3>1, <3>2
    <3>4. /\ state' = [StartNext(state, i) EXCEPT ![b] = "FINISHING"]
          /\ cur_batch' = NextCurBatch(i)
          /\ batches' = batches
      BY <1>4, <2>2, <3>2 DEF TakeBatchTask
    <3>5. /\ StartNext(state, i) \in [Batch -> BatchStates]
          /\ \A c \in Batch : StartNext(state, i)[c] \in Listed <=> state[c] \in Listed
      BY <3>3, Promotion
    <3>6. /\ state'[b] = "FINISHING"
          /\ \A c \in Batch : c # b => state'[c] = StartNext(state, i)[c]
      BY <3>4, <3>5
    <3>7. \A l \in 1..n : l # i => batches[l] # b
      BY <3>3 DEF QueueInOrder
    <3>8. state[b] = "PROCESSING"
      BY <3>3 DEF QueueInOrder
    <3>9. \A c \in Batch : state'[c] \in Listed <=> state[c] \in Listed
      BY <3>5, <3>6, <3>8 DEF Listed, Open
    <3>10. \A l \in 1..n : l # i => state'[batches[l]] = StartNext(state, i)[batches[l]]
      BY <1>a, <3>6, <3>7
    <3>11. \A l \in 1..n :
             /\ l < i => state'[batches[l]] \in {"FINISHING", "FINISHED"}
             /\ l = i + 1 => state'[batches[l]] = "PROCESSING"
             /\ l > i + 1 => state'[batches[l]] = "PENDING"
      BY <3>3, <3>10, Promotion
    <3>12. \A l \in 1..n : l # i => (cur_batch' = batches[l] <=> l = i + 1)
      <4>1. SUFFICES ASSUME NEW l \in 1..n, l # i
                     PROVE  cur_batch' = batches[l] <=> l = i + 1
        OBVIOUS
      <4>2. l < i \/ l = i + 1 \/ l > i + 1
        BY <1>a, <4>1
      <4>3. QED
        BY <3>3, <3>4, <4>2, Promotion
    <3>13. cur_batch' # b
      <4>1. CASE i < n
        <5>1. i + 1 \in 1..n /\ i + 1 # i
          BY <1>a, <4>1
        <5>2. QED
          BY <3>4, <3>7, <4>1, <5>1 DEF NextCurBatch
      <4>2. CASE ~(i < n)
        BY <3>4, <4>2 DEF NextCurBatch
      <4>3. QED
        BY <4>1, <4>2
    <3>14. ASSUME NEW l \in 1..n
           PROVE  /\ batches[l] \in InList'
                  /\ state'[batches[l]] = "PROCESSING" <=> batches[l] = cur_batch'
                  /\ cur_batch' = NoBatch => state'[batches[l]] # "PENDING"
      <4>1. batches[l] \in InList'
        BY <1>a, <1>b, <3>9 DEF InList, Listed
      <4>2. CASE l = i
        BY <3>3, <3>6, <3>13, <4>1, <4>2
      <4>3. CASE l < i \/ l = i + 1
        <5>1. l # i
          BY <1>a, <4>3
        <5>2. QED
          BY <1>a, <3>11, <3>12, <4>1, <4>3, <5>1
      <4>4. CASE l > i + 1
        <5>1. i + 1 \in 1..n /\ i + 1 # i /\ l # i /\ l # i + 1
          BY <1>a, <4>4
        <5>2. cur_batch' = batches[i + 1] /\ batches[i + 1] # NoBatch
          BY <1>a, <3>12, <5>1
        <5>3. QED
          BY <3>11, <3>12, <4>1, <4>4, <5>1, <5>2
      <4>5. QED
        BY <1>a, <4>2, <4>3, <4>4
    <3>15. ASSUME NEW j \in 1..n, NEW k \in 1..n, j < k
           PROVE  \/ state'[batches[j]] \in {"FINISHING", "FINISHED"}
                  \/ state'[batches[k]] = "PENDING"
      <4>1. CASE j = i
        BY <3>3, <3>6, <4>1
      <4>2. CASE j < i
        BY <3>11, <4>2
      <4>3. CASE j > i
        <5>1. k > i + 1
          BY <1>a, <3>15, <4>3
        <5>2. QED
          BY <3>11, <5>1
      <4>4. QED
        BY <1>a, <4>1, <4>2, <4>3
    <3>16. \A c \in InList' : \E j \in 1..n : batches[j] = c
      <4>1. InList' = InList
        BY <3>9 DEF InList, Listed
      <4>2. QED
        BY <4>1 DEF QueueInOrder
    <3>17. \A j, k \in 1..n : j # k => batches[j] # batches[k]
      BY DEF QueueInOrder
    <3>18. /\ \A j, k \in 1..Len(batches') : j # k => batches'[j] # batches'[k]
           /\ \A c \in InList' : \E j \in 1..Len(batches') : batches'[j] = c
      BY <3>4, <3>16, <3>17
    <3>19. \A l \in 1..Len(batches') :
             /\ batches'[l] \in InList'
             /\ state'[batches'[l]] = "PROCESSING" <=> batches'[l] = cur_batch'
             /\ cur_batch' = NoBatch => state'[batches'[l]] # "PENDING"
      BY <3>4, <3>14
    <3>20. \A j, k \in 1..Len(batches') :
             j < k => \/ state'[batches'[j]] \in {"FINISHING", "FINISHED"}
                      \/ state'[batches'[k]] = "PENDING"
      BY <3>4, <3>15
    <3>21. QED
      BY <3>18, <3>19, <3>20 DEF QueueInOrder
  <2>3. QED
    BY <2>1, <2>2
<1>5. ASSUME NEW w \in Slot, NEW failed \in BOOLEAN, FinishBatchTask(w, failed)
      PROVE  QueueInOrder'
  <2>1. job[w].batch \in Batch /\ pc[w] = "batch" /\ state[job[w].batch] # "CANCELED"
    BY <1>5 DEF FinishBatchTask, At, TypeInv, TypeOK, ThreadTypes
  <2>2. PICK b \in Batch : b = job[w].batch
    BY <2>1
  <2>3. UNCHANGED <<batches, cur_batch>>
    BY <1>5 DEF FinishBatchTask
  <2>4. CASE AllDone(b)
    <3>1. state' = [state EXCEPT ![b] = "FINISHED"]
      BY <1>5, <2>2, <2>4 DEF FinishBatchTask
    <3>2. state[b] = "FINISHING"
      BY <2>1, <2>2, <2>4, LastTaskFinishing
    <3>3. state'[b] = "FINISHED" /\ \A c \in Batch : c # b => state'[c] = state[c]
      BY <1>0, <3>1
    <3>4. InList' = InList
      BY <3>2, <3>3 DEF InList, Open
    <3>5. \A j \in 1..Len(batches) :
            /\ state'[batches[j]] = "PROCESSING" <=> state[batches[j]] = "PROCESSING"
            /\ state'[batches[j]] = "PENDING" <=> state[batches[j]] = "PENDING"
            /\ state[batches[j]] \in {"FINISHING", "FINISHED"} =>
                 state'[batches[j]] \in {"FINISHING", "FINISHED"}
      BY <1>a, <3>2, <3>3
    <3>6. QED
      BY <2>3, <3>4, <3>5 DEF QueueInOrder
  <2>5. CASE ~AllDone(b)
    BY <1>5, <2>2, <2>5, QuietOrder DEF FinishBatchTask
  <2>6. QED
    BY <2>4, <2>5
<1>6. ASSUME NEW w \in Slot,
             \/ TakeFront(w) \/ FinishFront(w) \/ Nap(w) \/ WakeFromNap(w) \/ DropCanceled(w)
             \/ TouchFreedBatch(w) \/ ReportFinished(w) \/ Wait(w) \/ WakeUp(w) \/ IdleExit(w)
      PROVE  QueueInOrder'
  <2>1. UNCHANGED <<batches, cur_batch, state>>
    BY <1>6 DEF TakeFront, FinishFront, Nap, WakeFromNap, DropCanceled, TouchFreedBatch,
       ReportFinished, Wait, WakeUp, IdleExit, batchVars
  <2>2. QED
    BY <2>1, QuietOrder
<1>7. CASE FreePendingFrees \/ UNCHANGED vars
  BY <1>7, QuietOrder DEF FreePendingFrees, vars, batchVars
<1>8. QED
  BY <1>1, <1>2, <1>3, <1>4, <1>5, <1>6, <1>7 DEF Next, Worker

-----------------------------------------------------------------------------
(* The counters *)

LEMMA Sizes ==
  /\ IsFiniteSet(Running) /\ Cardinality(Running) \in Nat
  /\ IsFiniteSet(Reporting) /\ Cardinality(Reporting) \in Nat
  /\ IsFiniteSet(Unfinished) /\ Cardinality(Unfinished) \in Nat
  /\ IsFiniteSet(InList) /\ Cardinality(InList) \in Nat
<1>1. Running \subseteq Slot /\ Reporting \subseteq Slot /\ IsFiniteSet(Slot)
  BY FS_Interval DEF Running, Reporting, Slot
<1>2. Unfinished \subseteq Batch /\ InList \subseteq Batch
  BY DEF Unfinished, InList
<1>3. QED
  BY <1>1, <1>2, FS_Subset, FS_CardinalityType

\* Creating threads counts every slot it fills, and takes no thread away from its report.
LEMMA CreateCounts ==
  ASSUME ThreadTypes, dl_threads_count = Cardinality(Running), NEW n, CreateAndBroadcast(n)
  PROVE  dl_threads_count' = Cardinality(Running') /\ Reporting' = Reporting
<1>0. pc \in [Slot -> {"none", "loop", "front", "batch", "report", "nap", "wait"}]
  BY DEF ThreadTypes
<1>1. \A w \in Slot : pc'[w] = IF w \in NewSlots(n) \/ pc[w] = "wait" THEN "loop" ELSE pc[w]
  BY DEF CreateAndBroadcast
<1>2. NewSlots(n) \subseteq Slot /\ NewSlots(n) \cap Running = {}
  BY DEF NewSlots, FreeSlots, Running
<1>3. Running' = Running \cup NewSlots(n)
  BY <1>0, <1>1, <1>2 DEF Running
<1>4. Reporting' = Reporting
  BY <1>0, <1>1 DEF Reporting, NewSlots, FreeSlots
<1>5. IsFiniteSet(NewSlots(n)) /\ Cardinality(NewSlots(n)) \in Nat
  BY NewSlotsFree, FS_CardinalityType
<1>6. Cardinality(Running \cup NewSlots(n)) = Cardinality(Running) + Cardinality(NewSlots(n))
  <2>1. Cardinality(Running \cap NewSlots(n)) = 0
    BY <1>2, FS_EmptySet
  <2>2. Cardinality(Running \cup NewSlots(n)) =
          Cardinality(Running) + Cardinality(NewSlots(n)) - Cardinality(Running \cap NewSlots(n))
    BY <1>5, Sizes, FS_Union
  <2>3. QED
    BY <1>5, <2>1, <2>2, Sizes
<1>7. QED
  BY <1>3, <1>4, <1>6 DEF CreateAndBroadcast

\* A step that leaves the counters and what they count alone.
LEMMA QuietCounters ==
  ASSUME CountersAgree,
         UNCHANGED <<state, batch_count, unfinished_batch_count, dl_threads_count,
                     num_downloading_batches>>,
         \A v \in Slot : pc'[v] = "none" <=> pc[v] = "none",
         \A v \in Slot : pc'[v] = "report" <=> pc[v] = "report"
  PROVE  CountersAgree'
<1>1. Running' = Running /\ Reporting' = Reporting /\ Unfinished' = Unfinished /\ InList' = InList
  BY DEF Running, Reporting, Unfinished, InList
<1>2. QED
  BY <1>1 DEF CountersAgree

LEMMA CountersInit == Init => CountersAgree
<1> SUFFICES ASSUME Init PROVE CountersAgree
  OBVIOUS
<1>1. Running = {} /\ Reporting = {} /\ Unfinished = {} /\ InList = {}
  BY DEF Init, Running, Reporting, Unfinished, InList, Open
<1>2. QED
  BY <1>1, FS_EmptySet DEF Init, CountersAgree

LEMMA CountersNext ==
  ASSUME TypeInv, QueueInOrder, TaskAccounting, CountersAgree, [Next]_vars
  PROVE  CountersAgree'
<1>0. /\ state \in [Batch -> BatchStates]
      /\ pc \in [Slot -> {"none", "loop", "front", "batch", "report", "nap", "wait"}]
      /\ ThreadTypes
      /\ batches \in Seq(Batch)
      /\ Len(batches) \in Nat
      /\ batch_count \in Int /\ unfinished_batch_count \in Int /\ dl_threads_count \in Int
      /\ num_downloading_batches \in Int
  <2>1. batches \in Seq(Batch)
    BY DEF TypeInv, TypeOK, BatchTypes
  <2>2. QED
    BY <2>1 DEF TypeInv, TypeOK, BatchTypes, ThreadTypes, BatchStates
<1>1. ASSUME NEW b \in Batch, BatchDownload(b)
      PROVE  CountersAgree'
  <2>1. PICK n : CreateAndBroadcast(n)
    BY <1>1 DEF BatchDownload
  <2>2. dl_threads_count' = Cardinality(Running') /\ Reporting' = Reporting
    BY <1>0, <2>1, CreateCounts DEF CountersAgree
  <2>3. state[b] = "NEW" /\ state' = [state EXCEPT ![b] = IF cur_batch = NoBatch THEN "PROCESSING"
                                                                           ELSE "PENDING"]
    BY <1>1 DEF BatchDownload
  <2>4. /\ Unfinished' = Unfinished \cup {b} /\ b \notin Unfinished
        /\ InList' = InList \cup {b} /\ b \notin InList
    BY <1>0, <2>3 DEF Unfinished, InList, Open
  <2>5. /\ Cardinality(Unfinished') = Cardinality(Unfinished) + 1
        /\ Cardinality(InList') = Cardinality(InList) + 1
    BY <2>4, Sizes, FS_AddElement
  <2>6. /\ num_downloading_batches' = num_downloading_batches + 1
        /\ batch_count' = batch_count + 1
        /\ unfinished_batch_count' = unfinished_batch_count + 1
    BY <1>1 DEF BatchDownload
  <2>7. QED
    BY <1>0, <2>2, <2>5, <2>6, Sizes DEF CountersAgree
<1>2. ASSUME NEW t \in Tile, AddFront(t)
      PROVE  CountersAgree'
  <2>1. PICK n : CreateAndBroadcast(n)
    BY <1>2 DEF AddFront
  <2>2. dl_threads_count' = Cardinality(Running') /\ Reporting' = Reporting
    BY <1>0, <2>1, CreateCounts DEF CountersAgree
  <2>3. UNCHANGED <<state, batch_count, unfinished_batch_count, num_downloading_batches>>
    BY <1>2 DEF AddFront, batchVars
  <2>4. Unfinished' = Unfinished /\ InList' = InList
    BY <2>3 DEF Unfinished, InList
  <2>5. QED
    BY <2>2, <2>3, <2>4 DEF CountersAgree
<1>3. ASSUME NEW i \in 1..Len(batches), CancelBatch(i)
      PROVE  CountersAgree'
  <2>1. PICK b \in Batch : b = batches[i]
    BY <1>0
  <2>2. /\ state'[b] = "CANCELED"
        /\ \A c \in Batch : c # b => (state'[c] \in Listed <=> state[c] \in Listed)
        /\ \A c \in Batch : c # b => (state'[c] \in Open <=> state[c] \in Open)
    <3>1. CASE b = cur_batch
      <4>1. state' = [StartNext(state, i) EXCEPT ![b] = "CANCELED"]
        BY <1>3, <2>1, <3>1 DEF CancelBatch
      <4>2. /\ StartNext(state, i) \in [Batch -> BatchStates]
            /\ \A c \in Batch : StartNext(state, i)[c] \in Listed <=> state[c] \in Listed
        BY <2>1, <3>1, Promotion
      <4>3. \A c \in Batch : c # b => (StartNext(state, i)[c] \in Open <=> state[c] \in Open)
        BY <2>1, <3>1, NextIsPending DEF Open
      <4>4. QED
        BY <4>1, <4>2, <4>3
    <3>2. CASE b # cur_batch
      <4>1. state' = [state EXCEPT ![b] = "CANCELED"]
        BY <1>3, <2>1, <3>2 DEF CancelBatch
      <4>2. QED
        BY <1>0, <4>1
    <3>3. QED
      BY <3>1, <3>2
  <2>3. b \in InList
    BY <2>1 DEF QueueInOrder
  <2>4. InList' = InList \ {b} /\ Unfinished' = Unfinished \ {b}
    BY <1>0, <2>2 DEF InList, Unfinished, Listed, Open
  <2>5. /\ Cardinality(InList') = Cardinality(InList) - 1
        /\ Cardinality(Unfinished') = IF b \in Unfinished THEN Cardinality(Unfinished) - 1
                                                          ELSE Cardinality(Unfinished)
    BY <2>3, <2>4, Sizes, FS_RemoveElement
  <2>6. b \in Unfinished <=> CountsAsUnfinished(b)
    BY <2>3 DEF InList, Unfinished, CountsAsUnfinished, Open
  <2>7. /\ batch_count' = batch_count - 1
        /\ unfinished_batch_count' =
             unfinished_batch_count - (IF CountsAsUnfinished(b) THEN 1 ELSE 0)
        /\ num_downloading_batches' =
             num_downloading_batches - (IF CountsAsUnfinished(b) THEN 1 ELSE 0)
    BY <1>3, <2>1 DEF CancelBatch
  <2>8. Running' = Running /\ Reporting' = Reporting /\ dl_threads_count' = dl_threads_count
    BY <1>3 DEF CancelBatch, threadVars, Running, Reporting
  <2>9. CASE b \in Unfinished
    BY <1>0, <2>5, <2>6, <2>7, <2>8, <2>9, Sizes DEF CountersAgree
  <2>10. CASE b \notin Unfinished
    BY <1>0, <2>5, <2>6, <2>7, <2>8, <2>10, Sizes DEF CountersAgree
  <2>11. QED
    BY <2>9, <2>10
<1>4. ASSUME NEW w \in Slot, TakeBatchTask(w)
      PROVE  CountersAgree'
  <2>1. /\ pc[w] = "loop"
        /\ pc' = [pc EXCEPT ![w] = "batch"]
        /\ UNCHANGED <<batch_count, unfinished_batch_count, dl_threads_count,
                       num_downloading_batches>>
    BY <1>4 DEF TakeBatchTask, At, Goto
  <2>2. Running' = Running /\ Reporting' = Reporting
    BY <1>0, <2>1 DEF Running, Reporting
  <2>3. CASE ~LastTaskTaken(cur_batch)
    <3>1. state' = state
      BY <1>4, <2>3 DEF TakeBatchTask
    <3>2. Unfinished' = Unfinished /\ InList' = InList
      BY <3>1 DEF Unfinished, InList
    <3>3. QED
      BY <2>1, <2>2, <3>2 DEF CountersAgree
  <2>4. CASE LastTaskTaken(cur_batch)
    <3>1. cur_batch \in Batch /\ \E k \in 1..Len(batches) : batches[k] = cur_batch
      BY <1>4 DEF TakeBatchTask, TypeInv, CurListed, TypeOK, BatchTypes
    <3>2. PICK b \in Batch, i \in 1..Len(batches) :
            /\ b = cur_batch
            /\ i = CHOOSE k \in 1..Len(batches) : batches[k] = cur_batch
      BY <3>1
    <3>3. batches[i] = b /\ batches[i] = cur_batch
      BY <3>1, <3>2
    <3>4. state' = [StartNext(state, i) EXCEPT ![b] = "FINISHING"]
      BY <1>4, <2>4, <3>2 DEF TakeBatchTask
    <3>5. StartNext(state, i) \in [Batch -> BatchStates]
      BY <3>3, Promotion
    <3>6. \A c \in Batch : c # b => \/ state'[c] = state[c]
                                    \/ state[c] = "PENDING" /\ state'[c] = "PROCESSING"
      BY <3>3, <3>4, <3>5, NextIsPending
    <3>7. state[b] = "PROCESSING" /\ state'[b] = "FINISHING"
      BY <3>3, <3>4, <3>5 DEF QueueInOrder
    <3>8. Unfinished' = Unfinished /\ InList' = InList
      <4>1. \A c \in Batch : /\ state'[c] \in Open <=> state[c] \in Open
                             /\ state'[c] = "FINISHED" <=> state[c] = "FINISHED"
        BY <3>6, <3>7 DEF Open
      <4>2. QED
        BY <4>1 DEF Unfinished, InList
    <3>9. QED
      BY <2>1, <2>2, <3>8 DEF CountersAgree
  <2>5. QED
    BY <2>3, <2>4
<1>5. ASSUME NEW w \in Slot, NEW failed \in BOOLEAN, FinishBatchTask(w, failed)
      PROVE  CountersAgree'
  <2>1. /\ job[w].batch \in Batch /\ pc[w] = "batch" /\ state[job[w].batch] # "CANCELED"
        /\ UNCHANGED <<batch_count, dl_threads_count, num_downloading_batches>>
    BY <1>0, <1>5 DEF FinishBatchTask, At, ThreadTypes
  <2>2. PICK b \in Batch : b = job[w].batch
    BY <2>1
  <2>3. CASE AllDone(b)
    <3>1. /\ state' = [state EXCEPT ![b] = "FINISHED"]
          /\ unfinished_batch_count' = unfinished_batch_count - 1
          /\ pc' = [pc EXCEPT ![w] = "report"]
      BY <1>5, <2>2, <2>3 DEF FinishBatchTask, Goto
    <3>2. state[b] = "FINISHING"
      BY <2>1, <2>2, <2>3, LastTaskFinishing
    <3>3. /\ Unfinished' = Unfinished \ {b} /\ b \in Unfinished
          /\ InList' = InList
      BY <1>0, <3>1, <3>2 DEF Unfinished, InList, Open
    <3>4. /\ Running' = Running
          /\ Reporting' = Reporting \cup {w} /\ w \notin Reporting
      BY <1>0, <2>1, <3>1 DEF Running, Reporting
    <3>5. /\ Cardinality(Unfinished') = Cardinality(Unfinished) - 1
          /\ Cardinality(Reporting') = Cardinality(Reporting) + 1
      BY <3>3, <3>4, Sizes, FS_AddElement, FS_RemoveElement
    <3>6. QED
      BY <1>0, <2>1, <3>1, <3>3, <3>4, <3>5, Sizes DEF CountersAgree
  <2>4. CASE ~AllDone(b)
    <3>1. /\ UNCHANGED <<state, unfinished_batch_count>>
          /\ pc' = [pc EXCEPT ![w] = "loop"]
      BY <1>5, <2>2, <2>4 DEF FinishBatchTask, Goto
    <3>2. QED
      BY <1>0, <2>1, <3>1, QuietCounters
  <2>5. QED
    BY <2>3, <2>4
<1>6. ASSUME NEW w \in Slot, ReportFinished(w)
      PROVE  CountersAgree'
  <2>1. /\ pc[w] = "report" /\ pc' = [pc EXCEPT ![w] = "loop"]
        /\ num_downloading_batches' = num_downloading_batches - 1
        /\ UNCHANGED <<state, batch_count, unfinished_batch_count, dl_threads_count>>
    BY <1>6 DEF ReportFinished, At, Goto, batchVars
  <2>2. /\ Running' = Running /\ Unfinished' = Unfinished /\ InList' = InList
        /\ Reporting' = Reporting \ {w} /\ w \in Reporting
    BY <1>0, <2>1 DEF Running, Reporting, Unfinished, InList
  <2>3. Cardinality(Reporting') = Cardinality(Reporting) - 1
    BY <2>2, Sizes, FS_RemoveElement
  <2>4. QED
    BY <1>0, <2>1, <2>2, <2>3, Sizes DEF CountersAgree
<1>7. ASSUME NEW w \in Slot, IdleExit(w)
      PROVE  CountersAgree'
  <2>1. /\ pc[w] = "wait" /\ pc' = [pc EXCEPT ![w] = "none"]
        /\ dl_threads_count' = dl_threads_count - 1
        /\ UNCHANGED <<state, batch_count, unfinished_batch_count, num_downloading_batches>>
    BY <1>7 DEF IdleExit, At, Goto, batchVars
  <2>2. /\ Running' = Running \ {w} /\ w \in Running /\ Unfinished' = Unfinished /\ InList' = InList
        /\ Reporting' = Reporting
    BY <1>0, <2>1 DEF Running, Reporting, Unfinished, InList
  <2>3. Cardinality(Running') = Cardinality(Running) - 1
    BY <2>2, Sizes, FS_RemoveElement
  <2>4. QED
    BY <1>0, <2>1, <2>2, <2>3, Sizes DEF CountersAgree
<1>8. ASSUME NEW w \in Slot,
             \/ TakeFront(w) \/ FinishFront(w) \/ Nap(w) \/ WakeFromNap(w) \/ DropCanceled(w)
             \/ Wait(w) \/ WakeUp(w)
      PROVE  CountersAgree'
  <2>1. /\ UNCHANGED <<state, batch_count, unfinished_batch_count, dl_threads_count,
                       num_downloading_batches>>
        /\ pc[w] \notin {"none", "report"}
        /\ \E l \in {"loop", "front", "nap", "wait"} : pc' = [pc EXCEPT ![w] = l]
    BY <1>8 DEF TakeFront, FinishFront, Nap, WakeFromNap, DropCanceled, Wait, WakeUp, At, Goto,
       batchVars
  <2>2. QED
    BY <1>0, <2>1, QuietCounters
<1>9. ASSUME \/ \E w \in Slot : TouchFreedBatch(w)
             \/ FreePendingFrees
             \/ UNCHANGED vars
      PROVE  CountersAgree'
  <2>1. UNCHANGED <<state, batch_count, unfinished_batch_count, dl_threads_count, pc,
                    num_downloading_batches>>
    BY <1>9 DEF TouchFreedBatch, FreePendingFrees, vars, batchVars, threadVars
  <2>2. QED
    BY <2>1, QuietCounters
<1>10. QED
  BY <1>1, <1>2, <1>3, <1>4, <1>5, <1>6, <1>7, <1>8, <1>9 DEF Next, Worker

-----------------------------------------------------------------------------
(* Work is attended *)

\* Whoever creates a thread, or finds one to wake, leaves a thread up.
LEMMA CreateAttends ==
  ASSUME ThreadTypes, NEW n, CreateAndBroadcast(n),
         \/ n \in Nat \ {0}
         \/ CreateMayFail
         \/ Running # {}
  PROVE  \/ \E w \in Slot : pc'[w] \notin {"none", "wait"}
         \/ CreateMayFail /\ Running' = {}
<1>0. pc \in [Slot -> {"none", "loop", "front", "batch", "report", "nap", "wait"}]
  BY DEF ThreadTypes
<1>1. \A w \in Slot : pc'[w] = IF w \in NewSlots(n) \/ pc[w] = "wait" THEN "loop" ELSE pc[w]
  BY DEF CreateAndBroadcast
<1>2. CASE Running # {}
  BY <1>0, <1>1, <1>2 DEF Running
<1>3. CASE NewSlots(n) # {}
  BY <1>0, <1>1, <1>3 DEF NewSlots, FreeSlots
<1>4. CASE Running = {} /\ NewSlots(n) = {}
  <2>1. Running' = {}
    BY <1>0, <1>1, <1>4 DEF Running
  <2>2. CASE n \in Nat \ {0}
    <3>1. 0 \in FreeSlots
      BY <1>4 DEF FreeSlots, Running, Slot
    <3>2. {v \in FreeSlots : v < 0} = {}
      BY DEF FreeSlots, Slot
    <3>3. Cardinality({v \in FreeSlots : v < 0}) < n
      BY <2>2, <3>2, FS_EmptySet
    <3>4. 0 \in NewSlots(n)
      BY <3>1, <3>3 DEF NewSlots
    <3>5. QED
      BY <1>4, <3>4
  <2>3. QED
    BY <1>4, <2>1, <2>2
<1>5. QED
  BY <1>2, <1>3, <1>4

\* With no thread at all, a batch or a request always asks for one.
LEMMA AsksForThread ==
  ASSUME CountersAgree, Running = {}
  PROVE  /\ \A b \in Batch : WantedThreads(b) \in Nat \ {0}
         /\ front_task_count \in Nat => WantsFrontThread
<1>1. dl_threads_count = 0
  BY FS_EmptySet DEF CountersAgree
<1>2. ThreadLimit \in Nat \ {0} /\ TasksPerThread \in Nat \ {0} /\ FrontPerThread \in Nat \ {0}
  OBVIOUS
<1>3. ASSUME NEW b \in Batch
      PROVE  WantedThreads(b) \in Nat \ {0}
  <2>1. Total[b] \div TasksPerThread \in Int
    <3>1. Total[b] \in Nat \ {0}
      OBVIOUS
    <3>2. QED
      BY <1>2, <3>1
  <2>2. QED
    BY <1>1, <1>2, <2>1 DEF WantedThreads, Least, Greatest
<1>4. front_task_count \in Nat => WantsFrontThread
  BY <1>1, <1>2 DEF WantsFrontThread
<1>5. QED
  BY <1>3, <1>4

LEMMA AttendedInit == Init => WorkIsAttended
BY DEF Init, WorkIsAttended, HasWork

LEMMA AttendedNext ==
  ASSUME TypeInv, CountersAgree, WorkIsAttended, [Next]_vars
  PROVE  WorkIsAttended'
<1>0. /\ pc \in [Slot -> {"none", "loop", "front", "batch", "report", "nap", "wait"}]
      /\ ThreadTypes
      /\ unfinished_batch_count \in Int
      /\ front_task_count \in Nat
  BY DEF TypeInv, TypeOK, BatchTypes, ThreadTypes, FrontTypes
<1>1. ASSUME NEW b \in Batch, BatchDownload(b)
      PROVE  WorkIsAttended'
  <2>1. PICK n \in Created(WantedThreads(b)) : CreateAndBroadcast(n)
    BY <1>1 DEF BatchDownload
  <2>2. n \in Nat \ {0} \/ CreateMayFail \/ Running # {}
    BY <2>1, AsksForThread DEF Created
  <2>3. QED
    BY <1>0, <2>1, <2>2, CreateAttends DEF WorkIsAttended
<1>2. ASSUME NEW t \in Tile, AddFront(t)
      PROVE  WorkIsAttended'
  <2>1. PICK n \in Created(IF WantsFrontThread THEN 1 ELSE 0) : CreateAndBroadcast(n)
    BY <1>2 DEF AddFront
  <2>2. n \in Nat \ {0} \/ CreateMayFail \/ Running # {}
    BY <1>0, <2>1, AsksForThread DEF Created
  <2>3. QED
    BY <1>0, <2>1, <2>2, CreateAttends DEF WorkIsAttended
<1>3. ASSUME NEW i \in 1..Len(batches), CancelBatch(i)
      PROVE  WorkIsAttended'
  <2>1. UNCHANGED <<pc, front_task_count>> /\ unfinished_batch_count' <= unfinished_batch_count
    BY <1>0, <1>3 DEF CancelBatch, frontVars, threadVars
  <2>2. HasWork' => HasWork
    BY <1>0, <1>3, <2>1 DEF HasWork, CancelBatch
  <2>3. QED
    BY <2>1, <2>2 DEF WorkIsAttended, Running
<1>4. ASSUME NEW w \in Slot,
             \/ TakeFront(w) \/ FinishFront(w) \/ Nap(w) \/ WakeFromNap(w) \/ TakeBatchTask(w)
             \/ DropCanceled(w) \/ (\E failed \in BOOLEAN : FinishBatchTask(w, failed))
             \/ ReportFinished(w) \/ WakeUp(w)
      PROVE  WorkIsAttended'
  <2>1. \E l \in {"loop", "front", "batch", "report", "nap"} : pc' = [pc EXCEPT ![w] = l]
    BY <1>4 DEF TakeFront, FinishFront, Nap, WakeFromNap, TakeBatchTask, DropCanceled,
       FinishBatchTask, ReportFinished, WakeUp, Goto
  <2>2. pc'[w] \notin {"none", "wait"}
    BY <1>0, <2>1
  <2>3. QED
    BY <2>2 DEF WorkIsAttended
<1>5. ASSUME NEW w \in Slot, Wait(w) \/ IdleExit(w)
      PROVE  WorkIsAttended'
  <2>1. ~HasWork /\ UNCHANGED <<front_task_count, unfinished_batch_count>>
    BY <1>5 DEF Wait, IdleExit, frontVars, batchVars
  <2>2. QED
    BY <2>1 DEF WorkIsAttended, HasWork
<1>6. ASSUME \/ \E w \in Slot : TouchFreedBatch(w)
             \/ FreePendingFrees
             \/ UNCHANGED vars
      PROVE  WorkIsAttended'
  <2>1. UNCHANGED <<pc, front_task_count, unfinished_batch_count>>
    BY <1>6 DEF TouchFreedBatch, FreePendingFrees, vars, batchVars, frontVars, threadVars
  <2>2. QED
    BY <2>1 DEF WorkIsAttended, HasWork, Running
<1>7. QED
  BY <1>1, <1>2, <1>3, <1>4, <1>5, <1>6 DEF Next, Worker

-----------------------------------------------------------------------------
(* The refinement of BatchJobs *)

\* Equal phases, hand-outs and busy tiles of every batch are an equal abstract state.
LEMMA SameJobs ==
  ASSUME batches' = batches,
         \A b \in Batch : Phase(b)' = Phase(b) /\ Taken(b)' = Taken(b) /\ Busy(b)' = Busy(b)
  PROVE  UNCHANGED Jobs!jobVars
BY DEF Jobs!jobVars

\* A step that moves no batch on and no thread into or out of a download stutters.
LEMMA QuietJobs ==
  ASSUME UNCHANGED <<batches, state, cur_task_id, job>>,
         \A v \in Slot : pc'[v] = "batch" <=> pc[v] = "batch"
  PROVE  UNCHANGED Jobs!jobVars
<1>1. \A b \in Batch : InFlight(b)' = InFlight(b)
  BY DEF InFlight
<1>2. \A b \in Batch : Phase(b)' = Phase(b) /\ Taken(b)' = Taken(b)
  BY DEF Phase, Taken
<1>3. ASSUME NEW b \in Batch PROVE Busy(b)' = Busy(b)
  BY <1>1 DEF Busy
<1>4. QED
  BY <1>2, <1>3, SameJobs

LEMMA JobsInit == Init => Jobs!Init
<1> SUFFICES ASSUME Init PROVE Jobs!Init
  OBVIOUS
<1>1. ASSUME NEW b \in Batch
      PROVE  Phase(b) = "new" /\ Taken(b) = 0 /\ Busy(b) = {}
  <2>1. InFlight(b) = {}
    BY DEF Init, InFlight
  <2>2. state[b] = "NEW" /\ cur_task_id[b] = 0
    BY DEF Init
  <2>3. Busy(b) = {}
    BY <2>1, <2>2 DEF Busy
  <2>4. QED
    BY <2>2, <2>3 DEF Phase, Open, Taken
<1>2. QED
  BY <1>1 DEF Jobs!Init, Init

\* batch_download submits the batch.
LEMMA SubmitStep ==
  ASSUME TypeInv, NEW b \in Batch, BatchDownload(b)
  PROVE  Jobs!Submit(b)
<1>0. /\ state \in [Batch -> BatchStates]
      /\ pc \in [Slot -> {"none", "loop", "front", "batch", "report", "nap", "wait"}]
  BY DEF TypeInv, TypeOK, BatchTypes, ThreadTypes, BatchStates
<1>1. PICK n : CreateAndBroadcast(n)
  BY DEF BatchDownload
<1>2. job' = job /\ \A v \in Slot : pc'[v] = "batch" <=> pc[v] = "batch"
  BY <1>0, <1>1 DEF CreateAndBroadcast, NewSlots, FreeSlots
<1>3. \A c \in Batch : InFlight(c)' = InFlight(c)
  BY <1>2 DEF InFlight
<1>4. /\ state[b] = "NEW" /\ state'[b] \in {"PROCESSING", "PENDING"}
      /\ \A c \in Batch : c # b => state'[c] = state[c]
      /\ cur_task_id' = cur_task_id
      /\ batches' = Append(batches, b)
  BY <1>0 DEF BatchDownload
<1>5. /\ Phase(b) = "new" /\ Phase(b)' = "queued"
      /\ \A c \in Batch : c # b => Phase(c)' = Phase(c)
  BY <1>4 DEF Phase, Open
<1>6. \A c \in Batch : Taken(c)' = Taken(c)
  BY <1>4 DEF Taken
<1>7. ASSUME NEW c \in Batch PROVE Busy(c)' = Busy(c)
  <2>1. state'[c] = "CANCELED" <=> state[c] = "CANCELED"
    BY <1>4
  <2>2. QED
    BY <1>2, <1>3, <2>1 DEF Busy
<1>8. QED
  BY <1>4, <1>5, <1>6, <1>7 DEF Jobs!Submit

\* download_cancel_batch cancels it: what its threads still bring back no longer counts.
LEMMA CancelStep ==
  ASSUME TypeInv, QueueInOrder, TaskAccounting, NEW i \in 1..Len(batches), CancelBatch(i)
  PROVE  Jobs!Cancel(i)
<1>0. /\ state \in [Batch -> BatchStates]
      /\ cur_task_id \in [Batch -> Int]
      /\ batches \in Seq(Batch)
  BY DEF TypeInv, TypeOK, BatchTypes, BatchStates
<1>1. PICK b \in Batch : b = batches[i]
  BY <1>0
<1>2. /\ UNCHANGED <<pc, job>>
      /\ \A c \in Batch : InFlight(c)' = InFlight(c)
      /\ batches' = RemoveAt(batches, i)
  BY DEF CancelBatch, threadVars, InFlight
<1>3. /\ state'[b] = "CANCELED"
      /\ \A c \in Batch : cur_task_id'[c] = cur_task_id[c]
      /\ \A c \in Batch : c # b => \/ state'[c] = state[c]
                                   \/ state[c] = "PENDING" /\ state'[c] = "PROCESSING"
  <2>1. CASE b = cur_batch
    <3>1. /\ state' = [StartNext(state, i) EXCEPT ![b] = "CANCELED"]
          /\ cur_task_id' = RestartNext(i)
      BY <1>1, <2>1 DEF CancelBatch
    <3>2. StartNext(state, i) \in [Batch -> BatchStates]
      BY <1>1, <2>1, Promotion
    <3>3. RestartNext(i)[b] = cur_task_id[b]
      <4>1. CASE i < Len(batches)
        <5>1. i + 1 \in 1..Len(batches) /\ i + 1 # i
          BY <1>0, <4>1
        <5>2. batches[i + 1] # b
          BY <1>1, <5>1 DEF QueueInOrder
        <5>3. QED
          BY <1>0, <5>2 DEF RestartNext
      <4>2. CASE ~(i < Len(batches))
        BY <4>2 DEF RestartNext
      <4>3. QED
        BY <4>1, <4>2
    <3>4. QED
      BY <1>1, <2>1, <3>1, <3>2, <3>3, NextIsPending
  <2>2. CASE b # cur_batch
    <3>1. state' = [state EXCEPT ![b] = "CANCELED"] /\ cur_task_id' = cur_task_id
      BY <1>1, <2>2 DEF CancelBatch
    <3>2. QED
      BY <1>0, <3>1
  <2>3. QED
    BY <2>1, <2>2
<1>4. Phase(b)' = "canceled" /\ \A c \in Batch : c # b => Phase(c)' = Phase(c)
  BY <1>3 DEF Phase, Open
<1>5. \A c \in Batch : Taken(c)' = Taken(c)
  BY <1>3 DEF Taken
<1>6. Busy(b)' = {}
  BY <1>3 DEF Busy
<1>7. ASSUME NEW c \in Batch, c # b PROVE Busy(c)' = Busy(c)
  <2>1. state'[c] = "CANCELED" <=> state[c] = "CANCELED"
    BY <1>3, <1>7
  <2>2. QED
    BY <1>2, <2>1 DEF Busy
<1>8. Jobs!RemoveAt(batches, i) = RemoveAt(batches, i)
  BY DEF RemoveAt, Jobs!RemoveAt
<1>9. QED
  BY <1>1, <1>2, <1>4, <1>5, <1>6, <1>7, <1>8 DEF Jobs!Cancel


\* download_next_batch hands out the next tile of the first batch that still has one.
LEMMA HandOutStep ==
  ASSUME TypeInv, QueueInOrder, TaskAccounting, NEW w \in Slot, TakeBatchTask(w)
  PROVE  \E i \in 1..Len(batches) : Jobs!HandOut(i)
<1>0. /\ state \in [Batch -> BatchStates]
      /\ cur_task_id \in [Batch -> Int]
      /\ batches \in Seq(Batch)
      /\ pc \in [Slot -> {"none", "loop", "front", "batch", "report", "nap", "wait"}]
      /\ job \in [Slot -> [batch : Batch \cup {NoBatch}, task : Int]]
  BY DEF TypeInv, TypeOK, BatchTypes, ThreadTypes, BatchStates
<1>1. cur_batch \in Batch /\ \E k \in 1..Len(batches) : batches[k] = cur_batch
  BY DEF TakeBatchTask, TypeInv, CurListed, TypeOK, BatchTypes
<1>2. PICK b \in Batch, i \in 1..Len(batches) :
        /\ b = cur_batch
        /\ i = CHOOSE k \in 1..Len(batches) : batches[k] = cur_batch
  BY <1>1
<1>3. batches[i] = b /\ batches[i] = cur_batch
  BY <1>1, <1>2
<1>4. state[b] = "PROCESSING" /\ cur_task_id[b] \in 0..(Total[b] - 1) /\ Total[b] \in Nat \ {0}
  <2>1. state[b] = "PROCESSING"
    BY <1>3 DEF QueueInOrder
  <2>2. cur_task_id[b] >= 0 /\ cur_task_id[b] \in -1..(Total[b] - 1) /\ Total[b] \in Nat \ {0}
    BY <2>1 DEF TaskAccounting, BatchAccount, TypeInv, TypeOK, BatchTypes
  <2>3. QED
    BY <2>1, <2>2
<1>5. /\ pc[w] = "loop"
      /\ pc' = [pc EXCEPT ![w] = "batch"]
      /\ job' = [job EXCEPT ![w] = [batch |-> b, task |-> cur_task_id[b]]]
      /\ batches' = batches
  BY <1>2 DEF TakeBatchTask, At, Goto
<1>6. /\ \/ cur_task_id'[b] = -1 /\ cur_task_id[b] + 1 = Total[b] /\ state'[b] = "FINISHING"
         \/ cur_task_id'[b] = cur_task_id[b] + 1 /\ state'[b] = "PROCESSING"
      /\ \A c \in Batch : c # b => /\ cur_task_id'[c] = cur_task_id[c]
                                   /\ \/ state'[c] = state[c]
                                      \/ state[c] = "PENDING" /\ state'[c] = "PROCESSING"
  <2>1. CASE LastTaskTaken(b)
    <3>1. /\ state' = [StartNext(state, i) EXCEPT ![b] = "FINISHING"]
          /\ cur_task_id' = [RestartNext(i) EXCEPT ![b] = -1]
      BY <1>2, <2>1 DEF TakeBatchTask
    <3>2. StartNext(state, i) \in [Batch -> BatchStates] /\ RestartNext(i) \in [Batch -> Int]
      BY <1>3, Promotion, NextTypes DEF TypeInv, TypeOK
    <3>3. /\ state'[b] = "FINISHING"
          /\ cur_task_id'[b] = -1
          /\ \A c \in Batch : c # b => /\ cur_task_id'[c] = RestartNext(i)[c]
                                       /\ state'[c] = StartNext(state, i)[c]
      BY <3>1, <3>2
    <3>4. QED
      BY <1>3, <2>1, <3>3, NextIsPending DEF LastTaskTaken
  <2>2. CASE ~LastTaskTaken(b)
    <3>1. state' = state /\ cur_task_id' = [cur_task_id EXCEPT ![b] = @ + 1]
      BY <1>2, <2>2 DEF TakeBatchTask
    <3>2. QED
      BY <1>0, <1>4, <3>1
  <2>3. QED
    BY <2>1, <2>2
<1>7. \A c \in Batch : Phase(c)' = Phase(c)
  BY <1>4, <1>6 DEF Phase, Open
<1>8. /\ Taken(b) = cur_task_id[b] /\ Taken(b) < Total[b]
      /\ Taken(b)' = Taken(b) + 1
      /\ \A c \in Batch : c # b => Taken(c)' = Taken(c)
  BY <1>4, <1>6 DEF Taken
<1>9. \A c \in Batch : InFlight(c)' = IF c = b THEN InFlight(c) \cup {w} ELSE InFlight(c)
  BY <1>0, <1>5 DEF InFlight
<1>10. \A c \in Batch : \A v \in InFlight(c) : v # w /\ job'[v] = job[v]
  BY <1>0, <1>5 DEF InFlight
<1>11. job'[w].task = Taken(b)
  BY <1>0, <1>5, <1>8
<1>12. Busy(b)' = Busy(b) \cup {Taken(b) + 1}
  <2>1. /\ Busy(b) = {job[v].task + 1 : v \in InFlight(b)}
        /\ Busy(b)' = {job'[v].task + 1 : v \in InFlight(b)'}
    BY <1>4, <1>6 DEF Busy
  <2>2. QED
    BY <1>9, <1>10, <1>11, <2>1
<1>13. ASSUME NEW c \in Batch, c # b PROVE Busy(c)' = Busy(c)
  <2>1. state'[c] = "CANCELED" <=> state[c] = "CANCELED"
    BY <1>6, <1>13
  <2>2. {job'[v].task + 1 : v \in InFlight(c)'} = {job[v].task + 1 : v \in InFlight(c)}
    BY <1>9, <1>10, <1>13
  <2>3. QED
    BY <2>1, <2>2 DEF Busy
<1>14. ASSUME NEW j \in 1..(i - 1) PROVE Taken(batches[j]) = Total[batches[j]]
  <2>1. j \in 1..Len(batches) /\ j < i /\ batches[j] \in Batch
    BY <1>0
  <2>2. state[batches[j]] \in {"FINISHING", "FINISHED"}
    BY <1>3, <2>1, Promotion
  <2>3. cur_task_id[batches[j]] = -1
    BY <2>1, <2>2 DEF TaskAccounting, BatchAccount
  <2>4. QED
    BY <2>3 DEF Taken
<1>15. \A j \in 1..(i - 1) : batches[j] \in Batch
  BY <1>0
<1>16. Jobs!HandOut(i)
  BY <1>3, <1>5, <1>7, <1>8, <1>12, <1>13, <1>14, <1>15 DEF Jobs!HandOut
<1>17. QED
  BY <1>16

\* A tile that comes back is returned, and the batch is done with the last of them.
LEMMA ReturnStep ==
  ASSUME TypeInv, QueueInOrder, TaskAccounting, NEW w \in Slot, NEW failed \in BOOLEAN,
         FinishBatchTask(w, failed)
  PROVE  \E b \in Batch : \E t \in 1..Total[b] : Jobs!Return(b, t)
<1>0. /\ state \in [Batch -> BatchStates]
      /\ cur_task_id \in [Batch -> Int]
      /\ num_dl_done \in [Batch -> Nat]
      /\ pc \in [Slot -> {"none", "loop", "front", "batch", "report", "nap", "wait"}]
      /\ job \in [Slot -> [batch : Batch \cup {NoBatch}, task : Int]]
  BY DEF TypeInv, TypeOK, BatchTypes, ThreadTypes, BatchStates
<1>a. job[w].batch \in Batch
  BY DEF FinishBatchTask, At, TypeInv, TypeOK, ThreadTypes
<1>b. PICK b \in Batch : b = job[w].batch
  BY <1>a
<1>c. job[w].task \in Int
  BY <1>0
<1>d. PICK t \in Int : t = job[w].task + 1
  BY <1>c
<1>1. /\ pc[w] = "batch" /\ state[b] # "CANCELED" /\ w \in InFlight(b)
      /\ \E l \in {"report", "loop"} : pc' = [pc EXCEPT ![w] = l]
      /\ job' = [job EXCEPT ![w] = NoJob]
      /\ UNCHANGED <<batches, cur_task_id>>
  BY <1>b DEF FinishBatchTask, At, Goto, InFlight
<1>2. /\ BatchAccount(b)
      /\ job[w].task \in 0..(Taken(b) - 1)
      /\ \A v \in Slot : pc[v] = "batch" /\ v # w => job[v] # job[w]
  BY <1>1 DEF TaskAccounting, BatchAccount
<1>3. Taken(b) \in Int /\ Taken(b) <= Total[b] /\ Total[b] \in Nat \ {0}
  <2>1. cur_task_id[b] \in -1..(Total[b] - 1) /\ Total[b] \in Nat \ {0}
    BY DEF TypeInv, TypeOK, BatchTypes
  <2>2. QED
    BY <2>1 DEF Taken
<1>4. t \in 1..Total[b]
  BY <1>2, <1>3, <1>c, <1>d
<1>5. \A c \in Batch : InFlight(c)' = IF c = b THEN InFlight(c) \ {w} ELSE InFlight(c)
  BY <1>0, <1>1, <1>b DEF InFlight
<1>6. \A v \in Slot : v # w => job'[v] = job[v]
  BY <1>0, <1>1
<1>7. ASSUME NEW v \in InFlight(b), v # w PROVE job[v].task + 1 # t
  <2>1. v \in Slot /\ job[v].batch = job[w].batch /\ job[v] # job[w]
    BY <1>2, <1>7, <1>b DEF InFlight
  <2>2. job[v].task # job[w].task /\ job[v].task \in Int
    BY <1>0, <2>1
  <2>3. QED
    BY <1>c, <1>d, <2>2
<1>8. /\ Busy(b) = {job[v].task + 1 : v \in InFlight(b)}
      /\ t \in Busy(b)
  BY <1>1, <1>d DEF Busy
<1>9. /\ state'[b] = IF AllDone(b) THEN "FINISHED" ELSE state[b]
      /\ \A c \in Batch : c # b => state'[c] = state[c]
      /\ AllDone(b) => state[b] = "FINISHING"
  <2>1. CASE AllDone(b)
    <3>1. state' = [state EXCEPT ![b] = "FINISHED"]
      BY <1>b, <2>1 DEF FinishBatchTask
    <3>2. QED
      BY <1>0, <1>1, <1>b, <2>1, <3>1, LastTaskFinishing
  <2>2. CASE ~AllDone(b)
    BY <1>b, <2>2 DEF FinishBatchTask
  <2>3. QED
    BY <2>1, <2>2
<1>10. Busy(b)' = Busy(b) \ {t}
  <2>1. Busy(b)' = {job'[v].task + 1 : v \in InFlight(b)'}
    BY <1>1, <1>9 DEF Busy
  <2>2. InFlight(b) \subseteq Slot
    BY DEF InFlight
  <2>3. Busy(b)' = {job[v].task + 1 : v \in InFlight(b) \ {w}}
    BY <1>5, <1>6, <2>1, <2>2
  <2>4. QED
    BY <1>7, <1>8, <1>d, <2>3
<1>11. ASSUME NEW c \in Batch, c # b PROVE Busy(c)' = Busy(c)
  <2>1. w \notin InFlight(c) /\ InFlight(c) \subseteq Slot
    BY <1>11, <1>b DEF InFlight
  <2>2. {job'[v].task + 1 : v \in InFlight(c)'} = {job[v].task + 1 : v \in InFlight(c)}
    BY <1>5, <1>6, <1>11, <2>1
  <2>3. QED
    BY <1>9, <1>11, <2>2 DEF Busy
<1>12. \A c \in Batch : Taken(c)' = Taken(c)
  BY <1>1 DEF Taken
<1>13. AllDone(b) <=> Taken(b) = Total[b] /\ Busy(b) = {t}
  <2>1. IsFiniteSet(InFlight(b)) /\ Cardinality(InFlight(b)) \in Nat
    BY InFlightFinite
  <2>2. Cardinality(InFlight(b)) = 1 <=> InFlight(b) = {w}
    BY <1>1, <2>1, FS_Singleton
  <2>3. InFlight(b) = {w} <=> Busy(b) = {t}
    <3>1. InFlight(b) = {w} => Busy(b) = {t}
      BY <1>8, <1>d
    <3>2. ASSUME Busy(b) = {t}, NEW v \in InFlight(b) PROVE v = w
      <4>1. job[v].task + 1 \in Busy(b)
        BY <1>8
      <4>2. QED
        BY <1>7, <3>2, <4>1
    <3>3. QED
      BY <1>1, <3>1, <3>2
  <2>4. num_dl_done[b] + Cardinality(InFlight(b)) = Taken(b) /\ num_dl_done[b] \in Nat
    BY <1>0, <1>2 DEF BatchAccount
  <2>5. Cardinality(InFlight(b)) # 0
    BY <1>1, <2>1, FS_EmptySet
  <2>6. QED
    BY <1>3, <2>1, <2>2, <2>3, <2>4, <2>5 DEF AllDone
<1>14. /\ Phase(b)' = IF AllDone(b) THEN "done" ELSE Phase(b)
       /\ \A c \in Batch : c # b => Phase(c)' = Phase(c)
  BY <1>9 DEF Phase, Open
<1>15. Jobs!Return(b, t)
  BY <1>1, <1>8, <1>10, <1>11, <1>12, <1>13, <1>14 DEF Jobs!Return
<1>16. QED
  BY <1>4, <1>15


\* The download of a cancelled batch that ends owes nothing any more.
LEMMA DropStep ==
  ASSUME TypeInv, NEW w \in Slot, DropCanceled(w)
  PROVE  UNCHANGED Jobs!jobVars
<1>0. /\ pc \in [Slot -> {"none", "loop", "front", "batch", "report", "nap", "wait"}]
      /\ job \in [Slot -> [batch : Batch \cup {NoBatch}, task : Int]]
  BY DEF TypeInv, TypeOK, ThreadTypes
<1>1. /\ pc[w] = "batch" /\ state[job[w].batch] = "CANCELED"
      /\ pc' = [pc EXCEPT ![w] = "loop"]
      /\ job' = [job EXCEPT ![w] = NoJob]
      /\ UNCHANGED <<batches, state, cur_task_id>>
  BY DEF DropCanceled, At, Goto, batchVars
<1>2. \A b \in Batch : Phase(b)' = Phase(b) /\ Taken(b)' = Taken(b)
  BY <1>1 DEF Phase, Taken
<1>3. ASSUME NEW b \in Batch PROVE Busy(b)' = Busy(b)
  <2>1. CASE state[b] = "CANCELED"
    BY <1>1, <2>1 DEF Busy
  <2>2. CASE state[b] # "CANCELED"
    <3>1. w \notin InFlight(b) /\ InFlight(b)' = InFlight(b)
      BY <1>0, <1>1, <2>2 DEF InFlight
    <3>2. \A v \in InFlight(b) : job'[v] = job[v]
      BY <1>0, <1>1, <3>1 DEF InFlight
    <3>3. {job'[v].task + 1 : v \in InFlight(b)'} = {job[v].task + 1 : v \in InFlight(b)}
      BY <3>1, <3>2
    <3>4. QED
      BY <1>1, <2>2, <3>3 DEF Busy
  <2>3. QED
    BY <2>1, <2>2
<1>4. QED
  BY <1>1, <1>2, <1>3, SameJobs

\* Every step of the downloader is a step of the service, or none that the user sees.
LEMMA JobsNext ==
  ASSUME TypeInv, QueueInOrder, TaskAccounting, [Next]_vars
  PROVE  [Jobs!Next]_(Jobs!jobVars)
<1>0. pc \in [Slot -> {"none", "loop", "front", "batch", "report", "nap", "wait"}]
  BY DEF TypeInv, TypeOK, ThreadTypes
<1>1. ASSUME NEW b \in Batch, BatchDownload(b) PROVE Jobs!Next
  BY <1>1, SubmitStep DEF Jobs!Next
<1>2. ASSUME NEW t \in Tile, AddFront(t) PROVE UNCHANGED Jobs!jobVars
  <2>1. PICK n : CreateAndBroadcast(n)
    BY <1>2 DEF AddFront
  <2>2. job' = job /\ \A v \in Slot : pc'[v] = "batch" <=> pc[v] = "batch"
    BY <1>0, <2>1 DEF CreateAndBroadcast, NewSlots, FreeSlots
  <2>3. QED
    BY <1>2, <2>2, QuietJobs DEF AddFront, batchVars
<1>3. ASSUME NEW i \in 1..Len(batches), CancelBatch(i) PROVE Jobs!Next
  BY <1>3, CancelStep DEF Jobs!Next
<1>4. ASSUME NEW w \in Slot, TakeBatchTask(w) PROVE Jobs!Next
  BY <1>4, HandOutStep DEF Jobs!Next
<1>5. ASSUME NEW w \in Slot, NEW failed \in BOOLEAN, FinishBatchTask(w, failed) PROVE Jobs!Next
  BY <1>5, ReturnStep DEF Jobs!Next
<1>6. ASSUME NEW w \in Slot, DropCanceled(w) PROVE UNCHANGED Jobs!jobVars
  BY <1>6, DropStep
<1>7. ASSUME NEW w \in Slot,
             \/ TakeFront(w) \/ FinishFront(w) \/ Nap(w) \/ WakeFromNap(w) \/ ReportFinished(w)
             \/ Wait(w) \/ WakeUp(w) \/ IdleExit(w)
      PROVE  UNCHANGED Jobs!jobVars
  <2>1. /\ UNCHANGED <<batches, state, cur_task_id, job>>
        /\ pc[w] # "batch"
        /\ \E l \in {"none", "loop", "front", "nap", "wait"} : pc' = [pc EXCEPT ![w] = l]
    BY <1>7 DEF TakeFront, FinishFront, Nap, WakeFromNap, ReportFinished, Wait, WakeUp, IdleExit,
       At, Goto, batchVars
  <2>2. QED
    BY <1>0, <2>1, QuietJobs
<1>8. ASSUME (\E w \in Slot : TouchFreedBatch(w)) \/ FreePendingFrees \/ UNCHANGED vars
      PROVE  UNCHANGED Jobs!jobVars
  <2>1. UNCHANGED <<batches, state, cur_task_id, job, pc>>
    BY <1>8 DEF TouchFreedBatch, FreePendingFrees, vars, batchVars, threadVars
  <2>2. QED
    BY <2>1, QuietJobs
<1>9. QED
  BY <1>1, <1>2, <1>3, <1>4, <1>5, <1>6, <1>7, <1>8 DEF Next, Worker

-----------------------------------------------------------------------------
(* The theorems: the types, the order, the accounts, the counters and the attention to work *)
(* are inductive together. *)

IInv == TypeInv /\ QueueInOrder /\ TaskAccounting /\ CountersAgree /\ WorkIsAttended

LEMMA Inductive == Spec => []IInv
<1>1. Init => IInv
  BY TypeInit, OrderInit, AccountInit, CountersInit, AttendedInit DEF IInv
<1>2. IInv /\ [Next]_vars => IInv'
  BY TypeNext, OrderNext, AccountNext, CountersNext, AttendedNext DEF IInv
<1>3. QED
  BY <1>1, <1>2, PTL DEF Spec

\* Each task of a batch is handed out and counted exactly once, by however many threads the
\* batch is downloaded, cancelled or finished (download_next_batch, download_cancel_batch).
THEOREM AccountCorrect == Spec => []TaskAccounting
BY Inductive, PTL DEF IInv

\* Batches are served in the order of the list: the promotion of the next batch
\* (download_next_batch, download_cancel_batch, batch_download) skips and repeats none.
THEOREM QueueOrderCorrect == Spec => []QueueInOrder
BY Inductive, PTL DEF IInv

\* The four counters kept by hand count what they stand for: a cancelled batch, a batch
\* that finishes, a thread that reports it and one that leaves are each counted out once.
THEOREM CountersCorrect == Spec => []CountersAgree
BY Inductive, PTL DEF IInv

\* No wake-up is lost: the broadcast of add_front_download_task and batch_download, and the
\* second look of download_routine after its time-out, leave no work to a sleeping crew.
THEOREM AttendanceCorrect == Spec => []WorkIsAttended
BY Inductive, PTL DEF IInv

\* The queue, the threads and the counters together implement the service of BatchJobs: batches
\* in order, each tile handed out once, done exactly with the last tile, cancelled at any time.
THEOREM DownloaderImplementsJobs == Spec => JobsRefined
<1>1. Init => Jobs!Init
  BY JobsInit
<1>2. IInv /\ [Next]_vars => [Jobs!Next]_(Jobs!jobVars)
  BY JobsNext DEF IInv
<1>3. QED
  BY <1>1, <1>2, Inductive, PTL DEF Spec, JobsRefined, Jobs!Spec

=============================================================================
