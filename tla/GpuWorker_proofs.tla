----------------------- MODULE GpuWorker_proofs -----------------------
(***************************************************************************)
(* Proofs about GpuWorker.  The batches in the ring are consecutive ranges *)
(* of nonces of the job that is mined, whatever the depth of the pipeline  *)
(* and whichever calls fail.                                               *)
(***************************************************************************)
EXTENDS GpuWorker, GpuRing_proofs

-----------------------------------------------------------------------------
(* Where the worker has nothing on the card but what a cut drain left.     *)
BetweenJobs == {"open", "top", "counter", "verify"}
Mining      == {"loop", "fill", "take", "drain"}

(* Every batch on the card will be counted, until a failure ends the       *)
(* worker; a job is begun with an empty card unless a drain was cut.       *)
Accounted ==
  /\ pc \in BetweenJobs \cup Mining => uncounted = inflight
  /\ pc \in BetweenJobs /\ ~cut => inflight = 0
  /\ pc \in {"close", "exited"} /\ ~erred => uncounted = 0 /\ inflight = 0
  /\ pc = "quiet" \/ cut => erred

(* What is mined can be, and was published before its counter was read.    *)
JobTaken ==
  /\ pc \in Mining \cup {"verify"} => myjob \in 1 .. MaxJobs
  /\ seen <= jobCounter /\ myjob <= jobCounter

(* While the counter is out of date nothing is submitted, so what was      *)
(* collected since and what is left are no more than one pipeline.         *)
WithinPipeline ==
  /\ inflight <= gpuPipelineDepth
  /\ pc \in {"loop", "drain"} => waited + inflight <= gpuPipelineDepth
  /\ pc \in {"verify", "fill", "take"} => waited = 0
  /\ pc = "loop" /\ waited > 0 => seen < jobCounter

(* The inductive invariant: neither promise is kept by every step alone.   *)
WorkerInv ==
  /\ RingInv /\ NothingSkipped /\ MinesThisJob
  /\ Accounted /\ JobTaken /\ WithinPipeline

-----------------------------------------------------------------------------
(* What a step that leaves the ring alone keeps.                           *)
LEMMA RingStays ==
  ASSUME RingInv, UNCHANGED ring
  PROVE  RingInv' /\ Outstanding' = Outstanding
<1>1. RingInv'
  BY StepRing
<1>2. Outstanding' = Outstanding
  BY DEF ring, Outstanding, Position
<1> QED BY <1>1, <1>2

(* The nonce counter stays in its range.                                   *)
LEMMA RangeType == \A n \in 0 .. Ranges - 1 : Advance(n) \in 0 .. Ranges - 1
  BY WorkerAssumption DEF Advance

(* What the worker's own variables are, without the last share.            *)
LocalTypeOK ==
  /\ pc \in WorkerPC
  /\ jobCounter \in 0 .. MaxJobs /\ told \in BOOLEAN
  /\ myjob \in 0 .. MaxJobs /\ seen \in 0 .. MaxJobs
  /\ nonce \in 0 .. Ranges - 1 /\ verified \in BOOLEAN
  /\ uncounted \in 0 .. DSG_SLOTS
  /\ waited \in Nat /\ erred \in BOOLEAN /\ cut \in BOOLEAN

ShareTypeOK == share \in {<<>>} \cup {<<[sent |-> i, found |-> j]>> : i, j \in 1 .. MaxJobs}

LEMMA TypeParts == WorkerTypeOK <=> RingTypeOK /\ LocalTypeOK /\ ShareTypeOK
  BY DEF WorkerTypeOK, LocalTypeOK, ShareTypeOK

(* The steps that leave the card and the counts of batches alone.          *)
Elsewhere ==
  \/ PublishJob \/ Tell \/ Open \/ TakeJob \/ TakeCounter \/ Verify \/ LoopTest
  \/ Filled \/ Drained \/ Close

LEMMA ElsewhereInv ==
  ASSUME WorkerInv, Elsewhere
  PROVE  WorkerInv'
<1> USE WorkerAssumption DEF Elsewhere, PublishJob, Tell, Open, TakeJob, TakeCounter, Verify, LoopTest,
     Filled, Drained, Close, env, local, history, BetweenJobs, Mining
<1>1. RingInv' /\ Outstanding' = Outstanding
  BY RingStays DEF WorkerInv
<1>2. UNCHANGED <<inflight, nonce, share, uncounted, erred, cut>>
  BY DEF ring
<1>3. WorkerTypeOK'
  <2>0. RingTypeOK /\ LocalTypeOK /\ ShareTypeOK
    BY TypeParts DEF WorkerInv, NothingSkipped
  <2>1. ShareTypeOK'
    BY <1>2, <2>0 DEF ShareTypeOK
  <2>2. LocalTypeOK'
    <3>1. pc' \in WorkerPC
      BY <2>0 DEF LocalTypeOK, WorkerPC, AfterMining
    <3>2. /\ jobCounter' \in 0 .. MaxJobs /\ myjob' \in 0 .. MaxJobs /\ seen' \in 0 .. MaxJobs
          /\ waited' \in Nat
      BY <2>0 DEF LocalTypeOK
    <3>3. told' \in BOOLEAN /\ verified' \in BOOLEAN
      BY <2>0 DEF LocalTypeOK
    <3> QED BY <1>2, <2>0, <3>1, <3>2, <3>3 DEF LocalTypeOK
  <2> QED BY <1>1, <2>1, <2>2 DEF RingInv, WorkerTypeOK, LocalTypeOK, ShareTypeOK
<1>4. RangesConsecutive'
  BY <1>1, <1>2 DEF WorkerInv, NothingSkipped, RangesConsecutive
<1>5. SharesMatchJob'
  BY <1>2 DEF WorkerInv, MinesThisJob, SharesMatchJob
<1>6. Accounted' /\ CleanStopCollectsAll'
  BY <1>2 DEF WorkerInv, Accounted, NothingSkipped, CleanStopCollectsAll, WorkerTypeOK, RingTypeOK,
     AfterMining, MoreToDrain
<1>7. CardMinesThisJob'
  BY <1>1, <1>2 DEF WorkerInv, MinesThisJob, CardMinesThisJob, Accounted, AfterMining
<1>8. JobTaken'
  BY <1>2 DEF WorkerInv, JobTaken, Minable, NothingSkipped, WorkerTypeOK, AfterMining
<1>9. WithinPipeline' /\ WaitsAtMostPipeline'
  BY <1>2 DEF WorkerInv, JobTaken, WithinPipeline, MinesThisJob, WaitsAtMostPipeline, NothingSkipped,
     WorkerTypeOK, RingTypeOK, Current, AfterMining
<1> QED BY <1>1, <1>3, <1>4, <1>5, <1>6, <1>7, <1>8, <1>9 DEF WorkerInv, NothingSkipped, MinesThisJob

-----------------------------------------------------------------------------
LEMMA FillInv ==
  ASSUME WorkerInv, Fill
  PROVE  WorkerInv'
<1> DEFINE b == [job |-> myjob, base |-> nonce]
<1>0. pc = "fill" /\ inflight < gpuPipelineDepth /\ inflight \in Nat /\ gpuPipelineDepth \in Nat
      /\ waited = 0 /\ uncounted = inflight /\ nonce \in 0 .. Ranges - 1 /\ inflight < DSG_SLOTS
  BY RingAssumption, WorkerAssumption DEF Fill, WorkerInv, RingInv, RingTypeOK, WithinPipeline, Accounted,
     Mining, BetweenJobs, NothingSkipped, WorkerTypeOK
<1>1. b \in Batch
  BY <1>0, BatchAssumption DEF WorkerInv, JobTaken, Mining, Work
<1>2. CASE SubmitOk(b) /\ nonce' = Advance(nonce) /\ uncounted' = uncounted + 1 /\ UNCHANGED <<pc, erred>>
  <2> USE <1>0, <1>2
  <2>0. UNCHANGED <<jobCounter, told, myjob, seen, verified, share, waited, cut>>
    BY DEF Fill, env
  <2>1. RingInv'
    BY <1>1, StepRing DEF RingNext, WorkerInv
  <2>2. /\ inflight' = inflight + 1
        /\ Outstanding' = [i \in 1 .. inflight + 1 |-> IF i = inflight + 1 THEN b ELSE Outstanding[i]]
    BY <1>1, SubmitAdds DEF WorkerInv
  <2>3. WorkerTypeOK'
    BY <2>0, <2>1, <2>2, RangeType, RingAssumption DEF WorkerInv, NothingSkipped, WorkerTypeOK, RingInv
  <2>4. RangesConsecutive'
    <3> SUFFICES ASSUME NEW i \in 1 .. inflight + 1
                 PROVE  (Outstanding'[i].base + 1) % Ranges =
                          IF i = inflight + 1 THEN nonce' ELSE Outstanding'[i + 1].base
      BY <2>2 DEF RangesConsecutive
    <3>1. CASE i = inflight + 1
      BY <2>2, <3>1 DEF Advance
    <3>2. CASE i # inflight + 1
      <4>1. i \in 1 .. inflight /\ i + 1 \in 1 .. inflight + 1
        BY <3>2
      <4>2. (Outstanding[i].base + 1) % Ranges = IF i = inflight THEN nonce ELSE Outstanding[i + 1].base
        BY <4>1 DEF WorkerInv, NothingSkipped, RangesConsecutive
      <4>3. Outstanding'[i + 1].base = IF i = inflight THEN nonce ELSE Outstanding[i + 1].base
        BY <4>1, <2>2
      <4> QED BY <3>2, <4>1, <4>2, <4>3, <2>2
    <3> QED BY <3>1, <3>2
  <2>5. SharesMatchJob' /\ CleanStopCollectsAll'
    BY <2>0 DEF WorkerInv, MinesThisJob, SharesMatchJob, CleanStopCollectsAll
  <2>6. Accounted'
    BY <2>0, <2>2 DEF WorkerInv, Accounted, Mining, BetweenJobs
  <2>7. CardMinesThisJob'
    BY <2>0, <2>2 DEF WorkerInv, MinesThisJob, CardMinesThisJob
  <2>8. JobTaken' /\ WithinPipeline' /\ WaitsAtMostPipeline'
    BY <2>0, <2>2 DEF WorkerInv, JobTaken, WithinPipeline, MinesThisJob, WaitsAtMostPipeline, Mining
  <2> QED BY <2>1, <2>3, <2>4, <2>5, <2>6, <2>7, <2>8 DEF WorkerInv, NothingSkipped, MinesThisJob
<1>3. CASE SubmitFails(b) /\ pc' = "quiet" /\ erred' = TRUE /\ UNCHANGED <<nonce, uncounted>>
  <2> USE <1>0, <1>3
  <2>0. UNCHANGED <<jobCounter, told, myjob, seen, verified, share, waited, cut, inflight>>
    BY DEF Fill, env, SubmitFails
  <2>1. RingInv' /\ Outstanding' = Outstanding
    BY <1>1, StepRing, FailureKeeps DEF RingNext, WorkerInv
  <2>3. WorkerTypeOK'
    BY <2>0, <2>1 DEF WorkerInv, NothingSkipped, WorkerTypeOK, RingInv, WorkerPC
  <2>4. RangesConsecutive'
    BY <2>0, <2>1 DEF WorkerInv, NothingSkipped, RangesConsecutive
  <2>5. SharesMatchJob' /\ CleanStopCollectsAll' /\ CardMinesThisJob'
    BY <2>0 DEF WorkerInv, MinesThisJob, SharesMatchJob, CleanStopCollectsAll, CardMinesThisJob
  <2>6. Accounted'
    BY <2>0 DEF WorkerInv, Accounted, Mining, BetweenJobs
  <2>8. JobTaken' /\ WithinPipeline' /\ WaitsAtMostPipeline'
    BY <2>0 DEF WorkerInv, JobTaken, WithinPipeline, MinesThisJob, WaitsAtMostPipeline, Mining
  <2> QED BY <2>1, <2>3, <2>4, <2>5, <2>6, <2>8 DEF WorkerInv, NothingSkipped, MinesThisJob
<1> QED BY <1>2, <1>3 DEF Fill

(* A batch that comes back leaves the others in their places.              *)
LEMMA CollectRanges ==
  ASSUME WorkerInv, CollectOk, UNCHANGED nonce
  PROVE  RangesConsecutive'
<1>1. /\ inflight' = inflight - 1 /\ inflight \in Nat
      /\ Outstanding' = [i \in 1 .. inflight - 1 |-> Outstanding[i + 1]]
  BY CollectRemoves, RingAssumption DEF WorkerInv
<1> SUFFICES ASSUME NEW i \in 1 .. inflight - 1
             PROVE  (Outstanding'[i].base + 1) % Ranges =
                      IF i = inflight - 1 THEN nonce ELSE Outstanding'[i + 1].base
  BY <1>1 DEF RangesConsecutive
<1>2. i + 1 \in 1 .. inflight /\ (i + 1 = inflight <=> i = inflight - 1)
  BY <1>1
<1>3. (Outstanding[i + 1].base + 1) % Ranges =
        IF i + 1 = inflight THEN nonce ELSE Outstanding[i + 1 + 1].base
  BY <1>2 DEF WorkerInv, NothingSkipped, RangesConsecutive
<1>4. i # inflight - 1 => Outstanding'[i + 1] = Outstanding[i + 1 + 1]
  BY <1>1
<1> QED BY <1>1, <1>2, <1>3, <1>4

(* take() that collects, in the loop and in the drain.                     *)
LEMMA TakenInv ==
  ASSUME WorkerInv, Taken, UNCHANGED erred,
         \/ pc = "take" /\ pc' = "loop"
         \/ pc = "drain" /\ pc' = "drain"
  PROVE  WorkerInv'
<1>1. /\ inflight' = inflight - 1 /\ inflight \in 1 .. DSG_SLOTS
      /\ slot[tail] \in Work /\ slot[tail] = Outstanding[1]
      /\ Outstanding' = [i \in 1 .. inflight - 1 |-> Outstanding[i + 1]]
  BY CollectRemoves, BatchAssumption DEF WorkerInv, Taken
<1>2. RingInv'
  BY StepRing DEF RingNext, WorkerInv, Taken
<1>3. /\ UNCHANGED <<jobCounter, told, myjob, seen, nonce, verified, cut>>
      /\ uncounted' = uncounted - 1
      /\ waited' = IF seen # jobCounter THEN waited + 1 ELSE waited
  BY DEF Taken, env, local
<1>4. \/ UNCHANGED share
      \/ share' = <<[sent |-> myjob, found |-> myjob]>> /\ myjob \in 1 .. MaxJobs
  <2>1. \/ slot[tail].job = myjob /\ share' = <<[sent |-> myjob, found |-> slot[tail].job]>>
        \/ UNCHANGED share
    BY DEF Taken, CpuAgrees
  <2>2. slot[tail].job \in 1 .. MaxJobs
    BY <1>1 DEF Work
  <2>3. CASE slot[tail].job = myjob /\ share' = <<[sent |-> myjob, found |-> slot[tail].job]>>
    <3>1. share' = <<[sent |-> myjob, found |-> myjob]>> /\ slot[tail].job = myjob
      BY <2>3, Zenon
    <3> QED BY <2>2, <3>1, Zenon
  <2> QED BY <2>1, <2>3
<1>5. RangesConsecutive'
  BY <1>3, CollectRanges DEF Taken
<1>6. WorkerTypeOK'
  <2>1. share' \in {<<>>} \cup {<<[sent |-> i, found |-> j]>> : i, j \in 1 .. MaxJobs}
    BY <1>4 DEF WorkerInv, NothingSkipped, WorkerTypeOK
  <2>2. uncounted' \in 0 .. DSG_SLOTS /\ waited' \in Nat
    BY <1>1, <1>3, RingAssumption
      DEF WorkerInv, Accounted, NothingSkipped, WorkerTypeOK, Mining, BetweenJobs
  <2> QED BY <1>2, <1>3, <2>1, <2>2 DEF WorkerInv, NothingSkipped, WorkerTypeOK, RingInv, WorkerPC
<1>7. SharesMatchJob' /\ CleanStopCollectsAll'
  BY <1>4 DEF WorkerInv, MinesThisJob, SharesMatchJob, CleanStopCollectsAll
<1>8. CardMinesThisJob'
  BY <1>1, <1>3 DEF WorkerInv, MinesThisJob, CardMinesThisJob
<1>9. Accounted'
  BY <1>1, <1>3 DEF WorkerInv, Accounted, Mining, BetweenJobs
<1>10. JobTaken'
  BY <1>3 DEF WorkerInv, JobTaken, Mining
<1>11. WithinPipeline' /\ WaitsAtMostPipeline'
  BY <1>1, <1>3, WorkerAssumption, RingAssumption DEF WorkerInv, JobTaken, WithinPipeline, MinesThisJob,
     WaitsAtMostPipeline, NothingSkipped, WorkerTypeOK
<1> QED BY <1>2, <1>5, <1>6, <1>7, <1>8, <1>9, <1>10, <1>11 DEF WorkerInv, NothingSkipped, MinesThisJob

(* A collect that fails, and the end of the quiet drain.                   *)
LEMMA GivesUpInv ==
  ASSUME WorkerInv, UNCHANGED <<ring, env, local, uncounted, share, waited>>,
         \/ pc = "take" /\ pc' = "quiet" /\ erred' = TRUE /\ UNCHANGED cut
         \/ pc = "drain" /\ pc' = "top" /\ erred' = TRUE /\ cut' = TRUE
         \/ pc = "quiet" /\ pc' = "close" /\ UNCHANGED <<erred, cut>>
  PROVE  WorkerInv'
<1> USE DEF env, local, BetweenJobs, Mining
<1>1. RingInv' /\ Outstanding' = Outstanding
  BY RingStays DEF WorkerInv
<1>2. UNCHANGED <<inflight, nonce>>
  BY DEF ring
<1>3. WorkerTypeOK'
  <2>0. LocalTypeOK /\ ShareTypeOK
    BY TypeParts DEF WorkerInv, NothingSkipped
  <2>1. ShareTypeOK'
    BY <2>0 DEF ShareTypeOK
  <2>2. LocalTypeOK'
    BY <2>0 DEF LocalTypeOK, WorkerPC
  <2> QED BY <1>1, <2>1, <2>2 DEF RingInv, WorkerTypeOK, LocalTypeOK, ShareTypeOK
<1>4. RangesConsecutive'
  BY <1>1, <1>2 DEF WorkerInv, NothingSkipped, RangesConsecutive
<1>5. SharesMatchJob' /\ CardMinesThisJob' /\ CleanStopCollectsAll'
  BY DEF WorkerInv, MinesThisJob, SharesMatchJob, CardMinesThisJob, CleanStopCollectsAll
<1>6. Accounted'
  BY <1>2 DEF WorkerInv, Accounted
<1>7. JobTaken' /\ WithinPipeline' /\ WaitsAtMostPipeline'
  BY <1>2 DEF WorkerInv, JobTaken, WithinPipeline, MinesThisJob, WaitsAtMostPipeline
<1> QED BY <1>1, <1>3, <1>4, <1>5, <1>6, <1>7 DEF WorkerInv, NothingSkipped, MinesThisJob

(* The quiet drain collects without counting.                              *)
LEMMA QuietInv ==
  ASSUME WorkerInv, pc = "quiet", CollectOk, UNCHANGED <<pc, env, local, history>>
  PROVE  WorkerInv'
<1> USE DEF env, local, history, BetweenJobs, Mining
<1>1. RingInv' /\ inflight' = inflight - 1 /\ inflight \in Nat
  BY StepRing, CollectRemoves, RingAssumption DEF RingNext, WorkerInv
<1>2. RangesConsecutive'
  BY CollectRanges
<1>3. WorkerTypeOK'
  BY <1>1 DEF WorkerInv, NothingSkipped, WorkerTypeOK, RingInv
<1>4. SharesMatchJob' /\ CardMinesThisJob' /\ CleanStopCollectsAll' /\ Accounted'
  BY DEF WorkerInv, MinesThisJob, SharesMatchJob, CardMinesThisJob, CleanStopCollectsAll, Accounted
<1>5. JobTaken' /\ WithinPipeline' /\ WaitsAtMostPipeline'
  BY <1>1, WorkerAssumption DEF WorkerInv, JobTaken, WithinPipeline, MinesThisJob, WaitsAtMostPipeline
<1> QED BY <1>1, <1>2, <1>3, <1>4, <1>5 DEF WorkerInv, NothingSkipped, MinesThisJob

LEMMA WorkerInvInit == Init => WorkerInv
<1> SUFFICES ASSUME Init PROVE WorkerInv
  OBVIOUS
<1>1. RingInv /\ inflight = 0
  BY InitRing DEF Init, RingInit
<1>2. WorkerTypeOK
  <2>1. ShareTypeOK
    BY DEF Init, ShareTypeOK
  <2>2. LocalTypeOK
    <3>1. 0 \in 0 .. MaxJobs /\ 0 \in 0 .. Ranges - 1 /\ 0 \in 0 .. DSG_SLOTS
      BY RingAssumption, WorkerAssumption
    <3>2. pc \in WorkerPC
      BY DEF Init, WorkerPC
    <3> QED BY <3>1, <3>2 DEF Init, LocalTypeOK
  <2> QED BY <1>1, <2>1, <2>2, TypeParts DEF RingInv
<1>3. RangesConsecutive /\ CleanStopCollectsAll /\ MinesThisJob
  BY <1>1, WorkerAssumption DEF Init, RangesConsecutive, CleanStopCollectsAll, MinesThisJob, SharesMatchJob,
     CardMinesThisJob, WaitsAtMostPipeline
<1>4. Accounted /\ JobTaken /\ WithinPipeline
  BY <1>1, WorkerAssumption DEF Init, Accounted, JobTaken, WithinPipeline, BetweenJobs, Mining
<1> QED BY <1>1, <1>2, <1>3, <1>4 DEF WorkerInv, NothingSkipped

LEMMA WorkerInvStep ==
  ASSUME WorkerInv, [Next]_vars
  PROVE  WorkerInv'
<1>1. CASE Elsewhere
  BY <1>1, ElsewhereInv
<1>2. CASE Fill
  BY <1>2, FillInv
<1>3. CASE Take
  <2>1. CASE Taken /\ pc' = "loop" /\ UNCHANGED erred
    BY <1>3, <2>1, TakenInv DEF Take
  <2>2. CASE CollectFails /\ pc' = "quiet" /\ erred' = TRUE
             /\ UNCHANGED <<env, local, uncounted, share, waited, cut>>
    BY <1>3, <2>2, GivesUpInv DEF Take, CollectFails
  <2> QED BY <1>3, <2>1, <2>2 DEF Take
<1>4. CASE Drain
  <2>1. CASE Taken /\ UNCHANGED <<pc, erred>>
    BY <1>4, <2>1, TakenInv DEF Drain
  <2>2. CASE CollectFails /\ pc' = "top" /\ erred' = TRUE /\ cut' = TRUE
             /\ UNCHANGED <<env, local, uncounted, share, waited>>
    BY <1>4, <2>2, GivesUpInv DEF Drain, CollectFails
  <2> QED BY <1>4, <2>1, <2>2 DEF Drain
<1>5. CASE QuietDrain
  <2>1. CASE CollectOk /\ UNCHANGED pc
    BY <1>5, <2>1, QuietInv DEF QuietDrain
  <2>2. CASE UNCHANGED ring /\ pc' = "close"
    BY <1>5, <2>2, GivesUpInv DEF QuietDrain, history
  <2> QED BY <1>5, <2>1, <2>2 DEF QuietDrain, CollectFails
<1>6. CASE UNCHANGED vars
  <2>1. RingInv' /\ Outstanding' = Outstanding
    BY <1>6, RingStays DEF vars, WorkerInv
  <2>2. UNCHANGED <<inflight, pc, jobCounter, told, myjob, seen, nonce, verified,
                    uncounted, share, waited, erred, cut>>
    BY <1>6 DEF vars, ring, env, local, history
  <2>3. NothingSkipped' /\ MinesThisJob'
    BY <2>1, <2>2 DEF WorkerInv, NothingSkipped, WorkerTypeOK, RangesConsecutive, CleanStopCollectsAll,
       RingInv, MinesThisJob, SharesMatchJob, CardMinesThisJob, WaitsAtMostPipeline
  <2>4. Accounted' /\ JobTaken' /\ WithinPipeline'
    BY <2>2 DEF WorkerInv, Accounted, JobTaken, WithinPipeline
  <2> QED BY <2>1, <2>3, <2>4 DEF WorkerInv
<1> QED BY <1>1, <1>2, <1>3, <1>4, <1>5, <1>6 DEF Next, RunGPUMiner, Elsewhere

(* For any depth of the pipeline, number of slots, jobs and ranges, and    *)
(* whatever calls fail: no range of nonces is skipped or searched twice    *)
(* before the nonce wraps, and a worker that stops without a failure has   *)
(* counted every batch.                                                    *)
THEOREM WorkerSkipsNothing == Spec => []NothingSkipped
<1>1. WorkerInv => NothingSkipped
  BY DEF WorkerInv
<1> QED BY <1>1, WorkerInvInit, WorkerInvStep, PTL DEF Spec

(* A share is sent for the job its batch was searched under, what is mined *)
(* is of this job unless a drain was cut, and a new job waits for the      *)
(* batches of one pipeline at most.                                        *)
THEOREM WorkerMinesThisJob == Spec => []MinesThisJob
<1>1. WorkerInv => MinesThisJob
  BY DEF WorkerInv
<1> QED BY <1>1, WorkerInvInit, WorkerInvStep, PTL DEF Spec

(* The ring the worker drives is the queue of the header, whatever the     *)
(* order in which it fills, collects and drains.                           *)
THEOREM WorkerKeepsTheQueue == Spec => ImplementsQueue
<1>1. Init => Queue!Init
  BY DEF Init, RingInit, Queue!Init, Outstanding
<1>2. ASSUME WorkerInv, [Next]_vars PROVE [Queue!Next]_<<Outstanding, out>>
  <2>1. WorkerInv /\ Fill => \E b \in Batch : SubmitOk(b) \/ SubmitFails(b)
    BY BatchAssumption DEF WorkerInv, JobTaken, NothingSkipped, WorkerTypeOK, Mining, Fill, Work
  <2>2. [RingNext]_ring
    BY <1>2, <2>1 DEF Next, PublishJob, Tell, RunGPUMiner, Open, TakeJob, TakeCounter, Verify, LoopTest,
       Filled, Take, Taken, Drain, Drained, QuietDrain, Close, RingNext, vars
  <2> QED BY <1>2, <2>2, StepQueue DEF WorkerInv
<1> QED BY <1>1, <1>2, WorkerInvInit, WorkerInvStep, PTL DEF Spec, ImplementsQueue, Queue!Spec
=============================================================================
