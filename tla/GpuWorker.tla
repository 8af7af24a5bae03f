--------------------------- MODULE GpuWorker ---------------------------
(***************************************************************************)
(* RunGPUMiner of cmd/derostorm/gpu_worker.go: one goroutine that keeps    *)
(* gpuPipelineDepth batches in the library's ring (GpuRing), while the     *)
(* getwork goroutine publishes jobs and a stop may come at any step.  A    *)
(* batch is the job whose work and target it was submitted with and the    *)
(* number of its nonce range.  Any call into the library may fail, and one *)
(* that follows may succeed again.                                         *)
(*                                                                         *)
(* newBlockTuner always returns nil (gpu_tune.go), so there is no tuner.   *)
(***************************************************************************)
EXTENDS GpuRing, Integers

CONSTANTS
  gpuPipelineDepth,
  Unfit,        \* the jobs of 1..MaxJobs that cannot be mined
  MaxJobs,      \* bound: jobs the node sends
  Ranges        \* bound: nonce ranges before the 32-bit nonce wraps

ASSUME WorkerAssumption ==
  /\ gpuPipelineDepth \in 1 .. DSG_SLOTS
  /\ MaxJobs \in Nat /\ Ranges \in Nat \ {0} /\ Unfit \subseteq 1 .. MaxJobs

VARIABLES
  pc,           \* where the goroutine is
  jobCounter,   \* e.jobCounter: job k is the k-th published, 0 is none
  told,         \* stop or e.quit is closed
  myjob,        \* myjob, which work and target are made from
  seen,         \* localJobCounter
  nonce,        \* nonce, counted in ranges of g.Batch()
  verified,
  uncounted,    \* history: batches handed to the card and not in gpuCounters
  share,        \* history: the last share, as the job it was sent for and the
                \* job the batch it was found in belongs to
  waited,       \* history: batches collected while the counter was out of date
  erred,        \* history: a call into the library failed
  cut           \* history: a drain was left with a batch still on the card

env     == <<jobCounter, told>>
local   == <<myjob, seen, nonce, verified>>
history == <<uncounted, share, waited, erred, cut>>

(* What a submit hands over, (work, nonceStart, target).                   *)
Work == [job : 1 .. MaxJobs, base : 0 .. Ranges - 1]

ASSUME BatchAssumption == Batch = Work

vars == <<ring, pc, env, local, history>>

WorkerPC == {"open", "top", "counter", "verify", "loop", "fill", "take",
             "drain", "quiet", "close", "exited"}

Init ==
  /\ RingInit
  /\ pc = "open" /\ jobCounter = 0 /\ told = FALSE
  /\ myjob = 0 /\ seen = 0 /\ nonce = 0 /\ verified = FALSE
  /\ uncounted = 0 /\ share = <<>> /\ waited = 0 /\ erred = FALSE /\ cut = FALSE

-----------------------------------------------------------------------------
(* Tests and results of the steps, each after the slip it invites.         *)

OffTheEnd(n)     == n + 1
Rewound(n)       == 0
(* nonce += uint32(g.Batch()), on a nonce that wraps                       *)
Advance(n)       == (n + 1) % Ranges

Whatever(b)      == TRUE
(* target.Meets of the hash the CPU computes over work and the hit: the    *)
(* hits of a batch submitted with other work are no shares of this one.    *)
CpuAgrees(b)     == b.job = myjob

NotWhenTold      == inflight > 0 /\ ~told
(* for !failed && g.InFlight() > 0                                         *)
MoreToDrain      == inflight > 0

Quit             == FALSE
(* done()                                                                  *)
Done             == told

AlwaysCurrent    == TRUE
(* localJobCounter == atomic.LoadInt64(&e.jobCounter)                      *)
Current          == seen = jobCounter

StraightOn       == "top"
TakeAgain        == "take"
(* Where the mining loop goes when the job or the miner is done.           *)
AfterMining      == "drain"

Minable(j)       == j # 0 /\ j \notin Unfit

-----------------------------------------------------------------------------
(* The rest of the engine *)

PublishJob ==
  /\ jobCounter < MaxJobs
  /\ jobCounter' = jobCounter + 1
  /\ UNCHANGED <<ring, pc, told, local, history>>

Tell ==
  /\ ~told /\ told' = TRUE
  /\ UNCHANGED <<ring, pc, jobCounter, local, history>>

-----------------------------------------------------------------------------
(* RunGPUMiner *)

(* NewGPUContext, which may find no usable device.                         *)
Open ==
  /\ pc = "open" /\ pc' \in {"top", "exited"}
  /\ UNCHANGED <<ring, env, local, history>>

(* for !done() { myjob := e.Job()                                          *)
TakeJob ==
  /\ pc = "top"
  /\ IF Done THEN pc' = "close" /\ UNCHANGED myjob
             ELSE pc' = "counter" /\ myjob' = jobCounter
  /\ UNCHANGED <<ring, env, seen, nonce, verified, history>>

(* The counter, then the job's own checks: an unfit one is slept over.     *)
TakeCounter ==
  /\ pc = "counter"
  /\ seen' = jobCounter /\ waited' = 0
  /\ pc' = IF ~Minable(myjob) THEN "top" ELSE IF verified THEN "loop" ELSE "verify"
  /\ UNCHANGED <<ring, env, myjob, nonce, verified, uncounted, share, erred, cut>>

(* verifyGPU, on the first real job.                                       *)
Verify ==
  /\ pc = "verify"
  /\ \/ pc' = "loop" /\ verified' = TRUE
     \/ pc' = "close" /\ UNCHANGED verified
  /\ UNCHANGED <<ring, env, myjob, seen, nonce, history>>

LoopTest ==
  /\ pc = "loop"
  /\ pc' = IF Current /\ ~Done THEN "fill" ELSE AfterMining
  /\ UNCHANGED <<ring, env, local, history>>

(* for g.InFlight() < gpuPipelineDepth { g.Submit(work, nonce, &target)    *)
Fill ==
  /\ pc = "fill" /\ inflight < gpuPipelineDepth
  /\ LET b == [job |-> myjob, base |-> nonce]
     IN  \/ /\ SubmitOk(b)
            /\ nonce' = Advance(nonce)
            /\ uncounted' = uncounted + 1
            /\ UNCHANGED <<pc, erred>>
         \/ /\ SubmitFails(b)
            /\ pc' = "quiet" /\ erred' = TRUE
            /\ UNCHANGED <<nonce, uncounted>>
  /\ UNCHANGED <<env, myjob, seen, verified, share, waited, cut>>

Filled ==
  /\ pc = "fill" /\ inflight >= gpuPipelineDepth
  /\ pc' = "take"
  /\ UNCHANGED <<ring, env, local, history>>

(* take() on a batch that came back: count it, and send what the CPU       *)
(* agrees is a share.  The card may report a hit, rightly or not, or none. *)
Taken ==
  /\ CollectOk
  /\ uncounted' = uncounted - 1
  /\ waited' = IF seen # jobCounter THEN waited + 1 ELSE waited
  /\ LET b == slot[tail]
     IN  \/ CpuAgrees(b) /\ share' = <<[sent |-> myjob, found |-> b.job]>>
         \/ UNCHANGED share
  /\ UNCHANGED <<env, local, cut>>

Take ==
  /\ pc = "take"
  /\ \/ Taken /\ pc' = "loop" /\ UNCHANGED erred
     \/ /\ CollectFails
        /\ pc' = "quiet" /\ erred' = TRUE
        /\ UNCHANGED <<env, local, uncounted, share, waited, cut>>

(* The drain: a take() that fails leaves the loop, and failed stays false. *)
Drain ==
  /\ pc = "drain" /\ MoreToDrain
  /\ \/ Taken /\ UNCHANGED <<pc, erred>>
     \/ /\ CollectFails
        /\ pc' = "top" /\ erred' = TRUE /\ cut' = TRUE
        /\ UNCHANGED <<env, local, uncounted, share, waited>>

Drained ==
  /\ pc = "drain" /\ ~MoreToDrain
  /\ pc' = "top"
  /\ UNCHANGED <<ring, env, local, history>>

(* After a failure: collect without looking, then close the context.       *)
QuietDrain ==
  /\ pc = "quiet"
  /\ \/ inflight > 0 /\ CollectOk /\ UNCHANGED pc
     \/ CollectFails /\ pc' = "close"
     \/ inflight = 0 /\ pc' = "close" /\ UNCHANGED ring
  /\ UNCHANGED <<env, local, history>>

(* defer g.Close()                                                         *)
Close ==
  /\ pc = "close" /\ pc' = "exited"
  /\ UNCHANGED <<ring, env, local, history>>

RunGPUMiner ==
  \/ Open \/ TakeJob \/ TakeCounter \/ Verify \/ LoopTest \/ Fill \/ Filled
  \/ Take \/ Drain \/ Drained \/ QuietDrain \/ Close

Next == PublishJob \/ Tell \/ RunGPUMiner

Spec == Init /\ [][Next]_vars

(* The goroutine runs on a thread of its own, and a wait for the card ends *)
(* (cudaEventSynchronize returns when the batch is done or the card        *)
(* failed), so a step it can always take is taken.                         *)
FairSpec == Spec /\ WF_vars(RunGPUMiner)

-----------------------------------------------------------------------------
WorkerTypeOK ==
  /\ RingTypeOK
  /\ pc \in WorkerPC
  /\ jobCounter \in 0 .. MaxJobs /\ told \in BOOLEAN
  /\ myjob \in 0 .. MaxJobs /\ seen \in 0 .. MaxJobs
  /\ nonce \in 0 .. Ranges - 1 /\ verified \in BOOLEAN
  /\ uncounted \in 0 .. DSG_SLOTS
  /\ share \in {<<>>} \cup {<<[sent |-> i, found |-> j]>> : i, j \in 1 .. MaxJobs}
  /\ waited \in Nat /\ erred \in BOOLEAN /\ cut \in BOOLEAN

(* The batches on the card cover consecutive nonce ranges that end where   *)
(* the next will begin, whatever calls failed in between: no nonce of a    *)
(* job is skipped or searched twice before the counter wraps.              *)
RangesConsecutive ==
  \A i \in 1 .. inflight :
    (Outstanding[i].base + 1) % Ranges =
      IF i = inflight THEN nonce ELSE Outstanding[i + 1].base

(* A share is sent for the job its nonce was found under, even after a     *)
(* drain was cut short and another job's batch is still on the card: the   *)
(* CPU hashes every hit again over the work it is about to send.           *)
SharesMatchJob == share = <<>> \/ share[1].sent = share[1].found

(* Unless a drain was cut short, everything on the card while the worker   *)
(* mines was submitted for the job it mines.                               *)
CardMinesThisJob ==
  pc \in {"loop", "fill", "take", "drain"} /\ ~cut =>
    \A i \in 1 .. inflight : Outstanding[i].job = myjob

(* A worker that stops without a failure has counted and checked every     *)
(* batch it ever handed to the card: none is abandoned at a job change or  *)
(* at the stop.                                                            *)
CleanStopCollectsAll == pc = "exited" /\ ~erred => uncounted = 0 /\ inflight = 0

(* A worker whose counter is out of date collects at most the batches of   *)
(* one full pipeline before it looks for the new job.                      *)
WaitsAtMostPipeline == waited <= gpuPipelineDepth

(* Batches and shares belong to the job they were begun under, and a new   *)
(* job waits for one pipeline of the old one at most.                      *)
MinesThisJob == SharesMatchJob /\ CardMinesThisJob /\ WaitsAtMostPipeline

(* No nonce range is skipped, searched twice or left uncollected, over     *)
(* failures, job changes and the stop.                                     *)
NothingSkipped == WorkerTypeOK /\ RangesConsecutive /\ CleanStopCollectsAll

(* A worker told to stop leaves, whatever is on the card.                  *)
ToldWorkerLeaves == told ~> pc = "exited"

(* A worker that mines with a counter out of date takes the newer one.     *)
NewCounterTaken ==
  \A k \in 1 .. MaxJobs :
    jobCounter = k ~> (pc = "exited" \/ seen >= k)

-----------------------------------------------------------------------------
(* gpu_worker.go:306: "Whatever is still on the card was submitted against *)
(* this job and this work".                                                *)
DrainedForThisJob ==
  pc = "drain" => \A i \in 1 .. inflight : Outstanding[i].job = myjob
=============================================================================
