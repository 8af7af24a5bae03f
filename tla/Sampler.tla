---------------------------- MODULE Sampler ----------------------------
(***************************************************************************)
(* The sampler of cmd/derostorm/runloop.go: eight times a second it reads  *)
(* the hash counters, which the workers keep adding to while it reads, and *)
(* turns them into a smoothed rate, its peak and a history, of the rate of *)
(* the last second, whose slots are longer than a sample.  The run loop's  *)
(* ticker may be late, and its times may repeat.                           *)
(*                                                                         *)
(* One CPU counter and one of a card stand for all of them, one of the     *)
(* histories for the seven, and the windows of the total for those of the  *)
(* cards, which are kept alike from the other counter.  Rates are in       *)
(* hashes for Unit ticks of time, so that they stay whole numbers; a mean  *)
(* is its sum and how many there are.                                      *)
(***************************************************************************)
EXTENDS Integers, Sequences

CONSTANTS
  Late,         \* time between two samples: 0, or as late as the ticker gets
  RecentTicks,  \* samples in s.recent, 80 in the code
  InstTicks,    \* samples in s.inst, 8 in the code
  SlotTime,     \* s.every of the history
  SlotCount,    \* s.n of it
  GpuBatch,     \* hashes a card counts at once
  Unit,         \* the ticks of time a rate is given for
  MaxTicks,     \* bound: samples taken
  MaxCounted    \* bound: batches, and CPU hashes, for one sample

ASSUME SamplerAssumption ==
  /\ Late \subseteq Nat /\ SlotTime \in Nat /\ GpuBatch \in Nat
  /\ RecentTicks \in Nat \ {0} /\ InstTicks \in Nat \ {0} /\ SlotCount \in Nat \ {0}
  /\ MaxTicks \in Nat /\ MaxCounted \in Nat
  /\ Unit \in Nat /\ \A dt \in Late \ {0} : \E k \in 1 .. Unit : Unit = k * dt   \* no rate is rounded

VARIABLES
  cpuHashes, gpuHashes,     \* the counters of the engine
  smPC,                     \* where tick is: "idle", "total", "gpu", "add"
  smAt,                     \* its argument now
  smTotal, smGpu,           \* total and gpu of this tick
  lastAt, lastTotal, lastGPU,
  recent,                   \* s.recent, each rate with the dt it was taken over
  inst,                     \* s.inst
  peak,                     \* s.peak, as sum and count
  slotVals, slotAcc, slotCnt, slotNext,   \* the series
  smRoom,                   \* bound: what may still be counted before the next sample
  samples                   \* history: the rates given to the series, and the totals read

smVars == <<cpuHashes, gpuHashes, smPC, smAt, smTotal, smGpu, lastAt, lastTotal, lastGPU,
            recent, inst, peak, slotVals, slotAcc, slotCnt, slotNext, smRoom, samples>>
smCounters == <<cpuHashes, gpuHashes>>
smLast     == <<lastAt, lastTotal, lastGPU>>
smSeries   == <<slotVals, slotAcc, slotCnt, slotNext>>
smShown    == <<recent, inst, peak>>

SmInit ==
  /\ cpuHashes = 0 /\ gpuHashes = 0 /\ smPC = "idle" /\ smAt = 0 /\ smTotal = 0 /\ smGpu = 0
  /\ lastAt = 0 /\ lastTotal = 0 /\ lastGPU = 0
  /\ recent = <<>> /\ inst = <<>> /\ peak = [sum |-> 0, cnt |-> 1]
  /\ slotVals = <<>> /\ slotAcc = 0 /\ slotCnt = 0 /\ slotNext = SlotTime
  /\ smRoom = MaxCounted /\ samples = <<>>

Rates(window)  == [i \in 1 .. Len(window) |-> window[i].rate]
SumTo(f, n) == LET sum[i \in 0 .. n] == IF i = 0 THEN 0 ELSE sum[i - 1] + f[i] IN sum[n]
SumOf(numbers) == SumTo(numbers, Len(numbers))
LastOf(s, n)   == SubSeq(s, Len(s) - n + 1, Len(s))

-----------------------------------------------------------------------------
(* The workers, at any moment. *)
WorkerCounts ==
  /\ smRoom > 0 /\ smRoom' = smRoom - 1
  /\ \/ cpuHashes' = cpuHashes + 1 /\ UNCHANGED gpuHashes
     \/ gpuHashes' = gpuHashes + GpuBatch /\ UNCHANGED cpuHashes
  /\ UNCHANGED <<smPC, smAt, smTotal, smGpu, smLast, smShown, smSeries, samples>>

(* TotalHashes reads the threads' counters first. *)
TickBegins ==
  /\ smPC = "idle" /\ Len(samples) < MaxTicks
  /\ \E dt \in Late : smAt' = smAt + dt
  /\ smTotal' = cpuHashes
  /\ smPC' = "total"
  /\ UNCHANGED <<smCounters, smGpu, smLast, smShown, smSeries, smRoom, samples>>

(* ... and then the cards'. *)
TotalRead ==
  /\ smPC = "total" /\ smTotal' = smTotal + gpuHashes
  /\ smPC' = "gpu"
  /\ UNCHANGED <<smCounters, smAt, smGpu, smLast, smShown, smSeries, smRoom, samples>>

(* Slip: what the sample before read. *)
LastRead   == smGpu
GPUHashes  == gpuHashes

(* The cards' are read once more, for their share of it. *)
GpuRead ==
  /\ smPC = "gpu" /\ smGpu' = GPUHashes
  /\ smPC' = "add"
  /\ UNCHANGED <<smCounters, smAt, smTotal, smLast, smShown, smSeries, smRoom, samples>>

-----------------------------------------------------------------------------
(* Slip: the newest sample is what is left out. *)
KeepOldest(window, n, r) == IF Len(window) < n THEN Append(window, r) ELSE window
(* rateWindow.add *)
WindowAdd(window, n, r) ==
  IF Len(window) < n THEN Append(window, r) ELSE Append(Tail(window), r)

Mean(window) == [sum |-> SumOf(Rates(window)), cnt |-> Len(window)]
(* Slip: the sums are compared. *)
MoreInAll(a, b) == a.sum > b.sum
Higher(a, b) == a.sum * b.cnt > b.sum * a.cnt

(* Slip: a full history is left as it is. *)
NoTrim(vals) == vals
Trimmed(vals) == IF Len(vals) > SlotCount THEN LastOf(vals, SlotCount) ELSE vals

(* Slip: what came between is left out. *)
LastSample(v) == [sum |-> v, cnt |-> slotCnt + 1]
SlotMean(v)   == [sum |-> slotAcc + v, cnt |-> slotCnt + 1]

(* series.add *)
SeriesAdd(v) ==
  IF smAt < slotNext
  THEN slotAcc' = slotAcc + v /\ slotCnt' = slotCnt + 1 /\ UNCHANGED <<slotVals, slotNext>>
  ELSE /\ slotVals' = Trimmed(Append(slotVals, SlotMean(v)))
       /\ slotAcc' = 0 /\ slotCnt' = 0 /\ slotNext' = smAt + SlotTime

(* Slip: the counters are read again. *)
ReadAgain == lastTotal' = cpuHashes + gpuHashes /\ lastGPU' = gpuHashes
Keep      == lastTotal' = smTotal /\ lastGPU' = smGpu

(* Slip: the smoothed rate is what the history gets. *)
Headline(window) == SumOf(Rates(recent')) \div Len(recent')
(* s.inst.mean(), a whole number in the unit chosen.                       *)
OneSecond(window) == SumOf(Rates(window)) \div Len(window)

(* The rest of tick; nothing else reads or writes what it changes.         *)
TickEnds ==
  /\ smPC = "add" /\ smPC' = "idle"
  /\ IF smAt = lastAt
     THEN UNCHANGED <<smLast, smShown, smSeries, smRoom, samples>>
     ELSE LET dt   == smAt - lastAt
              rate == ((smTotal - lastTotal) * Unit) \div dt
          IN  /\ recent' = WindowAdd(recent, RecentTicks, [rate |-> rate, dt |-> dt])
              /\ inst' = WindowAdd(inst, InstTicks, [rate |-> rate, dt |-> dt])
              /\ peak' = IF Higher(Mean(recent'), peak) THEN Mean(recent') ELSE peak
              /\ lastAt' = smAt /\ Keep
              /\ SeriesAdd(OneSecond(inst'))
              /\ smRoom' = MaxCounted
              /\ samples' = Append(samples, [rate |-> rate, total |-> smTotal])
  /\ UNCHANGED <<smCounters, smAt, smTotal, smGpu>>

SmNext == WorkerCounts \/ TickBegins \/ TotalRead \/ GpuRead \/ TickEnds

SmSpec == SmInit /\ [][SmNext]_smVars

-----------------------------------------------------------------------------
SmTypeOK ==
  /\ cpuHashes \in Nat /\ gpuHashes \in Nat /\ smPC \in {"idle", "total", "gpu", "add"}
  /\ {smAt, smTotal, smGpu, lastAt, lastTotal, lastGPU, slotAcc, slotCnt, slotNext} \subseteq Nat
  /\ Len(recent) <= RecentTicks /\ Len(inst) <= InstTicks /\ Len(slotVals) <= SlotCount
  /\ \A i \in 1 .. Len(recent) : recent[i].rate >= 0 /\ recent[i].dt > 0

(* No hash is counted twice or lost between two samples, whatever lands    *)
(* while the counters are read: the window accounts for exactly what the   *)
(* total rose by since the sample before it.                               *)
WindowAccounts ==
  LET before == Len(samples) - Len(recent)
  IN  SumOf([i \in 1 .. Len(recent) |-> recent[i].rate * recent[i].dt])
        = (lastTotal - (IF before = 0 THEN 0 ELSE samples[before].total)) * Unit

(* Of the samples taken, the i-th and the latest before it, n of them.     *)
WindowAt(i, n) ==
  LET before == IF i > n THEN i - n ELSE 0 IN [j \in 1 .. i - before |-> samples[before + j]]

(* The rate of the second that ends with the i-th sample.                  *)
SecondAt(i) == SumOf(Rates(WindowAt(i, InstTicks))) \div Len(WindowAt(i, InstTicks))

(* Every sample's second is averaged into exactly one slot: the slots that *)
(* are kept and the one being filled hold the latest and no others.        *)
SlotsHoldSamples ==
  LET held == slotCnt + SumOf([i \in 1 .. Len(slotVals) |-> slotVals[i].cnt])
      ones == [i \in 1 .. Len(samples) |-> SecondAt(i)]
  IN  /\ held <= Len(samples)
      /\ Len(slotVals) < SlotCount => held = Len(samples)
      /\ slotAcc + SumOf([i \in 1 .. Len(slotVals) |-> slotVals[i].sum])
           = SumOf(LastOf(ones, held))

(* The CPU is never credited with a hash a card computed: a batch that     *)
(* lands while the counters are read can only hide hashes of the threads.  *)
CpuNotCredited == lastTotal - lastGPU <= cpuHashes

(* No rate that was shown is above the peak.                               *)
PeakIsHighest ==
  \A i \in 1 .. Len(samples) :
    LET shown == WindowAt(i, RecentTicks)
    IN  SumOf(Rates(shown)) * peak.cnt <= peak.sum * Len(shown)

(* Whatever lands between the reads of the counters and however late a     *)
(* tick comes: no hash is lost, counted twice or credited to the wrong     *)
(* device, in the window, the histories and the peak.                      *)
SamplesAccount == SmTypeOK /\ WindowAccounts /\ SlotsHoldSamples /\ CpuNotCredited /\ PeakIsHighest
=============================================================================
