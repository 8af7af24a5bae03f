--------------------------- MODULE NonceSpace ---------------------------
(***************************************************************************)
(* What each worker of the miner hashes: the last twelve bytes of the      *)
(* miniblock hold seven random ones, a counter of four and a tag, the      *)
(* thread's number (RunMiner in engine.go) or one from gpuNonceTag on      *)
(* (RunGPUMiner in gpu_worker.go).  No two workers may search one input,   *)
(* and none of them an input again.                                        *)
(*                                                                         *)
(* Of the random bytes it is taken that two workers that follow each other *)
(* on one slot draw different ones, and of two other workers the worst,    *)
(* that they draw the same: they are the number of times the slot was      *)
(* started.  Each job has a blob of its own.                               *)
(***************************************************************************)
EXTENDS Naturals, FiniteSets

CONSTANTS
  TagSize,      \* values of the tag byte (256)
  GpuTag,       \* the first tag of a card (240)
  NonceSize,    \* values of the counter (2^32)
  ThreadIds,    \* tids that are started, below maxThreads (256)
  GpuIds,       \* devices, below maxGPUs (16)
  PassNonces,   \* nonces of a pass of a thread: 2 when hashes are paired, else 1
  BatchNonces,  \* nonces of a card's batch
  MaxPublished, \* bound on the jobs
  MaxStarts,    \* bound on the workers started
  MaxTried      \* bound on the inputs tried

ASSUME NonceAssumption ==
  /\ TagSize \in Nat /\ GpuTag \in 1 .. TagSize - 1 /\ NonceSize \in Nat \ {0}
  /\ ThreadIds \subseteq 0 .. TagSize - 1 /\ GpuIds \subseteq 0 .. TagSize - GpuTag - 1
  /\ PassNonces \in {1, 2} /\ BatchNonces \in Nat \ {0}

VARIABLES
  published,    \* the job that is out, 0 before the first
  starts,       \* workers started on each slot
  mining,       \* the job each slot's worker took last, 0 for none or no worker
  nonce,        \* i of a thread, nonce of a card
  searched,     \* history: nonces of that job tried
  tried,        \* history: who tried which input
  again         \* history: a worker tried an input it had tried before

nonceVars == <<published, starts, mining, nonce, searched, tried, again>>

Searcher == {[kind |-> "cpu", id |-> t] : t \in ThreadIds} \cup {[kind |-> "gpu", id |-> d] : d \in GpuIds}

NonceInit ==
  /\ published = 0 /\ tried = {} /\ again = FALSE
  /\ starts = [w \in Searcher |-> 0] /\ mining = [w \in Searcher |-> 0]
  /\ nonce = [w \in Searcher |-> 0] /\ searched = [w \in Searcher |-> 0]

-----------------------------------------------------------------------------
(* Slip: the device is the tag, as the thread is. *)
DeviceItself(device) == device

gpuNonceTag(device) == (GpuTag + device) % TagSize

TagOf(w) == IF w.kind = "gpu" THEN gpuNonceTag(w.id) ELSE w.id % TagSize

NoncePublish ==
  /\ published < MaxPublished /\ published' = published + 1
  /\ UNCHANGED <<starts, mining, nonce, searched, tried, again>>

(* A goroutine for the slot, its random bytes drawn and its counter 0; the *)
(* one before it, if any, was told to stop and has.                        *)
StartSearcher(w) ==
  /\ Cardinality({s \in Searcher \X (1 .. MaxStarts) : s[2] <= starts[s[1]]}) < MaxStarts
  /\ starts' = [starts EXCEPT ![w] = @ + 1]
  /\ mining' = [mining EXCEPT ![w] = 0]
  /\ nonce' = [nonce EXCEPT ![w] = 0] /\ searched' = [searched EXCEPT ![w] = 0]
  /\ UNCHANGED <<published, tried, again>>

(* The newest job; the counter goes on from where the last one left it.    *)
TakesJob(w) ==
  /\ starts[w] > 0 /\ mining[w] # published
  /\ mining' = [mining EXCEPT ![w] = published]
  /\ searched' = [searched EXCEPT ![w] = 0]
  /\ UNCHANGED <<published, starts, nonce, tried, again>>

(* Slip: the second of a pair gets the first one's nonce. *)
SameTwice(w, k) == nonce[w] + 1
(* The k-th nonce of a pass: a thread adds one before it writes the nonce, *)
(* also for the second of a pair; a card begins with the one it holds.     *)
NonceOf(w, k) == IF w.kind = "cpu" THEN nonce[w] + k ELSE nonce[w] + k - 1

Share(w) == IF w.kind = "cpu" THEN PassNonces ELSE BatchNonces

Inputs(w) ==
  {[job |-> mining[w], random |-> starts[w], nonce |-> NonceOf(w, k) % NonceSize, tag |-> TagOf(w)] :
     k \in 1 .. Share(w)}

(* A pass of the hashing loop or a batch of a card.  A job does not last   *)
(* for 2^32 nonces of one worker.                                          *)
Searches(w) ==
  /\ mining[w] > 0 /\ searched[w] + Share(w) <= NonceSize
  /\ Cardinality(tried) < MaxTried
  /\ nonce' = [nonce EXCEPT ![w] = (@ + Share(w)) % NonceSize]
  /\ searched' = [searched EXCEPT ![w] = @ + Share(w)]
  /\ tried' = tried \cup {[who |-> w, input |-> input] : input \in Inputs(w)}
  /\ again' = (\/ again \/ Cardinality(Inputs(w)) < Share(w)
               \/ \E input \in Inputs(w) : [who |-> w, input |-> input] \in tried)
  /\ UNCHANGED <<published, starts, mining>>

NonceNext ==
  \/ NoncePublish
  \/ \E w \in Searcher : StartSearcher(w) \/ TakesJob(w) \/ Searches(w)

NonceSpec == NonceInit /\ [][NonceNext]_nonceVars

-----------------------------------------------------------------------------
(* No input is hashed twice, by no two workers and by none again, however  *)
(* workers are started and stopped and jobs come: but for a thread past    *)
(* the 240th and the card that has its tag.                                *)
NoInputTwice ==
  /\ ~again
  /\ \A a, b \in tried :
       a.input = b.input /\ a.who # b.who =>
         \E t, d \in {a.who, b.who} : t.kind = "cpu" /\ d.kind = "gpu" /\ t.id = GpuTag + d.id
=============================================================================
