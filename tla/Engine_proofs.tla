------------------------- MODULE Engine_proofs -------------------------
(***************************************************************************)
(* Proofs, for any number of goroutines, slots, lanes, jobs and            *)
(* connections, of the engine's safety invariants.                         *)
(*                                                                         *)
(* None of them is inductive alone: that a worker inside submit() has a    *)
(* connection rests on its job having come from one, which rests on what   *)
(* job and counter were when it copied them; that a slot has one owner     *)
(* rests on slots being handed out in order.  IInv collects what is        *)
(* needed; it has one named part per subject.                              *)
(***************************************************************************)
EXTENDS EngineProps, FiniteSetTheorems, TLAPS

(* A goroutine gets a slot when it starts and is told to stop only then.   *)
Slotted ==
  \A w \in Goroutine : /\ pc[w] # "idle" => slot[w] \in Slots
                       /\ pc[w] = "idle" => w \notin stopped

(* A worker inside submit() holds the share it is submitting.              *)
Holding == \A w \in Goroutine : pc[w] \in Submitting => found[w] # <<>>

(* Jobs come from a connection, one per value of the counter.              *)
JobsFromConn ==
  /\ gw = "install" => dialled # 0
  /\ gw \in {"unlock", "read", "publish"} => conn # 0
  /\ jobCounter > 0 => conn # 0
  /\ job.n = jobCounter
  /\ job.good => job.n > 0

(* What a worker copied was published before, the job before the counter.  *)
Copied ==
  \A w \in Goroutine :
    /\ myjob[w].n <= jobCounter /\ seen[w] <= jobCounter
    /\ myjob[w].good => myjob[w].n > 0

IInv ==
  /\ TypeOK /\ PoolMatchesWorkers /\ Slotted /\ OneWriter /\ Holding
  /\ JobsFromConn /\ Copied /\ NeverAheadOfCounter

USE EngineAssumption

LEMMA InitInv == Init => IInv
<1> SUFFICES ASSUME Init PROVE IInv
  OBVIOUS
<1> USE DEF Init, Blank
<1>1. TypeOK
  <2>1. gw \in GetworkPC /\ state \in States /\ Blank \in Jobs
    BY DEF GetworkPC, States, Jobs
  <2>2. workers \in Seq(Goroutine) /\ Len(workers) = 0
    OBVIOUS
  <2>3. found \in [Goroutine -> Seq(1 .. MaxDiff)]
    OBVIOUS
  <2>4. pc \in [Goroutine -> WorkerPC] /\ slot \in [Goroutine -> 0 .. MaxThreads]
    BY DEF WorkerPC
  <2>5. /\ myjob \in [Goroutine -> Jobs] /\ seen \in [Goroutine -> 0 .. MaxJobs]
        /\ reg \in [Goroutine -> Nat]
    BY <2>1
  <2>6. counters \in [Slots -> Nat] /\ hashed \in [Slots -> Nat]
    OBVIOUS
  <2>7. /\ conn \in 0 .. MaxConns /\ dialled \in 0 .. MaxConns /\ alive \in BOOLEAN
        /\ jobCounter \in 0 .. MaxJobs /\ nthread \in 0 .. MaxThreads
    <3>1. \A k \in Nat : 0 \in 0 .. k
      OBVIOUS
    <3> QED BY <3>1, EngineAssumption
  <2>9. /\ job \in Jobs /\ quit \in BOOLEAN /\ connMu \in Goroutine \cup {NoOne, Reader}
        /\ stopped \subseteq Goroutine
    BY <2>1
  <2>8. /\ submitted \in Nat /\ bestShare \in 0 .. MaxDiff
        /\ recorded \subseteq 1 .. MaxDiff /\ sent \in Nat
    OBVIOUS
  <2> HIDE DEF Init
  <2> QED BY <2>1, <2>2, <2>3, <2>4, <2>5, <2>6, <2>7, <2>8, <2>9 DEF TypeOK
<1>2. PoolMatchesWorkers /\ Slotted
  BY DEF PoolMatchesWorkers, Slotted
<1>3. OneWriter /\ Holding
  BY DEF OneWriter, Holding, Submitting, EngineAssumption
<1>4. JobsFromConn /\ Copied /\ NeverAheadOfCounter
  BY DEF JobsFromConn, Copied, NeverAheadOfCounter, Looping, Submitting
<1> QED BY <1>1, <1>2, <1>3, <1>4 DEF IInv

(* A counter that grows under workers that do not move stays ahead of them. *)
LEMMA CounterGrows ==
  ASSUME Copied, NeverAheadOfCounter, UNCHANGED <<pc, myjob, seen>>,
         jobCounter <= jobCounter', jobCounter \in Nat, jobCounter' \in Nat,
         \A w \in Goroutine : seen[w] \in Nat /\ myjob[w].n \in Nat
  PROVE  Copied' /\ NeverAheadOfCounter'
<1>1. Copied'
  BY DEF Copied
<1>2. NeverAheadOfCounter'
  BY DEF NeverAheadOfCounter, Looping
<1> QED BY <1>1, <1>2

(* The steps of RunGetWork, of the network and of the quit leave every     *)
(* worker and the pool alone; e.conn changes only while nobody writes.     *)
LEMMA GetworkInv ==
  ASSUME IInv, Getwork \/ ConnBreaks \/ Stop
  PROVE  IInv'
<1> USE DEF BeginDial, DialFails, RetryOrQuit, DialSucceeds, InstallConn, UnlockConn,
     PublishJob, AnnounceMining, ReadFails, AfterReadError, ConnAfterLoss, ConnBreaks, Stop,
     Getwork, Released, ConnMuFree, link, jobs, rest, others
<1>1. UNCHANGED <<pool, pc, myjob, seen, reg, found, stats>>
  OBVIOUS
<1>2. gw' \in GetworkPC /\ state' \in States /\ quit' \in BOOLEAN /\ alive' \in BOOLEAN
  BY DEF IInv, TypeOK, GetworkPC, States
<1>3. conn' \in 0 .. MaxConns /\ dialled' \in 0 .. MaxConns
  BY DEF IInv, TypeOK
<1>4. job' \in Jobs /\ jobCounter' \in 0 .. MaxJobs
  BY DEF IInv, TypeOK, Jobs
<1>5. connMu' \in Goroutine \cup {NoOne, Reader}
  BY DEF IInv, TypeOK
<1>a. TypeOK'
  BY <1>1, <1>2, <1>3, <1>4, <1>5 DEF IInv, TypeOK, pool, stats
<1>b. OneWriter'
  <2>1. CASE InstallConn
    BY <2>1, EngineAssumption DEF IInv, OneWriter
  <2>2. CASE UnlockConn
    BY <2>2, EngineAssumption DEF IInv, OneWriter
  <2>3. CASE ~(InstallConn \/ UnlockConn)
    <3>1. (connMu' = connMu /\ gw # "unlock" /\ gw' # "unlock") \/ UNCHANGED <<connMu, gw>>
      BY <2>3
    <3> QED BY <1>1, <3>1 DEF IInv, OneWriter
  <2> QED BY <2>1, <2>2, <2>3
<1>6. PoolMatchesWorkers' /\ Slotted' /\ Holding'
  BY <1>1 DEF IInv, PoolMatchesWorkers, Slotted, Holding, pool
<1>7. JobsFromConn'
  BY DEF IInv, TypeOK, JobsFromConn
<1>8. jobCounter <= jobCounter'
  BY DEF IInv, TypeOK
<1>9. /\ jobCounter \in Nat /\ jobCounter' \in Nat
      /\ \A w \in Goroutine : seen[w] \in Nat /\ myjob[w].n \in Nat
  BY <1>4, EngineAssumption DEF IInv, TypeOK, Jobs
<1>10. UNCHANGED <<pc, myjob, seen>>
  BY <1>1
<1>11. Copied /\ NeverAheadOfCounter
  BY DEF IInv
<1>12. Copied' /\ NeverAheadOfCounter'
  BY ONLY <1>8, <1>9, <1>10, <1>11, CounterGrows
<1> QED BY <1>a, <1>b, <1>6, <1>7, <1>12 DEF IInv

(* Growing hands the free slots, in order, to goroutines that never ran.   *)
LEMMA GrowInv ==
  ASSUME IInv, NEW n, SetThreads(n), Grow(n)
  PROVE  IInv'
<1> DEFINE old == Len(workers)
           slotOf(g, w) == {old + i : i \in {k \in DOMAIN g : g[k] = w}}
<1>1. PICK g \in Fresh(n - old) :
        /\ workers' = workers \o g
        /\ pc' = [w \in Goroutine |-> IF slotOf(g, w) = {} THEN pc[w] ELSE "top"]
        /\ slot' = [w \in Goroutine |->
                      IF slotOf(g, w) = {} THEN slot[w] ELSE CHOOSE s \in slotOf(g, w) : TRUE]
  BY DEF Grow
<1>2. n \in 0 .. MaxThreads /\ old \in 0 .. MaxThreads /\ old < n /\ nthread' = n
  BY DEF SetThreads, Grow, Allowed, IInv, TypeOK
<1>3. /\ g \in [1 .. n - old -> Goroutine]
      /\ \A i \in 1 .. n - old : pc[g[i]] = "idle"
      /\ \A i, j \in 1 .. n - old : g[i] = g[j] => i = j
  BY <1>2 DEF Fresh
<1>4. /\ UNCHANGED <<getwork, quit, connMu, myjob, seen, reg, found, stats, stopped>>
  BY DEF SetThreads, Grow
<1>5. /\ workers' \in Seq(Goroutine) /\ Len(workers') = n
      /\ \A i \in 1 .. old : workers'[i] = workers[i]
      /\ \A i \in 1 .. n - old : workers'[old + i] = g[i]
  <2>1. PICK k \in Nat : k = n - old /\ n = old + k
    BY <1>2
  <2>2. g \in [1 .. k -> Goroutine]
    BY <1>3, <2>1
  <2>3. g \in Seq(Goroutine) /\ Len(g) = k
    BY <2>2
  <2>4. workers \in Seq(Goroutine) /\ old \in Nat
    BY DEF IInv, TypeOK
  <2>5. /\ workers \o g \in Seq(Goroutine) /\ Len(workers \o g) = old + k
        /\ \A i \in 1 .. old : (workers \o g)[i] = workers[i]
        /\ \A i \in 1 .. k : (workers \o g)[old + i] = g[i]
    BY <2>3, <2>4
  <2> QED BY <1>1, <2>1, <2>5
<1>6. ASSUME NEW w \in Goroutine, slotOf(g, w) # {}
      PROVE  /\ \E i \in 1 .. n - old : g[i] = w /\ slot'[w] = old + i
             /\ pc'[w] = "top" /\ pc[w] = "idle"
  <2>1. PICK i \in 1 .. n - old : g[i] = w
    BY <1>3, <1>6
  <2>2. slotOf(g, w) = {old + i}
    BY <1>3, <2>1
  <2> QED BY <1>1, <1>3, <1>6, <2>1, <2>2
<1>7. ASSUME NEW w \in Goroutine, slotOf(g, w) = {}
      PROVE  /\ pc'[w] = pc[w] /\ slot'[w] = slot[w]
             /\ \A i \in 1 .. n - old : g[i] # w
  <2>1. \A i \in 1 .. n - old : g[i] # w
    BY <1>3, <1>7
  <2> QED BY <1>1, <1>7, <2>1
<1> HIDE DEF slotOf
<1>8. TypeOK'
  <2>1. pc' \in [Goroutine -> WorkerPC]
    BY <1>1 DEF IInv, TypeOK, WorkerPC
  <2>2. ASSUME NEW w \in Goroutine PROVE slot'[w] \in 0 .. MaxThreads
    <3>1. CASE slotOf(g, w) = {}
      BY <1>7, <3>1 DEF IInv, TypeOK
    <3>2. CASE slotOf(g, w) # {}
      BY <1>2, <1>6, <3>2
    <3> QED BY <3>1, <3>2
  <2>3. slot' \in [Goroutine -> 0 .. MaxThreads]
    BY <1>1, <2>2
  <2>4. nthread' \in 0 .. MaxThreads /\ Len(workers') <= MaxThreads
    BY <1>2, <1>5
  <2> QED BY <1>4, <1>5, <2>1, <2>3, <2>4 DEF IInv, TypeOK, getwork, link, jobs, stats
<1>9. PoolMatchesWorkers'
  <2>1. nthread' = Len(workers')
    BY <1>2, <1>5
  <2>2. ASSUME NEW i \in DOMAIN workers'
        PROVE  slot'[workers'[i]] = i /\ workers'[i] \notin stopped' /\ pc'[workers'[i]] # "idle"
    <3>1. CASE i \in 1 .. old
      <4>1. workers'[i] = workers[i] /\ workers[i] \in Goroutine /\ pc[workers[i]] # "idle"
        BY <1>5, <3>1 DEF IInv, TypeOK, PoolMatchesWorkers
      <4>2. slotOf(g, workers[i]) = {}
        BY <1>6, <4>1
      <4> QED BY <1>4, <1>7, <3>1, <4>1, <4>2 DEF IInv, PoolMatchesWorkers
    <3>2. CASE i \in old + 1 .. n
      <4>1. PICK k \in 1 .. n - old : i = old + k
        BY <1>2, <3>2
      <4>2. workers'[i] = g[k] /\ g[k] \in Goroutine /\ pc[g[k]] = "idle"
        BY <1>3, <1>5, <4>1
      <4>3. slotOf(g, g[k]) # {}
        BY <1>7, <4>1, <4>2
      <4>4. slot'[g[k]] = old + k /\ pc'[g[k]] = "top"
        BY <1>3, <1>6, <4>2, <4>3
      <4> QED BY <1>4, <4>1, <4>2, <4>4 DEF IInv, Slotted
    <3>3. i \in 1 .. n
      BY <1>5, <2>2
    <3> QED BY <1>2, <3>1, <3>2, <3>3
  <2>3. ASSUME NEW w \in Goroutine, pc'[w] # "idle", w \notin stopped'
        PROVE  slot'[w] \in DOMAIN workers' /\ workers'[slot'[w]] = w
    <3>1. CASE slotOf(g, w) = {}
      <4>1. slot[w] \in 1 .. old /\ workers[slot[w]] = w /\ slot'[w] = slot[w]
        BY <1>4, <1>7, <2>3, <3>1 DEF IInv, PoolMatchesWorkers, TypeOK
      <4> QED BY <1>2, <1>5, <4>1
    <3>2. CASE slotOf(g, w) # {}
      BY <1>2, <1>5, <1>6, <3>2
    <3> QED BY <3>1, <3>2
  <2> QED BY <2>1, <2>2, <2>3 DEF PoolMatchesWorkers
<1>10. Slotted'
  <2> SUFFICES ASSUME NEW w \in Goroutine
               PROVE  /\ pc'[w] # "idle" => slot'[w] \in Slots
                      /\ pc'[w] = "idle" => w \notin stopped
    BY <1>4 DEF Slotted
  <2>1. CASE slotOf(g, w) = {}
    BY <1>7, <2>1 DEF IInv, Slotted
  <2>2. CASE slotOf(g, w) # {}
    BY <1>2, <1>6, <2>2 DEF Slots
  <2> QED BY <2>1, <2>2
<1>11. \A w \in Goroutine : pc'[w] = pc[w] \/ (pc[w] = "idle" /\ pc'[w] = "top")
  BY <1>6, <1>7
<1>12. OneWriter' /\ Holding' /\ NeverAheadOfCounter'
  BY <1>4, <1>11 DEF IInv, OneWriter, Holding, NeverAheadOfCounter, Submitting, Looping,
     getwork, link, jobs
<1>13. JobsFromConn' /\ Copied'
  BY <1>4 DEF IInv, JobsFromConn, Copied, getwork, link, jobs
<1> QED BY <1>8, <1>9, <1>10, <1>12, <1>13 DEF IInv

(* Shrinking keeps a prefix of the pool and stops the rest of it.          *)
LEMMA ShrinkInv ==
  ASSUME IInv, NEW n, SetThreads(n), Shrink(n)
  PROVE  IInv'
<1>1. /\ n \in 0 .. MaxThreads /\ n < Len(workers) /\ nthread' = n
      /\ stopped' = stopped \cup {workers[i] : i \in DOMAIN workers \ (1 .. n)}
      /\ workers' = [i \in 1 .. n |-> workers[i]]
      /\ UNCHANGED <<getwork, quit, connMu, myjob, seen, reg, found, stats, pc, slot>>
  BY DEF SetThreads, Shrink, Allowed, Kept
<1>2. /\ workers' \in Seq(Goroutine) /\ Len(workers') = n /\ stopped' \subseteq Goroutine
      /\ \A i \in 1 .. n : workers'[i] = workers[i]
  <2>1. workers \in Seq(Goroutine) /\ stopped \subseteq Goroutine /\ n \in Nat
    BY <1>1 DEF IInv, TypeOK
  <2>2. \A i \in 1 .. n : workers[i] \in Goroutine
    BY <1>1, <2>1
  <2>3. workers' \in [1 .. n -> Goroutine]
    BY <1>1, <2>2
  <2>4. workers' \in Seq(Goroutine) /\ Len(workers') = n
    BY <2>1, <2>3
  <2>5. \A i \in DOMAIN workers : workers[i] \in Goroutine
    BY <2>1
  <2>6. stopped' \subseteq Goroutine
    BY <1>1, <2>1, <2>5
  <2>7. \A i \in 1 .. n : workers'[i] = workers[i]
    BY <1>1
  <2> QED BY <2>4, <2>6, <2>7
<1>3. TypeOK'
  <2>1. Len(workers') <= MaxThreads /\ nthread' \in 0 .. MaxThreads
    BY <1>1, <1>2
  <2> QED BY <1>1, <1>2, <2>1 DEF IInv, TypeOK, getwork, link, jobs, stats
<1>4. PoolMatchesWorkers'
  <2> /\ workers \in Seq(Goroutine) /\ DOMAIN workers = 1 .. Len(workers)
      /\ 1 .. n \subseteq DOMAIN workers
    BY <1>1 DEF IInv, TypeOK
  <2>1. ASSUME NEW i \in 1 .. n
        PROVE  slot[workers[i]] = i /\ workers[i] \notin stopped' /\ pc[workers[i]] # "idle"
    <3>1. slot[workers[i]] = i /\ workers[i] \notin stopped /\ pc[workers[i]] # "idle"
      BY DEF IInv, PoolMatchesWorkers
    <3>2. \A k \in DOMAIN workers : slot[workers[k]] = k
      BY DEF IInv, PoolMatchesWorkers
    <3> QED BY <1>1, <3>1, <3>2
  <2>2. ASSUME NEW w \in Goroutine, pc[w] # "idle", w \notin stopped'
        PROVE  slot[w] \in 1 .. n /\ workers'[slot[w]] = w
    <3>1. slot[w] \in DOMAIN workers /\ workers[slot[w]] = w
      BY <1>1, <2>2 DEF IInv, PoolMatchesWorkers
    <3> QED BY <1>1, <1>2, <2>2, <3>1
  <2> QED BY <1>1, <1>2, <2>1, <2>2 DEF PoolMatchesWorkers
<1>5. Slotted'
  <2>1. \A i \in DOMAIN workers : pc[workers[i]] # "idle"
    BY DEF IInv, PoolMatchesWorkers
  <2> QED BY <1>1, <2>1 DEF IInv, Slotted
<1>6. OneWriter' /\ Holding' /\ JobsFromConn' /\ Copied' /\ NeverAheadOfCounter'
  BY <1>1 DEF IInv, OneWriter, Holding, JobsFromConn, Copied, NeverAheadOfCounter,
     getwork, link, jobs
<1> QED BY <1>3, <1>4, <1>5, <1>6 DEF IInv

(* A step of a worker: the pool, the jobs and the connection stay as they  *)
(* are, and it moves only itself.                                          *)
LEMMA WorkerInv ==
  ASSUME IInv, NEW w \in Goroutine, Worker(w)
  PROVE  IInv'
<1> USE DEF TakeJob, TakeCounter, LoopTest, HashAndLoad, AddHashes, RecordShare,
     CompareBest, StoreBest, Return, LockConn, WriteShare, Worker, Goto,
     Done, ConnMuFree, Minable, StillCurrent, BeatsBest, PerPass, CountShare, Released
<1>1. UNCHANGED <<getwork, quit, pool>>
  OBVIOUS
<1>2. PICK l \in WorkerPC \ {"idle"} : pc' = [pc EXCEPT ![w] = l]
  BY DEF WorkerPC
<1>3. pc \in [Goroutine -> WorkerPC] /\ pc[w] # "idle"
  BY DEF IInv, TypeOK
<1>4. slot[w] \in Slots /\ counters \in [Slots -> Nat] /\ hashed \in [Slots -> Nat]
  BY <1>3 DEF IInv, TypeOK, Slotted
<1>5. pc[w] \in Submitting => /\ found[w] \in Seq(1 .. MaxDiff) /\ found[w] # <<>>
                               /\ Head(found[w]) \in 1 .. MaxDiff
                               /\ Tail(found[w]) \in Seq(1 .. MaxDiff)
                               /\ Len(Tail(found[w])) = Len(found[w]) - 1
  <2>1. found[w] \in Seq(1 .. MaxDiff) /\ (pc[w] \in Submitting => found[w] # <<>>)
    BY DEF IInv, TypeOK, Holding
  <2>2. \A q \in Seq(1 .. MaxDiff) : q # <<>> =>
          /\ Head(q) \in 1 .. MaxDiff /\ Tail(q) \in Seq(1 .. MaxDiff)
          /\ Len(Tail(q)) = Len(q) - 1
    OBVIOUS
  <2> QED BY <2>1, <2>2
<1>6. TypeOK'
  <2>1. pc' \in [Goroutine -> WorkerPC]
    BY <1>2, <1>3
  <2>2. connMu' \in Goroutine \cup {NoOne, Reader}
    BY DEF IInv, TypeOK
  <2>3. myjob' \in [Goroutine -> Jobs] /\ seen' \in [Goroutine -> 0 .. MaxJobs]
    <3>1. myjob' = myjob \/ myjob' = [myjob EXCEPT ![w] = job]
      OBVIOUS
    <3>2. seen' = seen \/ seen' = [seen EXCEPT ![w] = jobCounter]
      OBVIOUS
    <3>3. /\ myjob \in [Goroutine -> Jobs] /\ job \in Jobs
          /\ seen \in [Goroutine -> 0 .. MaxJobs] /\ jobCounter \in 0 .. MaxJobs
      BY DEF IInv, TypeOK
    <3>4. myjob' \in [Goroutine -> Jobs]
      BY <3>1, <3>3
    <3>5. seen' \in [Goroutine -> 0 .. MaxJobs]
      BY <3>2, <3>3
    <3> QED BY <3>4, <3>5
  <2>4. reg' \in [Goroutine -> Nat]
    BY <1>4 DEF IInv, TypeOK
  <2>5. found' \in [Goroutine -> Seq(1 .. MaxDiff)]
    <3>1. found \in [Goroutine -> Seq(1 .. MaxDiff)]
      BY DEF IInv, TypeOK
    <3>2. \A f \in Findings : f \in Seq(1 .. MaxDiff)
      BY DEF Findings
    <3>3. found' = found \/ \E q \in Seq(1 .. MaxDiff) : found' = [found EXCEPT ![w] = q]
      BY <1>5, <3>2 DEF Submitting
    <3> QED BY <3>1, <3>3
  <2>6. counters' \in [Slots -> Nat] /\ hashed' \in [Slots -> Nat]
    <3>1. reg[w] \in Nat
      BY DEF IInv, TypeOK
    <3>2. counters' = counters \/ counters' = [counters EXCEPT ![slot[w]] = reg[w] + Lanes]
      BY DEF stats
    <3>3. hashed' = hashed \/ hashed' = [hashed EXCEPT ![slot[w]] = @ + Lanes]
      BY DEF stats
    <3>4. \A k \in Nat : k + Lanes \in Nat
      BY EngineAssumption
    <3>5. counters' \in [Slots -> Nat]
      BY <1>4, <3>1, <3>2, <3>4
    <3>6. hashed' \in [Slots -> Nat]
      BY <1>4, <3>3, <3>4
    <3> QED BY <3>5, <3>6
  <2>7. submitted' \in Nat /\ bestShare' \in 0 .. MaxDiff /\ recorded' \subseteq 1 .. MaxDiff
    <3>1. submitted \in Nat /\ bestShare \in 0 .. MaxDiff /\ recorded \subseteq 1 .. MaxDiff
      BY DEF IInv, TypeOK
    <3>2. CASE RecordShare(w)
      <4>1. /\ submitted' = submitted + 1 /\ bestShare' = bestShare
            /\ recorded' = recorded \cup {Head(found[w])} /\ pc[w] \in Submitting
        BY <3>2 DEF Submitting
      <4>2. Head(found[w]) \in 1 .. MaxDiff
        BY <1>5, <4>1
      <4> HIDE DEF RecordShare
      <4>3. submitted' \in Nat /\ bestShare' \in 0 .. MaxDiff
        BY <3>1, <4>1
      <4>4. recorded' \subseteq 1 .. MaxDiff
        BY <3>1, <4>1, <4>2
      <4> QED BY <4>3, <4>4
    <3>3. CASE StoreBest(w)
      BY <1>5, <3>1, <3>3 DEF Submitting
    <3>4. CASE ~RecordShare(w) /\ ~StoreBest(w)
      <4>1. submitted' = submitted /\ bestShare' = bestShare /\ recorded' = recorded
        BY <3>4 DEF stats
      <4> QED BY <3>1, <4>1
    <3> QED BY <3>2, <3>3, <3>4
  <2>8. sent' \in Nat
    BY DEF IInv, TypeOK, stats
  <2> QED BY <1>1, <2>1, <2>2, <2>3, <2>4, <2>5, <2>6, <2>7, <2>8
        DEF IInv, TypeOK, getwork, link, jobs, pool
<1>7. PoolMatchesWorkers'
  <2>1. \A v \in Goroutine : pc'[v] # "idle" <=> pc[v] # "idle"
    BY <1>2, <1>3
  <2>2. \A i \in DOMAIN workers : workers[i] \in Goroutine
    BY DEF IInv, TypeOK
  <2> QED BY <1>1, <2>1, <2>2 DEF IInv, PoolMatchesWorkers, pool
<1>8. Slotted'
  BY <1>1, <1>2, <1>3 DEF IInv, Slotted, pool
<1>9. OneWriter'
  <2>0. gw' = gw
    BY <1>1 DEF getwork
  <2>1. CASE LockConn(w) \/ WriteShare(w)
    BY <1>3, <2>0, <2>1, EngineAssumption DEF IInv, TypeOK, OneWriter
  <2>2. CASE ~(LockConn(w) \/ WriteShare(w))
    <3>1. connMu' = connMu /\ pc[w] # "write" /\ pc'[w] # "write"
      BY <1>3, <2>2
    <3> QED BY <1>2, <1>3, <2>0, <3>1 DEF IInv, OneWriter
  <2> QED BY <2>1, <2>2
<1>10. Holding'
  <2>1. ASSUME pc'[w] \in Submitting PROVE found'[w] # <<>>
    <3>1. found \in [Goroutine -> Seq(1 .. MaxDiff)]
      BY DEF IInv, TypeOK
    <3>2. CASE AddHashes(w)
      BY <1>3, <2>1, <3>2 DEF Submitting
    <3>3. CASE RecordShare(w) \/ CompareBest(w) \/ StoreBest(w)
      BY <1>3, <1>5, <3>3 DEF Submitting
    <3>4. CASE LockConn(w) \/ WriteShare(w)
      BY <1>3, <1>5, <2>1, <3>1, <3>4 DEF Submitting
    <3>5. CASE TakeJob(w) \/ TakeCounter(w) \/ LoopTest(w) \/ HashAndLoad(w)
      BY <1>3, <2>1, <3>5 DEF Submitting
    <3> QED BY <3>2, <3>3, <3>4, <3>5
  <2>2. \A v \in Goroutine \ {w} : pc'[v] = pc[v] /\ found'[v] = found[v]
    BY <1>2, <1>3 DEF IInv, TypeOK
  <2> QED BY <2>1, <2>2 DEF IInv, Holding
<1>11. JobsFromConn'
  BY <1>1 DEF IInv, JobsFromConn, getwork, link, jobs
<1>12. job' = job /\ jobCounter' = jobCounter
  BY <1>1 DEF getwork, jobs
<1>13. Copied'
  <2>1. job.n = jobCounter /\ jobCounter \in Nat /\ (job.good => job.n > 0)
    BY DEF IInv, TypeOK, JobsFromConn
  <2>2. \A v \in Goroutine : myjob'[v] \in {myjob[v], job} /\ seen'[v] \in {seen[v], jobCounter}
    BY DEF IInv, TypeOK
  <2> QED BY <1>12, <2>1, <2>2 DEF IInv, Copied
<1>14. NeverAheadOfCounter'
  <2>1. ASSUME pc'[w] \in Looping
        PROVE  /\ 0 < myjob'[w].n /\ myjob'[w].n <= seen'[w] /\ seen'[w] <= jobCounter
               /\ myjob'[w].good
    <3>1. CASE TakeCounter(w)
      BY <1>3, <2>1, <3>1 DEF IInv, TypeOK, Copied, Looping, Submitting
    <3>2. CASE ~TakeCounter(w)
      <4>1. pc[w] \in Looping /\ myjob' = myjob /\ seen' = seen
        BY <1>3, <2>1, <3>2 DEF Looping, Submitting
      <4> QED BY <4>1 DEF IInv, NeverAheadOfCounter
    <3> QED BY <3>1, <3>2
  <2>2. \A v \in Goroutine \ {w} : pc'[v] = pc[v] /\ myjob'[v] = myjob[v] /\ seen'[v] = seen[v]
    BY <1>2, <1>3 DEF IInv, TypeOK
  <2> QED BY <1>12, <2>1, <2>2 DEF IInv, NeverAheadOfCounter
<1> QED BY <1>6, <1>7, <1>8, <1>9, <1>10, <1>11, <1>13, <1>14 DEF IInv

LEMMA StutterInv == ASSUME IInv, UNCHANGED vars PROVE IInv'
  BY DEF IInv, TypeOK, PoolMatchesWorkers, Slotted, OneWriter, Holding, JobsFromConn,
     Copied, NeverAheadOfCounter, vars, getwork, rest, others, link, jobs, pool, stats

(* The conjunction of the parts holds in every state of every execution.   *)
THEOREM Invariance == Spec => []IInv
<1>1. Init => IInv
  BY InitInv
<1>2. IInv /\ [Next]_vars => IInv'
  <2> SUFFICES ASSUME IInv, [Next]_vars PROVE IInv'
    OBVIOUS
  <2>1. CASE Getwork \/ ConnBreaks \/ Stop
    BY <2>1, GetworkInv
  <2>2. ASSUME NEW n \in 0 .. MaxThreads + 1, SetThreads(n) PROVE IInv'
    BY <2>2, GrowInv, ShrinkInv DEF SetThreads
  <2>3. ASSUME NEW w \in Goroutine, Worker(w) PROVE IInv'
    BY <2>3, WorkerInv
  <2>4. CASE UNCHANGED vars
    BY <2>4, StutterInv
  <2> QED BY <2>1, <2>2, <2>3, <2>4 DEF Next
<1> QED BY <1>1, <1>2, PTL DEF Spec

(* Every variable keeps its type, whatever the constants.                  *)
THEOREM TypeInvariant == Spec => []TypeOK
<1>1. IInv => TypeOK
  BY DEF IInv
<1> QED BY <1>1, Invariance, PTL

(* The pool SetThreads keeps and the workers it started agree always.      *)
THEOREM PoolInvariant == Spec => []PoolMatchesWorkers
<1>1. IInv => PoolMatchesWorkers
  BY DEF IInv
<1> QED BY <1>1, Invariance, PTL

(* Mutual exclusion on the websocket.                                      *)
THEOREM MutualExclusion == Spec => []OneWriter
<1>1. IInv => OneWriter
  BY DEF IInv
<1> QED BY <1>1, Invariance, PTL

(* A worker's job lags behind the published counter or equals it.          *)
THEOREM JobsInOrder == Spec => []NeverAheadOfCounter
<1>1. IInv => NeverAheadOfCounter
  BY DEF IInv
<1> QED BY <1>1, Invariance, PTL

(* submit() never takes its early return: there is a connection by the     *)
(* time a worker has a job, and it is never taken away.                    *)
THEOREM ShareHasConn == Spec => []NoShareWithoutConn
<1>1. IInv => NoShareWithoutConn
  <2> SUFFICES ASSUME IInv, NEW w \in Goroutine, pc[w] \in Submitting PROVE conn # 0
    BY DEF NoShareWithoutConn
  <2>1. 0 < myjob[w].n /\ myjob[w].n <= jobCounter /\ jobCounter \in Nat /\ myjob[w].n \in Nat
    BY DEF IInv, TypeOK, Jobs, Copied, NeverAheadOfCounter, Looping
  <2> QED BY <2>1 DEF IInv, JobsFromConn
<1> QED BY <1>1, Invariance, PTL

(* A write keeps the connection it began with: RunGetWork needs the lock   *)
(* the writer holds to replace it, and a lost one is not cleared.          *)
THEOREM WriteKeepsConn == Spec => ConnStableWhileWriting
<1> DEFINE Step == \A w \in Goroutine : pc[w] = "write" => conn' = conn
<1>1. IInv /\ [Next]_vars => [Step]_vars
  <2> SUFFICES ASSUME IInv, Next, NEW w \in Goroutine, pc[w] = "write" PROVE conn' = conn
    OBVIOUS
  <2>1. connMu # NoOne
    BY EngineAssumption DEF IInv, OneWriter
  <2>2. CASE Getwork \/ ConnBreaks \/ Stop
    BY <2>1, <2>2 DEF Getwork, BeginDial, DialFails, RetryOrQuit, DialSucceeds, InstallConn,
       UnlockConn, PublishJob, AnnounceMining, ReadFails, ConnMuFree, ConnAfterLoss, ConnBreaks, Stop, link
  <2>3. CASE \E n \in 0 .. MaxThreads + 1 : SetThreads(n)
    BY <2>3 DEF SetThreads, getwork, link
  <2>4. CASE \E v \in Goroutine : Worker(v)
    BY <2>4 DEF Worker, TakeJob, TakeCounter, LoopTest, HashAndLoad, AddHashes, RecordShare,
       CompareBest, StoreBest, LockConn, WriteShare, getwork, link
  <2> QED BY <2>2, <2>3, <2>4 DEF Next
<1>2. Spec => [][Step]_vars
  BY <1>1, Invariance, PTL DEF Spec
<1> QED BY <1>2 DEF ConnStableWhileWriting

-----------------------------------------------------------------------------
(* The work that is shown.  A worker about to write its counter back read  *)
(* it before its own pass was computed; a worker past RecordShare holds    *)
(* one share that is counted and not yet written; a best share still       *)
(* unset is about to be set by a worker that recorded one.                 *)
InFlight == {w \in Goroutine : pc[w] \in Submitting \ {"record"}}
Rating   == {"compare", "store"}

ReadInTime == \A w \in Goroutine : pc[w] = "add" => reg[w] + Lanes <= hashed[slot[w]]

SentInv == IsFiniteSet(InFlight) /\ sent + Cardinality(InFlight) <= submitted

BestInv ==
  /\ bestShare \in recorded \cup {0}
  /\ \A w \in Goroutine : pc[w] \in Rating => Head(found[w]) \in recorded
  /\ recorded # {} => bestShare > 0 \/ \E w \in Goroutine : pc[w] \in Rating

CountInv == NeverOvercounts /\ ReadInTime /\ SentInv /\ BestInv

LEMMA CountInit == Init => CountInv
<1> SUFFICES ASSUME Init PROVE CountInv
  OBVIOUS
<1>1. NeverOvercounts /\ ReadInTime
  BY DEF Init, NeverOvercounts, ReadInTime
<1>2. SentInv
  <2>1. InFlight = {}
    BY DEF Init, InFlight, Submitting
  <2> QED BY <2>1, FS_EmptySet DEF Init, SentInv
<1>3. BestInv
  BY DEF Init, BestInv, Rating
<1> QED BY <1>1, <1>2, <1>3 DEF CountInv

(* A step that leaves what workers hold and the statistics alone, and      *)
(* starts or stops no worker inside its loop, keeps the counts.            *)
LEMMA CountsUntouched ==
  ASSUME CountInv, UNCHANGED <<reg, found, stats>>,
         \A w \in Goroutine : \/ pc'[w] = pc[w] /\ slot'[w] = slot[w]
                              \/ pc[w] = "idle" /\ pc'[w] = "top"
  PROVE  CountInv'
<1>1. UNCHANGED <<counters, submitted, bestShare, hashed, recorded, sent, reg, found>>
  BY DEF stats
<1>2. NeverOvercounts' /\ ReadInTime'
  BY <1>1 DEF CountInv, NeverOvercounts, ReadInTime
<1>3. SentInv'
  <2>1. InFlight' = InFlight
    BY DEF InFlight, Submitting
  <2> QED BY <1>1, <2>1 DEF CountInv, SentInv
<1>4. BestInv'
  BY <1>1 DEF CountInv, BestInv, Rating
<1> QED BY <1>2, <1>3, <1>4 DEF CountInv

LEMMA OthersCount ==
  ASSUME IInv, CountInv,
         \/ Getwork \/ ConnBreaks \/ Stop \/ UNCHANGED vars
         \/ \E n \in 0 .. MaxThreads + 1 : SetThreads(n)
  PROVE  CountInv'
<1>1. CASE Getwork \/ ConnBreaks \/ Stop
  BY <1>1, CountsUntouched DEF Getwork, BeginDial, DialFails, RetryOrQuit, DialSucceeds, InstallConn,
     UnlockConn, PublishJob, AnnounceMining, ReadFails, ConnBreaks, Stop, rest, others, pool
<1>2. CASE UNCHANGED vars
  BY <1>2, CountsUntouched DEF vars, rest, others, pool
<1>3. ASSUME NEW n \in 0 .. MaxThreads + 1, SetThreads(n) PROVE CountInv'
  <2>0. UNCHANGED <<reg, found, stats>>
    BY <1>3 DEF SetThreads
  <2>1. CASE Shrink(n)
    BY <2>0, <2>1, CountsUntouched DEF Shrink
  <2>2. CASE Grow(n)
    <3>1. PICK g \in Fresh(n - Len(workers)) :
            LET slotOf(w) == {Len(workers) + i : i \in {k \in DOMAIN g : g[k] = w}}
            IN  /\ pc' = [w \in Goroutine |-> IF slotOf(w) = {} THEN pc[w] ELSE "top"]
                /\ slot' = [w \in Goroutine |->
                      IF slotOf(w) = {} THEN slot[w] ELSE CHOOSE s \in slotOf(w) : TRUE]
      BY <2>2 DEF Grow
    <3>2. \A k \in DOMAIN g : pc[g[k]] = "idle"
      BY DEF Fresh
    <3>3. ASSUME NEW w \in Goroutine
          PROVE  \/ pc'[w] = pc[w] /\ slot'[w] = slot[w]
                 \/ pc[w] = "idle" /\ pc'[w] = "top"
      <4>1. CASE \E k \in DOMAIN g : g[k] = w
        BY <3>1, <3>2, <4>1
      <4>2. CASE ~ \E k \in DOMAIN g : g[k] = w
        BY <3>1, <4>2
      <4> QED BY <4>1, <4>2
    <3> QED BY <2>0, <3>3, CountsUntouched
  <2> QED BY <1>3, <2>1, <2>2 DEF SetThreads
<1> QED BY <1>1, <1>2, <1>3

(* What a worker's step moves: itself, and the counters of its own slot.   *)
LEMMA WorkerMoves ==
  ASSUME IInv, NEW w \in Goroutine, Worker(w)
  PROVE  /\ UNCHANGED slot /\ slot[w] \in Slots
         /\ \A v \in Goroutine \ {w} :
              pc'[v] = pc[v] /\ reg'[v] = reg[v] /\ found'[v] = found[v]
<1>1. UNCHANGED slot
  BY DEF Worker, TakeJob, TakeCounter, LoopTest, HashAndLoad, AddHashes, RecordShare,
     CompareBest, StoreBest, LockConn, WriteShare, pool
<1>2. pc[w] # "idle"
  BY DEF Worker, TakeJob, TakeCounter, LoopTest, HashAndLoad, AddHashes, RecordShare,
     CompareBest, StoreBest, LockConn, WriteShare
<1>3. \E l : pc' = [pc EXCEPT ![w] = l]
  BY DEF Worker, TakeJob, TakeCounter, LoopTest, HashAndLoad, AddHashes, RecordShare,
     CompareBest, StoreBest, LockConn, WriteShare, Goto, Return
<1>4. (reg' = reg \/ \E n : reg' = [reg EXCEPT ![w] = n])
      /\ (found' = found \/ \E f : found' = [found EXCEPT ![w] = f])
  BY DEF Worker, TakeJob, TakeCounter, LoopTest, HashAndLoad, AddHashes, RecordShare,
     CompareBest, StoreBest, LockConn, WriteShare, Return
<1>5. /\ DOMAIN pc = Goroutine /\ DOMAIN reg = Goroutine /\ DOMAIN found = Goroutine
      /\ pc = [v \in Goroutine |-> pc[v]] /\ reg = [v \in Goroutine |-> reg[v]]
      /\ found = [v \in Goroutine |-> found[v]]
  BY DEF IInv, TypeOK
<1> QED BY <1>1, <1>2, <1>3, <1>4, <1>5 DEF IInv, Slotted

(* Hashes: the counter of the worker's slot only.                          *)
LEMMA HashesCount ==
  ASSUME IInv, CountInv, NEW w \in Goroutine, Worker(w)
  PROVE  NeverOvercounts' /\ ReadInTime'
<1> DEFINE mine == slot[w]
<1>0. /\ UNCHANGED slot /\ mine \in Slots
      /\ \A v \in Goroutine \ {w} : pc'[v] = pc[v] /\ reg'[v] = reg[v]
  BY WorkerMoves
<1>t. /\ counters \in [Slots -> Nat] /\ hashed \in [Slots -> Nat] /\ reg \in [Goroutine -> Nat]
      /\ pc \in [Goroutine -> WorkerPC] /\ slot \in [Goroutine -> 0 .. MaxThreads] /\ Lanes \in Nat
  BY DEF IInv, TypeOK
<1>s. \A v \in Goroutine : pc[v] = "add" => slot[v] \in Slots
  BY DEF IInv, Slotted
<1>a. /\ \A s \in Slots : counters[s] <= hashed[s]
      /\ \A v \in Goroutine : pc[v] = "add" => reg[v] + Lanes <= hashed[slot[v]]
  BY DEF CountInv, NeverOvercounts, ReadInTime
<1> HIDE DEF mine
<1>1. CASE HashAndLoad(w)
  <2>1. /\ reg' = [reg EXCEPT ![w] = counters[mine]] /\ UNCHANGED counters
        /\ hashed' = [hashed EXCEPT ![mine] = @ + Lanes]
    BY <1>1 DEF HashAndLoad, mine
  <2>2. \A s \in Slots : hashed'[s] \in Nat /\ hashed[s] <= hashed'[s]
    BY <1>t, <2>1
  <2>3. NeverOvercounts'
    <3>1. \A s \in Slots : counters[s] \in Nat /\ hashed[s] \in Nat
      BY <1>t
    <3> QED BY <1>a, <2>1, <2>2, <3>1 DEF NeverOvercounts
  <2>4. reg'[w] + Lanes <= hashed'[mine]
    BY <1>0, <1>a, <1>t, <2>1
  <2>5. ASSUME NEW v \in Goroutine \ {w}, pc[v] = "add"
        PROVE  reg[v] + Lanes <= hashed'[slot[v]]
    <3>1. slot[v] \in Slots /\ reg[v] + Lanes <= hashed[slot[v]]
      BY <1>a, <1>s, <2>5
    <3>2. reg[v] \in Nat /\ hashed[slot[v]] \in Nat
      BY <1>t, <3>1
    <3> QED BY <1>t, <2>2, <3>1, <3>2
  <2> QED BY <1>0, <2>3, <2>4, <2>5 DEF ReadInTime, mine
<1>2. CASE AddHashes(w)
  <2>1. /\ counters' = [counters EXCEPT ![mine] = reg[w] + Lanes] /\ UNCHANGED <<hashed, reg>>
        /\ pc[w] = "add" /\ pc'[w] # "add"
    BY <1>2, <1>t DEF AddHashes, Goto, PerPass, mine
  <2>2. reg[w] + Lanes <= hashed[mine]
    BY <1>a, <2>1 DEF mine
  <2>3. NeverOvercounts'
    BY <1>0, <1>a, <1>t, <2>1, <2>2 DEF NeverOvercounts
  <2> QED BY <1>0, <1>a, <2>1, <2>3 DEF ReadInTime
<1>3. CASE ~ HashAndLoad(w) /\ ~ AddHashes(w)
  <2>1. UNCHANGED <<counters, hashed, reg>>
    BY <1>3 DEF Worker, TakeJob, TakeCounter, LoopTest, RecordShare, CompareBest, StoreBest,
       LockConn, WriteShare, stats
  <2>2. pc'[w] # "add"
    BY <1>3, <1>t DEF Worker, TakeJob, TakeCounter, LoopTest, RecordShare, CompareBest, StoreBest,
       LockConn, WriteShare, Goto, Return
  <2> QED BY <1>0, <1>a, <2>1, <2>2 DEF NeverOvercounts, ReadInTime
<1> QED BY <1>1, <1>2, <1>3

(* Shares: one more in flight for one more counted, one less for one sent. *)
LEMMA SharesCount ==
  ASSUME IInv, CountInv, NEW w \in Goroutine, Worker(w)
  PROVE  SentInv'
<1>0. \A v \in Goroutine \ {w} : pc'[v] = pc[v]
  BY WorkerMoves
<1>t. sent \in Nat /\ submitted \in Nat /\ pc \in [Goroutine -> WorkerPC]
  BY DEF IInv, TypeOK
<1>a. IsFiniteSet(InFlight) /\ sent + Cardinality(InFlight) <= submitted
      /\ Cardinality(InFlight) \in Nat
  BY FS_CardinalityType DEF CountInv, SentInv
<1>1. CASE RecordShare(w)
  <2>1. submitted' = submitted + 1 /\ sent' = sent /\ pc[w] = "record" /\ pc'[w] = "compare"
    BY <1>1, <1>t DEF RecordShare, CountShare, Goto
  <2>2. InFlight' = InFlight \cup {w} /\ w \notin InFlight
    BY <1>0, <2>1 DEF InFlight, Submitting
  <2>3. IsFiniteSet(InFlight') /\ Cardinality(InFlight') = Cardinality(InFlight) + 1
    BY <1>a, <2>2, FS_AddElement
  <2> QED BY <1>a, <1>t, <2>1, <2>3 DEF SentInv
<1>2. CASE LockConn(w) \/ WriteShare(w)
  <2>1. submitted' = submitted /\ sent' \in {sent, sent + 1}
        /\ (sent' = sent + 1 => pc'[w] \notin Submitting \ {"record"}) /\ w \in InFlight
    BY <1>2, <1>t DEF LockConn, WriteShare, Return, Goto, stats, InFlight, Submitting
  <2>2. \/ InFlight' = InFlight /\ sent' = sent
        \/ InFlight' = InFlight \ {w}
    BY <1>0, <2>1 DEF InFlight
  <2>3. CASE InFlight' = InFlight /\ sent' = sent
    BY <1>a, <2>1, <2>3 DEF SentInv
  <2>4. CASE InFlight' = InFlight \ {w}
    <3>1. IsFiniteSet(InFlight') /\ Cardinality(InFlight') = Cardinality(InFlight) - 1
      BY <1>a, <2>1, <2>4, FS_RemoveElement
    <3> QED BY <1>a, <1>t, <2>1, <3>1 DEF SentInv
  <2> QED BY <2>2, <2>3, <2>4
<1>3. CASE ~ RecordShare(w) /\ ~ LockConn(w) /\ ~ WriteShare(w)
  <2>1. submitted' = submitted /\ sent' = sent
    BY <1>3 DEF Worker, TakeJob, TakeCounter, LoopTest, HashAndLoad, AddHashes, CompareBest,
       StoreBest, stats
  <2>2. pc[w] \in Submitting \ {"record"} <=> pc'[w] \in Submitting \ {"record"}
    BY <1>3, <1>t DEF Worker, TakeJob, TakeCounter, LoopTest, HashAndLoad, AddHashes, CompareBest,
       StoreBest, Goto, Submitting
  <2>3. InFlight' = InFlight
    BY <1>0, <2>2 DEF InFlight
  <2> QED BY <1>a, <2>1, <2>3 DEF SentInv
<1> QED BY <1>1, <1>2, <1>3

(* The best share: recorded first, and set by whoever finds it unset.      *)
LEMMA BestCounts ==
  ASSUME IInv, CountInv, NEW w \in Goroutine, Worker(w)
  PROVE  BestInv'
<1>0. \A v \in Goroutine \ {w} : pc'[v] = pc[v] /\ found'[v] = found[v]
  BY WorkerMoves
<1>t. /\ pc \in [Goroutine -> WorkerPC] /\ bestShare \in 0 .. MaxDiff
      /\ recorded \subseteq 1 .. MaxDiff
  BY DEF IInv, TypeOK
<1>h. pc[w] \in Submitting => Head(found[w]) \in 1 .. MaxDiff
  <2>1. found[w] \in Seq(1 .. MaxDiff) /\ (pc[w] \in Submitting => found[w] # <<>>)
    BY DEF IInv, TypeOK, Holding
  <2>2. \A q \in Seq(1 .. MaxDiff) : q # <<>> => Head(q) \in 1 .. MaxDiff
    OBVIOUS
  <2> QED BY <2>1, <2>2
<1>a. /\ bestShare \in recorded \cup {0}
      /\ \A v \in Goroutine : pc[v] \in Rating => Head(found[v]) \in recorded
      /\ recorded # {} => bestShare > 0 \/ \E v \in Goroutine : pc[v] \in Rating
  BY DEF CountInv, BestInv
<1>1. CASE RecordShare(w)
  <2>1. /\ recorded' = recorded \cup {Head(found[w])} /\ UNCHANGED <<bestShare, found>>
        /\ pc'[w] = "compare"
    BY <1>1, <1>t DEF RecordShare, Goto
  <2>2. pc'[w] \in Rating
    BY <2>1 DEF Rating
  <2>3. bestShare' \in recorded' \cup {0}
    BY <1>a, <2>1
  <2>4. \A v \in Goroutine : pc'[v] \in Rating => Head(found'[v]) \in recorded'
    BY <1>0, <1>a, <2>1
  <2> QED BY <2>2, <2>3, <2>4 DEF BestInv
<1>2. CASE CompareBest(w)
  <2>1. /\ UNCHANGED <<recorded, bestShare, found>> /\ pc[w] = "compare"
        /\ pc'[w] = IF Head(found[w]) > bestShare THEN "store" ELSE "lock"
    BY <1>2, <1>t DEF CompareBest, Goto, BeatsBest, stats
  <2>2. Head(found[w]) \in 1 .. MaxDiff /\ Head(found[w]) \in recorded
    BY <1>a, <1>h, <2>1 DEF Submitting, Rating
  <2>3. pc'[w] \in Rating \/ bestShare > 0
    BY <1>t, <2>1, <2>2 DEF Rating
  <2>4. \A v \in Goroutine : pc'[v] \in Rating => Head(found[v]) \in recorded
    BY <1>0, <1>a, <2>2
  <2> QED BY <1>a, <2>1, <2>3, <2>4 DEF BestInv
<1>3. CASE StoreBest(w)
  <2>1. /\ UNCHANGED <<recorded, found>> /\ pc[w] = "store" /\ pc'[w] = "lock"
        /\ bestShare' = Head(found[w])
    BY <1>3, <1>t DEF StoreBest, Goto
  <2>2. Head(found[w]) \in 1 .. MaxDiff /\ Head(found[w]) \in recorded
    BY <1>a, <1>h, <2>1 DEF Submitting, Rating
  <2>3. \A v \in Goroutine : pc'[v] \in Rating => Head(found[v]) \in recorded
    BY <1>0, <1>a, <2>1, <2>2
  <2> QED BY <2>1, <2>2, <2>3 DEF BestInv
<1>4. CASE ~ RecordShare(w) /\ ~ CompareBest(w) /\ ~ StoreBest(w)
  <2>1. UNCHANGED <<recorded, bestShare>>
    BY <1>4 DEF Worker, TakeJob, TakeCounter, LoopTest, HashAndLoad, AddHashes, LockConn,
       WriteShare, stats
  <2>2. pc[w] \notin Rating /\ pc'[w] \notin Rating
    BY <1>4, <1>t DEF Worker, TakeJob, TakeCounter, LoopTest, HashAndLoad, AddHashes, LockConn,
       WriteShare, Goto, Return, Rating
  <2> QED BY <1>0, <1>a, <2>1, <2>2 DEF BestInv
<1> QED BY <1>1, <1>2, <1>3, <1>4

(* What the console shows of the work was done, for any number of workers, *)
(* of lanes and of shares: no slot shows a hash that was not computed even *)
(* while two workers write its counter, no share is sent that was not      *)
(* counted, and the best share is one that was found (engine.go, 366-431). *)
THEOREM WorkShownIsReal == Spec => []CountsAreReal
<1>1. Init => IInv /\ CountInv
  BY InitInv, CountInit
<1>2. IInv /\ CountInv /\ [Next]_vars => CountInv'
  <2> SUFFICES ASSUME IInv, CountInv, [Next]_vars PROVE CountInv'
    OBVIOUS
  <2>1. ASSUME NEW w \in Goroutine, Worker(w) PROVE CountInv'
    BY <2>1, HashesCount, SharesCount, BestCounts DEF CountInv
  <2> QED BY <2>1, OthersCount DEF Next
<1>3. CountInv => CountsAreReal
  <2> SUFFICES ASSUME CountInv PROVE CountsAreReal
    OBVIOUS
  <2>1. CountedBeforeSent
    BY DEF CountInv, SentInv, InFlight, CountedBeforeSent
  <2>2. BestIsSomeShare
    BY DEF CountInv, BestInv, BestIsSomeShare, Rating, Submitting
  <2> QED BY <2>1, <2>2 DEF CountInv, CountsAreReal
<1> QED BY <1>1, <1>2, <1>3, Invariance, PTL DEF Spec
=============================================================================
