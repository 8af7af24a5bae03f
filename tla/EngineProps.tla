-------------------------- MODULE EngineProps --------------------------
(***************************************************************************)
(* What the engine has to keep true whatever the order in which the        *)
(* getwork goroutine, the workers and SetThreads take their steps.         *)
(***************************************************************************)
EXTENDS Engine

Submitting == {"record", "compare", "store", "lock", "write"}
Looping    == {"loop", "count", "add"} \cup Submitting
Jobs       == [n : 0 .. MaxJobs, good : BOOLEAN]

(* Every variable keeps its type.                                          *)
TypeOK ==
  /\ gw \in GetworkPC /\ state \in States
  /\ conn \in 0 .. MaxConns /\ dialled \in 0 .. MaxConns /\ alive \in BOOLEAN
  /\ job \in Jobs /\ jobCounter \in 0 .. MaxJobs
  /\ quit \in BOOLEAN /\ connMu \in Goroutine \cup {NoOne, Reader}
  /\ workers \in Seq(Goroutine) /\ Len(workers) <= MaxThreads
  /\ stopped \subseteq Goroutine /\ nthread \in 0 .. MaxThreads
  /\ pc \in [Goroutine -> WorkerPC]
  /\ slot \in [Goroutine -> 0 .. MaxThreads]
  /\ myjob \in [Goroutine -> Jobs] /\ seen \in [Goroutine -> 0 .. MaxJobs]
  /\ reg \in [Goroutine -> Nat]
  /\ found \in [Goroutine -> Seq(1 .. MaxDiff)]
  /\ counters \in [Slots -> Nat] /\ hashed \in [Slots -> Nat]
  /\ submitted \in Nat /\ bestShare \in 0 .. MaxDiff
  /\ recorded \subseteq 1 .. MaxDiff
  /\ sent \in Nat

(* The websocket allows one writer: only the holder of e.connMu is inside  *)
(* WriteJSON, never while RunGetWork puts another connection in its place, *)
(* and the holder is always at work, so the lock is not leaked by the      *)
(* early return of submit().                                               *)
OneWriter ==
  /\ \A w \in Goroutine : pc[w] = "write" <=> connMu = w
  /\ gw = "unlock" <=> connMu = Reader

(* The connection a share is being written to is not replaced by the       *)
(* getwork goroutine before the write is over.                             *)
ConnStableWhileWriting ==
  [][\A w \in Goroutine : pc[w] = "write" => conn' = conn]_vars

(* The early return of submit() for want of a connection loses no share:   *)
(* there is no work before there is a connection, and e.conn is never      *)
(* taken away, so no worker with a share finds it nil.                     *)
NoShareWithoutConn ==
  \A w \in Goroutine : pc[w] \in Submitting => conn # 0

(* SetThreads and the goroutines it started agree: e.nthread is the pool's *)
(* length, the worker at position i has slot i and has not been told to    *)
(* stop, and every worker that was not told to stop is in the pool.        *)
PoolMatchesWorkers ==
  /\ nthread = Len(workers)
  /\ \A i \in DOMAIN workers :
       slot[workers[i]] = i /\ workers[i] \notin stopped /\ pc[workers[i]] # "idle"
  /\ \A w \in Goroutine :
       pc[w] # "idle" /\ w \notin stopped =>
         slot[w] \in DOMAIN workers /\ workers[slot[w]] = w

(* The job a worker hashes, the counter it compares and the counter that   *)
(* is published are read at three moments without one lock.  The job never *)
(* runs ahead of the counter it is compared under, so the next change of   *)
(* the counter always ends the loop over it; and what is hashed is a job   *)
(* whose blob, difficulty and version were accepted.  The job may lag: a   *)
(* worker that copied it before a publication and loaded the counter after *)
(* keeps the old job until the next one arrives.                           *)
NeverAheadOfCounter ==
  \A w \in Goroutine : pc[w] \in Looping =>
     /\ 0 < myjob[w].n /\ myjob[w].n <= seen[w] /\ seen[w] <= jobCounter
     /\ myjob[w].good

(* A share is counted before it is written and written once: what reached  *)
(* the node and what workers still hold after counting it never exceed     *)
(* e.submitted.                                                            *)
CountedBeforeSent ==
  sent + Cardinality({w \in Goroutine : pc[w] \in Submitting \ {"record"}}) <= submitted

(* e.bestShare is never a difficulty no recorded share met, and is not     *)
(* lower than every one of them once nobody is inside submit().            *)
BestIsSomeShare ==
  /\ bestShare \in recorded \cup {0}
  /\ recorded # {} /\ (\A w \in Goroutine : pc[w] \notin Submitting) => bestShare > 0

(* engine.go:89 calls e.bestShare the highest difficulty a submitted share *)
(* met.  It does not hold, not even when nobody is inside submit(): two    *)
(* workers that both passed the comparison at 417 may store at 418 in      *)
(* either order, and the lower of the two may be last.                     *)
BestIsHighest ==
  (\A w \in Goroutine : pc[w] \notin Submitting) =>
     \A d \in recorded : bestShare >= d

(* A slot's counter never shows more hashes than were computed on it: two  *)
(* workers that share the slot for a moment can only lose counts.          *)
NeverOvercounts == \A s \in Slots : counters[s] <= hashed[s]

(* What the console shows of the work is work that was done: no hash that  *)
(* was not computed, no best share that no share met, and no share sent    *)
(* that was not counted.                                                   *)
CountsAreReal == NeverOvercounts /\ CountedBeforeSent /\ BestIsSomeShare

(* engine.go:68-70: a slot belongs to one running worker, which keeps its  *)
(* counter stable: what the console sums never falls.                      *)
CountersNeverFall == [][\A s \in Slots : counters'[s] >= counters[s]]_vars

-----------------------------------------------------------------------------
(* A worker that was told to stop, by SetThreads or by the quit, leaves.   *)
ToldWorkersLeave ==
  \A w \in Goroutine : (Live(w) /\ (quit \/ w \in stopped)) ~> pc[w] = "exited"

(* Once the counter has moved past the one a worker's loop compares with,  *)
(* that worker goes on to a newer job (or leaves): no worker hashes for    *)
(* ever under a counter that is gone.                                      *)
NewCounterReachesWorkers ==
  \A w \in Goroutine : \A c \in 1 .. MaxJobs - 1 :
     (pc[w] \in Looping /\ seen[w] = c /\ jobCounter > c)
        ~> (myjob[w].n > c \/ pc[w] = "exited")

(* A connection that is lost is dialled again, unless the miner stops.     *)
LostConnIsRedialled == (gw = "read" /\ ~alive) ~> (gw = "dial" \/ quit)
=============================================================================
