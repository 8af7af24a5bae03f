---------------------------- MODULE Engine ----------------------------
(***************************************************************************)
(* The mining engine of cmd/derostorm/engine.go: one getwork goroutine     *)
(* that keeps a websocket to the node and publishes the current job, and   *)
(* a pool of worker goroutines that hash it and send what meets the        *)
(* target.  Everything they share is a variable here; a step is the code   *)
(* between two accesses to shared state that another goroutine can see.    *)
(*                                                                         *)
(* Lines posted to the console are not part of this module: post() never   *)
(* blocks and never changes what the engine does (module Console).         *)
(***************************************************************************)
EXTENDS Naturals, Sequences, FiniteSets

CONSTANTS
  Goroutine,    \* the worker goroutines that may ever be started
  Reader,       \* the goroutine of RunGetWork, as a holder of e.connMu
  NoOne,        \* nobody: a mutex that is free
  MaxThreads,   \* maxThreads: how many slots the pool has
  Lanes,        \* 2 when the paired SHA-256 is available, else 1
  MaxDiff,      \* difficulties a hash can meet are 1..MaxDiff, 0 is no share
  MaxJobs,      \* bound: jobs the node sends
  MaxConns,     \* bound: connections that are made
  MaxHashes,    \* bound: hashes a slot may have before its worker starts another
  MaxShares     \* bound: shares found

ASSUME EngineAssumption ==
  /\ NoOne \notin Goroutine /\ Reader \notin Goroutine \cup {NoOne}
  /\ MaxThreads \in Nat
  /\ Lanes \in {1, 2}
  /\ MaxDiff \in Nat
  /\ MaxJobs \in Nat /\ MaxConns \in Nat /\ MaxHashes \in Nat /\ MaxShares \in Nat

VARIABLES
  gw,           \* where RunGetWork is
  state,        \* e.state
  conn,         \* e.conn: the number of the connection, 0 for nil
  dialled,      \* the connection RunGetWork holds and reads from
  alive,        \* whether that connection still works
  job,          \* e.job: its number, 0 before the first, and whether it can be mined
  jobCounter,   \* e.jobCounter
  quit,         \* e.quit is closed
  connMu,       \* who holds e.connMu
  workers,      \* e.workers: the goroutine each slot's stop channel belongs to
  stopped,      \* the goroutines whose stop channel is closed
  nthread,      \* e.nthread
  pc,           \* where each worker is
  slot,         \* tid: the slot a worker was started on
  myjob,        \* myjob: the copy of the job it mines
  seen,         \* localJobCounter
  reg,          \* the value a worker read last from a counter it will write back
  found,        \* the shares of the last hash not sent yet, first to last
  counters,     \* e.counters
  submitted,    \* e.submitted
  bestShare,    \* e.bestShare
  hashed,       \* history: hashes really computed on each slot
  recorded,     \* history: difficulties of the shares submit() has recorded
  sent          \* history: how many shares were written to a live connection

link    == <<conn, dialled, alive>>
jobs    == <<job, jobCounter>>
getwork == <<gw, state, link, jobs>>
pool    == <<workers, stopped, nthread, slot>>
stats   == <<counters, submitted, bestShare, hashed, recorded, sent>>
others  == <<quit, pool, pc, myjob, seen, reg, found, stats>>
rest    == <<connMu, others>>
vars    == <<getwork, rest>>

Slots == 1 .. MaxThreads
Blank == [n |-> 0, good |-> FALSE]

(* The program counters. "idle" is a goroutine that was never started.     *)
GetworkPC == {"top", "dial", "wait", "install", "unlock", "read", "publish", "done"}
WorkerPC  == {"idle", "top", "counter", "loop", "count", "add",
              "record", "compare", "store", "lock", "write", "exited"}
States    == {"starting", "connecting", "reconnecting", "mining", "stopping"}

Live(w) == pc[w] \notin {"idle", "exited"}

Init ==
  /\ gw = "top" /\ state = "starting"
  /\ conn = 0 /\ dialled = 0 /\ alive = FALSE
  /\ job = Blank /\ jobCounter = 0
  /\ quit = FALSE /\ connMu = NoOne
  /\ workers = <<>> /\ stopped = {} /\ nthread = 0
  /\ pc = [w \in Goroutine |-> "idle"]
  /\ slot = [w \in Goroutine |-> 0]
  /\ myjob = [w \in Goroutine |-> Blank]
  /\ seen = [w \in Goroutine |-> 0]
  /\ reg = [w \in Goroutine |-> 0]
  /\ found = [w \in Goroutine |-> <<>>]
  /\ counters = [s \in Slots |-> 0] /\ hashed = [s \in Slots |-> 0]
  /\ submitted = 0 /\ bestShare = 0 /\ recorded = {} /\ sent = 0

-----------------------------------------------------------------------------
(* Tests and targets of the steps below, each with the slip it would be    *)
(* easy to make in its place.                                              *)

QuitOnly(w)      == quit
(* done() in RunMiner: its stop channel or e.quit is closed.               *)
Done(w)          == quit \/ w \in stopped

Unguarded        == TRUE
(* e.connMu can be taken.                                                  *)
ConnMuFree       == connMu = NoOne

Anything(j)      == TRUE
(* The blob decodes to 48 bytes of version 1 and the difficulty is > 0.    *)
Minable(j)       == j.good

Always(w)        == TRUE
(* localJobCounter == atomic.LoadInt64(&e.jobCounter)                      *)
StillCurrent(w)  == seen[w] = jobCounter

Below(d)         == d < bestShare
(* d > atomic.LoadUint64(&e.bestShare)                                     *)
BeatsBest(d)     == d > bestShare

NeverReleased    == connMu
(* Who holds e.connMu after the unlock of its holder.                      *)
Released         == NoOne

OneMore(n)       == n \in 0 .. MaxThreads + 1
(* The bounds check of SetThreads.                                         *)
Allowed(n)       == n \in 0 .. MaxThreads

HighestKept(n)   == Len(workers) - n + 1 .. Len(workers)
(* The positions of e.workers a SetThreads that shrinks to n keeps.        *)
Kept(n)          == 1 .. n

Cleared          == 0
(* What e.conn is once the connection was lost: nobody touches it.         *)
ConnAfterLoss    == conn

ReadAgain        == "read"
(* Where RunGetWork goes when ReadJSON fails: out of the inner loop.       *)
AfterReadError   == "top"

ForEachOfThem    == Lanes * Lanes
(* *hashes++ for one nonce a pass, *hashes += 2 for a pair                 *)
PerPass          == Lanes

OnlyBest(d)      == IF d > bestShare THEN submitted + 1 ELSE submitted
(* atomic.AddUint64(&e.submitted, 1), whatever becomes of the share        *)
CountShare(d)    == submitted + 1

-----------------------------------------------------------------------------
(* RunGetWork *)

(* The head of the outer loop: leave when stopping, else announce a dial.  *)
BeginDial ==
  /\ gw = "top"
  /\ \/ quit /\ gw' = "done" /\ UNCHANGED state
     \/ /\ ~quit
        /\ gw' = "dial"
        /\ state' = IF state = "starting" THEN "connecting" ELSE "reconnecting"
  /\ UNCHANGED <<link, jobs, rest>>

DialFails ==
  /\ gw = "dial" /\ gw' = "wait"
  /\ UNCHANGED <<state, link, jobs, rest>>

(* The select after a failed dial: ten seconds, or e.quit.                 *)
RetryOrQuit ==
  /\ gw = "wait"
  /\ gw' \in IF quit THEN {"top", "done"} ELSE {"top"}
  /\ UNCHANGED <<state, link, jobs, rest>>

DialSucceeds ==
  /\ gw = "dial" /\ gw' = "install"
  /\ dialled < MaxConns
  /\ dialled' = dialled + 1 /\ alive' = TRUE
  /\ UNCHANGED <<state, conn, jobs, rest>>

(* e.connMu.Lock(); e.conn = conn: from here a worker in submit() waits    *)
InstallConn ==
  /\ gw = "install" /\ gw' = "unlock"
  /\ ConnMuFree /\ connMu' = Reader
  /\ conn' = dialled
  /\ UNCHANGED <<state, dialled, alive, jobs, others>>

(* ... until e.connMu.Unlock()                                             *)
UnlockConn ==
  /\ gw = "unlock" /\ gw' = "read"
  /\ connMu' = Released
  /\ UNCHANGED <<state, link, jobs, others>>

(* ReadJSON returned a job: under e.mu, replace it and bump the counter.   *)
PublishJob ==
  /\ gw = "read" /\ gw' = "publish"
  /\ alive /\ jobCounter < MaxJobs
  /\ jobCounter' = jobCounter + 1
  /\ \E good \in BOOLEAN : job' = [n |-> jobCounter', good |-> good]
  /\ UNCHANGED <<state, link, rest>>

(* e.setState(StateMining), after the job is out and the lock is released  *)
AnnounceMining ==
  /\ gw = "publish" /\ gw' = "read"
  /\ state' = "mining"
  /\ UNCHANGED <<link, jobs, rest>>

(* The node, or the network, breaks the connection.                        *)
ConnBreaks ==
  /\ alive /\ alive' = FALSE
  /\ UNCHANGED <<gw, state, conn, dialled, jobs, rest>>

(* ReadJSON failed: return when stopping, else redial from the outer loop. *)
ReadFails ==
  /\ gw = "read" /\ ~alive
  /\ \/ quit /\ gw' = "done" /\ UNCHANGED <<state, conn>>
     \/ /\ ~quit /\ gw' = AfterReadError
        /\ state' = "reconnecting" /\ conn' = ConnAfterLoss
  /\ UNCHANGED <<dialled, alive, jobs, rest>>

Getwork ==
  \/ BeginDial \/ DialFails \/ RetryOrQuit \/ DialSucceeds \/ InstallConn
  \/ UnlockConn \/ PublishJob \/ AnnounceMining \/ ReadFails

-----------------------------------------------------------------------------
(* Control: SetThreads, and the quit of runloop.go                         *)

(* The k goroutines a SetThreads starts, in order: any that never ran.     *)
Fresh(k) == {g \in [1 .. k -> {w \in Goroutine : pc[w] = "idle"}] :
               \A i, j \in 1 .. k : g[i] = g[j] => i = j}

Grow(n) ==
  /\ n > Len(workers)
  /\ \E g \in Fresh(n - Len(workers)) :
       LET slotOf(w) == {Len(workers) + i : i \in {k \in DOMAIN g : g[k] = w}}
       IN  /\ workers' = workers \o g
           /\ pc' = [w \in Goroutine |-> IF slotOf(w) = {} THEN pc[w] ELSE "top"]
           /\ slot' = [w \in Goroutine |->
                         IF slotOf(w) = {} THEN slot[w] ELSE CHOOSE s \in slotOf(w) : TRUE]
  /\ UNCHANGED stopped

Shrink(n) ==
  /\ n < Len(workers)
  /\ stopped' = stopped \cup {workers[i] : i \in DOMAIN workers \ Kept(n)}
  /\ workers' = [i \in 1 .. n |-> workers[i]]
  /\ UNCHANGED <<pc, slot>>

(* Both loops of SetThreads run under e.wmu, so the pool changes at once;  *)
(* a worker that is told to stop may still be running when it returns.     *)
SetThreads(n) ==
  /\ Allowed(n)
  /\ Grow(n) \/ Shrink(n)
  /\ nthread' = n
  /\ UNCHANGED <<getwork, quit, connMu, myjob, seen, reg, found, stats>>

(* quit() of the run loop: show stopping, then Engine.Stop closes e.quit.  *)
Stop ==
  /\ ~quit /\ quit' = TRUE
  /\ state' = "stopping"
  /\ UNCHANGED <<gw, link, jobs, connMu, pool, pc, myjob, seen, reg, found, stats>>

-----------------------------------------------------------------------------
(* RunMiner *)

Goto(w, l) == pc' = [pc EXCEPT ![w] = l]

(* for !done() { myjob := e.Job()                                          *)
TakeJob(w) ==
  /\ pc[w] = "top"
  /\ \/ Done(w) /\ Goto(w, "exited") /\ UNCHANGED myjob
     \/ ~Done(w) /\ Goto(w, "counter") /\ myjob' = [myjob EXCEPT ![w] = job]
  /\ UNCHANGED <<getwork, quit, connMu, pool, seen, reg, found, stats>>

(* localJobCounter := load of e.jobCounter, outside e.mu.  A job that      *)
(* cannot be mined sends the worker back to the top after a sleep.         *)
TakeCounter(w) ==
  /\ pc[w] = "counter"
  /\ seen' = [seen EXCEPT ![w] = jobCounter]
  /\ Goto(w, IF Minable(myjob[w]) THEN "loop" ELSE "top")
  /\ UNCHANGED <<getwork, quit, connMu, pool, myjob, reg, found, stats>>

(* The condition of the hashing loop.                                      *)
LoopTest(w) ==
  /\ pc[w] = "loop"
  /\ IF StillCurrent(w) /\ ~Done(w)
     THEN hashed[slot[w]] < MaxHashes /\ Goto(w, "count")
     ELSE Goto(w, "top")
  /\ UNCHANGED <<getwork, quit, connMu, pool, myjob, seen, reg, found, stats>>

(* What one pass finds: the difficulties of the nonces that met the        *)
(* target, in lane order.                                                  *)
Findings == UNION {[1 .. i -> 1 .. MaxDiff] : i \in 0 .. Lanes}

(* Hash, then the load of *hashes += Lanes ...                             *)
HashAndLoad(w) ==
  /\ pc[w] = "count" /\ Goto(w, "add")
  /\ reg' = [reg EXCEPT ![w] = counters[slot[w]]]
  /\ hashed' = [hashed EXCEPT ![slot[w]] = @ + Lanes]
  /\ \E f \in Findings :
       /\ f # <<>> => submitted + Len(f) <= MaxShares
       /\ found' = [found EXCEPT ![w] = f]
  /\ UNCHANGED <<getwork, quit, connMu, pool, myjob, seen,
                 counters, submitted, bestShare, recorded, sent>>

(* ... and its store, which is not atomic with the load                    *)
AddHashes(w) ==
  /\ pc[w] = "add"
  /\ Goto(w, IF found[w] = <<>> THEN "loop" ELSE "record")
  /\ counters' = [counters EXCEPT ![slot[w]] = reg[w] + PerPass]
  /\ UNCHANGED <<getwork, quit, connMu, pool, myjob, seen, reg, found,
                 submitted, bestShare, hashed, recorded, sent>>

(* submit: the counters first                                              *)
RecordShare(w) ==
  /\ pc[w] = "record" /\ Goto(w, "compare")
  /\ submitted' = CountShare(Head(found[w]))
  /\ recorded' = recorded \cup {Head(found[w])}
  /\ UNCHANGED <<getwork, quit, connMu, pool, myjob, seen, reg, found,
                 counters, bestShare, hashed, sent>>

CompareBest(w) ==
  /\ pc[w] = "compare"
  /\ Goto(w, IF BeatsBest(Head(found[w])) THEN "store" ELSE "lock")
  /\ UNCHANGED <<getwork, quit, connMu, pool, myjob, seen, reg, found, stats>>

StoreBest(w) ==
  /\ pc[w] = "store" /\ Goto(w, "lock")
  /\ bestShare' = Head(found[w])
  /\ UNCHANGED <<getwork, quit, connMu, pool, myjob, seen, reg, found,
                 counters, submitted, hashed, recorded, sent>>

(* submit returns: the next lane's share, or the head of the hashing loop  *)
Return(w) ==
  /\ found' = [found EXCEPT ![w] = Tail(@)]
  /\ Goto(w, IF Len(found[w]) > 1 THEN "record" ELSE "loop")

(* e.connMu.Lock(), and the early return when there is no connection       *)
LockConn(w) ==
  /\ pc[w] = "lock" /\ ConnMuFree
  /\ \/ conn = 0 /\ Return(w) /\ UNCHANGED connMu
     \/ conn # 0 /\ connMu' = w /\ Goto(w, "write") /\ UNCHANGED found
  /\ UNCHANGED <<getwork, quit, pool, myjob, seen, reg, stats>>

(* WriteJSON and the deferred unlock; an error is not looked at            *)
WriteShare(w) ==
  /\ pc[w] = "write" /\ Return(w)
  /\ connMu' = Released
  /\ sent' = IF alive /\ conn = dialled THEN sent + 1 ELSE sent
  /\ UNCHANGED <<getwork, quit, pool, myjob, seen, reg,
                 counters, submitted, bestShare, hashed, recorded>>

Worker(w) ==
  \/ TakeJob(w) \/ TakeCounter(w) \/ LoopTest(w) \/ HashAndLoad(w) \/ AddHashes(w)
  \/ RecordShare(w) \/ CompareBest(w) \/ StoreBest(w) \/ LockConn(w) \/ WriteShare(w)

-----------------------------------------------------------------------------
Next ==
  \/ Getwork \/ ConnBreaks \/ Stop
  \/ \E n \in 0 .. MaxThreads + 1 : SetThreads(n)
  \/ \E w \in Goroutine : Worker(w)

Spec == Init /\ [][Next]_vars

(* The Go scheduler runs every goroutine that can run, a write to the      *)
(* socket ends, and a sync.Mutex hands itself to a waiter that has been    *)
(* kept waiting (its starvation mode), hence the strong fairness on it.    *)
(* Nothing is assumed of the node: dials, jobs and breaks may never come.  *)
Fairness ==
  /\ WF_vars(BeginDial) /\ WF_vars(RetryOrQuit) /\ SF_vars(InstallConn)
  /\ WF_vars(UnlockConn) /\ WF_vars(AnnounceMining) /\ WF_vars(ReadFails)
  /\ \A w \in Goroutine : WF_vars(Worker(w)) /\ SF_vars(LockConn(w))

FairSpec == Spec /\ Fairness
=============================================================================
