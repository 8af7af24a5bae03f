-------------------------- MODULE NodeWatcher --------------------------
(***************************************************************************)
(* The goroutine of cmd/derostorm/nodeinfo.go that asks derod's JSON-RPC   *)
(* for what getwork does not carry, and the run loop's one log line about  *)
(* it (runloop.go).  An endpoint answers or fails each time it is asked;   *)
(* time passes while it is asked, and Close may come at any moment.        *)
(***************************************************************************)
EXTENDS Integers, Sequences

CONSTANTS
  endpoints,        \* w.endpoints, what rpcCandidates made of the config
  nodeInfoRetry,    \* ticks of nodeInfoInterval, 24 of them in the code
  MaxNodeNow,       \* bound: how long it is watched
  NoNode            \* no endpoint has answered

Endpoint == {endpoints[i] : i \in 1 .. Len(endpoints)}

ASSUME NodeAssumption ==
  /\ endpoints \in Seq(Endpoint) /\ Len(endpoints) > 0
  /\ \A i \in 1 .. Len(endpoints) : endpoints[i] \notin {NoNode, "unset", "none"}
  /\ nodeInfoRetry \in Nat /\ MaxNodeNow \in Nat

VARIABLES
  nodeNow,      \* the clock, in intervals
  nodeTick,     \* a tick waits in t.C
  nodePC,       \* "poll", "select" or "ended"
  nodeAt,       \* the endpoint of the list poll is at
  nodeCur,      \* w.cur.Endpoint: the sample is from it, and OK
  nodeNote,     \* w.note: "unset" for "", "none" or what endpoint answered
  nodeClosed,
  lastFail,     \* lastFail, the zero time before the first
  nodeSaid,     \* the note the run loop logged
  nodeWalks,    \* how many polls have failed, as far as two
  nodeFailedAt  \* history: when the last of them did

nodeVars == <<nodeNow, nodeTick, nodePC, nodeAt, nodeCur, nodeNote, nodeClosed, lastFail,
              nodeSaid, nodeWalks, nodeFailedAt>>
nodeHistory == <<nodeWalks, nodeFailedAt>>

LongAgo == -nodeInfoRetry - 1

NodeInit ==
  /\ nodeNow = 0 /\ nodeTick = FALSE /\ nodePC = "poll" /\ nodeAt = 1
  /\ nodeCur = NoNode /\ nodeNote = "unset" /\ nodeClosed = FALSE /\ lastFail = LongAgo
  /\ nodeSaid = "unset" /\ nodeWalks = 0 /\ nodeFailedAt = LongAgo

NodeClock ==
  /\ nodeNow < MaxNodeNow /\ nodeNow' = nodeNow + 1
  /\ nodeTick' = TRUE
  /\ UNCHANGED <<nodePC, nodeAt, nodeCur, nodeNote, nodeClosed, lastFail, nodeSaid, nodeHistory>>

-----------------------------------------------------------------------------
(* poll *)

(* A known-good endpoint is tried alone; only a cold start walks the list. *)
PollList    == IF nodeCur = NoNode THEN endpoints ELSE <<nodeCur>>

(* Slip: the first note stays. *)
FirstNote(url) == IF nodeNote = "unset" THEN url ELSE nodeNote
(* A note that is not of a node gives way to the one that is.              *)
GoodNote(url)  == IF nodeNote \in Endpoint THEN nodeNote ELSE url

(* getInfo answers.                                                        *)
PollAnswered ==
  /\ nodePC = "poll"
  /\ nodeCur' = PollList[nodeAt]
  /\ nodeNote' = GoodNote(PollList[nodeAt])
  /\ nodePC' = "select" /\ nodeAt' = 1
  /\ UNCHANGED <<nodeNow, nodeTick, nodeClosed, lastFail, nodeSaid, nodeHistory>>

(* Slip: one past the end. *)
OneMoreToTry == nodeAt <= Len(PollList)
MoreToTry    == nodeAt < Len(PollList)

(* getInfo fails: no connection, no answer in three seconds, not a node.   *)
PollTriesNext ==
  /\ nodePC = "poll" /\ MoreToTry
  /\ nodeAt' = nodeAt + 1
  /\ UNCHANGED <<nodeNow, nodeTick, nodePC, nodeCur, nodeNote, nodeClosed, lastFail, nodeSaid, nodeHistory>>

(* Slip: a failure clears it. *)
Blanked    == NoNode
(* Keep the last good sample rather than blanking the panel.               *)
KeptSample == nodeCur

(* The probe before the loop, whose result nobody takes.                   *)
FirstPoll == nodeCur = NoNode /\ nodeWalks = 0

PollFailed ==
  /\ nodePC = "poll" /\ nodeAt = Len(PollList)
  /\ nodeCur' = KeptSample
  /\ nodeNote' = IF nodeCur = NoNode /\ nodeNote = "unset" THEN "none" ELSE nodeNote
  /\ lastFail' = IF FirstPoll THEN lastFail ELSE nodeNow
  /\ nodeWalks' = IF nodeWalks < 2 THEN nodeWalks + 1 ELSE 2
  /\ nodeFailedAt' = nodeNow
  /\ nodePC' = "select" /\ nodeAt' = 1
  /\ UNCHANGED <<nodeNow, nodeTick, nodeClosed, nodeSaid>>

-----------------------------------------------------------------------------
(* loop *)

(* Slip: every tick polls. *)
EveryTickPolls == TRUE
RetryDue == nodeCur # NoNode \/ nodeNow - lastFail >= nodeInfoRetry

NodeTicks ==
  /\ nodePC = "select" /\ nodeTick
  /\ nodeTick' = FALSE
  /\ nodePC' = IF RetryDue THEN "poll" ELSE "select"
  /\ UNCHANGED <<nodeNow, nodeAt, nodeCur, nodeNote, nodeClosed, lastFail, nodeSaid, nodeHistory>>

(* Slip: not while the list is being walked. *)
OnceFound    == nodeClosed /\ nodeCur # NoNode
DoneIsClosed == nodeClosed

NodeEnds ==
  /\ nodePC = "select" /\ DoneIsClosed /\ nodePC' = "ended"
  /\ UNCHANGED <<nodeNow, nodeTick, nodeAt, nodeCur, nodeNote, nodeClosed, lastFail, nodeSaid, nodeHistory>>

NodeClose ==
  /\ ~nodeClosed /\ nodeClosed' = TRUE
  /\ UNCHANGED <<nodeNow, nodeTick, nodePC, nodeAt, nodeCur, nodeNote, lastFail, nodeSaid, nodeHistory>>

(* !nodeNoteSaid and there is a note                                       *)
NothingSaid  == nodeSaid = "unset" /\ nodeNote # "unset"

(* The run loop's sampler tick, on its own goroutine.                      *)
NodeNoteLogged ==
  /\ ~nodeClosed /\ NothingSaid
  /\ nodeSaid' = nodeNote
  /\ UNCHANGED <<nodeNow, nodeTick, nodePC, nodeAt, nodeCur, nodeNote, nodeClosed, lastFail, nodeHistory>>

NodeLoop == PollAnswered \/ PollTriesNext \/ PollFailed \/ NodeTicks \/ NodeEnds

NodeNext == NodeClock \/ NodeLoop \/ NodeClose \/ NodeNoteLogged

NodeSpec == NodeInit /\ [][NodeNext]_nodeVars

-----------------------------------------------------------------------------
NodeTypeOK ==
  /\ nodeNow \in 0 .. MaxNodeNow /\ nodeTick \in BOOLEAN
  /\ nodePC \in {"poll", "select", "ended"} /\ nodeAt \in 1 .. Len(endpoints)
  /\ nodeCur \in Endpoint \cup {NoNode} /\ nodeNote \in Endpoint \cup {"unset", "none"}
  /\ nodeClosed \in BOOLEAN /\ lastFail \in Int
  /\ nodeSaid \in Endpoint \cup {"unset", "none"} /\ nodeWalks \in 0 .. 2 /\ nodeFailedAt \in Int

(* The panel's note and its sample agree: it names the endpoint the sample *)
(* is from, and says there is none only while there is no sample.          *)
NoteTellsTheSource ==
  /\ nodeCur # NoNode => nodeNote = nodeCur
  /\ nodeNote \in Endpoint => nodeNote = nodeCur

(* What the panel says of the node and what it shows are from one          *)
(* endpoint.                                                               *)
NoteIsTrue == NodeTypeOK /\ NoteTellsTheSource

(* Once a node has answered its sample is never blanked nor taken from     *)
(* another node, whatever requests are dropped after it.                   *)
SampleStays == [][nodeCur # NoNode => nodeCur' = nodeCur]_nodeVars

(* While no endpoint answers, the list is walked again only after the      *)
(* whole retry time: but for the probe that follows the first, which did   *)
(* not leave its time in lastFail.                                         *)
WalksSpaced ==
  [][nodePC = "select" /\ nodePC' = "poll" /\ nodeCur = NoNode /\ nodeWalks = 2
       => nodeNow - nodeFailedAt >= nodeInfoRetry]_nodeVars

-----------------------------------------------------------------------------
(* nodeinfo.go:129: "if there is no endpoint the answer is cached for two  *)
(* minutes", the first one as well.                                        *)
FirstAnswerCached ==
  [][nodePC = "select" /\ nodePC' = "poll" /\ nodeCur = NoNode
       => nodeNow - nodeFailedAt >= nodeInfoRetry]_nodeVars
=============================================================================
