------------------------------ MODULE Host ------------------------------
(***************************************************************************)
(* What surrounds the miner's loops: the status document, the libraries it *)
(* unpacks, the node it asks, its cards and their sensors, its settings,   *)
(* its sampler, the target of a job and the inputs that are hashed for it. *)
(* They share no state that is modelled, so no order of steps of two of    *)
(* them can show what each does not show alone: one of them, any one, is   *)
(* followed from the start, and the others stay where they begin.          *)
(***************************************************************************)
EXTENDS StatsFile, LibCache, NodeWatcher, Devices, Settings, Sampler,
        Target, NonceSpace

VARIABLE part   \* whose steps are followed

Followed == {"stats", "libraries", "node", "devices", "settings", "sampler", "target", "nonces"}

hostVars == <<part, statsVars, libVars, nodeVars, devVars, setVars, smVars, vars, nonceVars>>

HostInit ==
  /\ part \in Followed
  /\ StatsInit /\ LibInit /\ NodeInit /\ DevInit /\ SetInit /\ SmInit /\ Init /\ NonceInit

HostNext ==
  /\ UNCHANGED part
  /\ \/ /\ part = "stats" /\ StatsNextStep
        /\ UNCHANGED <<libVars, nodeVars, devVars, setVars, smVars, vars, nonceVars>>
     \/ /\ part = "libraries" /\ LibNext
        /\ UNCHANGED <<statsVars, nodeVars, devVars, setVars, smVars, vars, nonceVars>>
     \/ /\ part = "node" /\ NodeNext
        /\ UNCHANGED <<statsVars, libVars, devVars, setVars, smVars, vars, nonceVars>>
     \/ /\ part = "devices" /\ DevNext
        /\ UNCHANGED <<statsVars, libVars, nodeVars, setVars, smVars, vars, nonceVars>>
     \/ /\ part = "settings" /\ SetNext
        /\ UNCHANGED <<statsVars, libVars, nodeVars, devVars, smVars, vars, nonceVars>>
     \/ /\ part = "sampler" /\ SmNext
        /\ UNCHANGED <<statsVars, libVars, nodeVars, devVars, setVars, vars, nonceVars>>
     \/ /\ part = "target" /\ Next
        /\ UNCHANGED <<statsVars, libVars, nodeVars, devVars, setVars, smVars, nonceVars>>
     \/ /\ part = "nonces" /\ NonceNext
        /\ UNCHANGED <<statsVars, libVars, nodeVars, devVars, setVars, smVars, vars>>

FollowsNode(step) ==
  /\ part = "node" /\ step
  /\ UNCHANGED <<part, statsVars, libVars, devVars, setVars, smVars, vars, nonceVars>>

(* The goroutine runs when it can; an answer or a failure comes within the *)
(* client's three seconds; and select, which picks any case that is ready, *)
(* does not leave the closed channel out for ever.                         *)
HostSpec ==
  /\ HostInit /\ [][HostNext]_hostVars
  /\ WF_hostVars(FollowsNode(NodeLoop)) /\ SF_hostVars(FollowsNode(NodeEnds))

-----------------------------------------------------------------------------
(* What stands is not taken away by a call that fails: not the last good   *)
(* document, not the sample a node gave; and a node that does not answer   *)
(* is not asked again at once.                                             *)
FailuresTakeNothing == OnlyNewer /\ SampleStays /\ WalksSpaced

(* The watcher leaves once it is closed, also in the middle of a walk of   *)
(* the list with ticks waiting.                                            *)
WatcherEnds == part = "node" /\ nodeClosed ~> nodePC = "ended"
=============================================================================
