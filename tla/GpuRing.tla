---------------------------- MODULE GpuRing ----------------------------
(***************************************************************************)
(* The host side of the GPU library's batch pipeline: dsg_submit,          *)
(* dsg_collect and dsg_inflight of gpu/derostorm_gpu.cu over a ring of     *)
(* DSG_SLOTS slots.  A batch is whatever the caller handed over (work,     *)
(* first nonce, target); a slot holds the batch staged in its buffers.     *)
(* GpuStreams models what the card does with a slot meanwhile.             *)
(***************************************************************************)
EXTENDS Naturals, Sequences

CONSTANTS
  Batch,      \* what can be submitted
  NoBatch,    \* a slot nothing was staged in
  DSG_SLOTS

ASSUME RingAssumption == DSG_SLOTS \in Nat \ {0} /\ NoBatch \notin Batch

VARIABLES
  slot,       \* ctx->slot
  head,       \* ctx->head: slot the next submit fills
  tail,       \* ctx->tail: slot the next collect waits on
  inflight,   \* ctx->inflight
  out         \* what the last successful collect returned

ring == <<slot, head, tail, inflight, out>>

SlotNo == 0 .. DSG_SLOTS - 1

RingInit ==
  /\ slot = [i \in SlotNo |-> NoBatch]
  /\ head = 0 /\ tail = 0 /\ inflight = 0
  /\ out = <<>>

(* Slips: an index that does not wrap where it should, a check that lets   *)
(* one batch too many in, an error path that has already moved head.       *)
NoWrap(i)       == IF i + 1 < DSG_SLOTS THEN i + 1 ELSE i
(* (i + 1) % DSG_SLOTS                                                     *)
Succ(i)         == (i + 1) % DSG_SLOTS

OneTooMany      == inflight <= DSG_SLOTS
(* ctx->inflight >= DSG_SLOTS refuses the batch                            *)
HasRoom         == inflight < DSG_SLOTS

HeadMoved       == Succ(head)
(* head after a launch that failed part of the way: where it was           *)
HeadAfterError  == head

(* A launch that went through.                                             *)
SubmitOk(b) ==
  /\ HasRoom
  /\ slot' = [slot EXCEPT ![head] = b]
  /\ head' = Succ(head)
  /\ inflight' = inflight + 1
  /\ UNCHANGED <<tail, out>>

(* The batch was staged, and an upload or a launch failed after that.      *)
SubmitFails(b) ==
  /\ HasRoom
  /\ slot' = [slot EXCEPT ![head] = b]
  /\ head' = HeadAfterError
  /\ UNCHANGED <<tail, inflight, out>>

(* The event of the oldest batch fired: its slot is free again.            *)
CollectOk ==
  /\ inflight > 0
  /\ out' = <<slot[tail]>>
  /\ tail' = Succ(tail)
  /\ inflight' = inflight - 1
  /\ UNCHANGED <<slot, head>>

(* The wait or the card reported an error: nothing is taken off the ring.  *)
CollectFails == inflight > 0 /\ UNCHANGED ring

RingNext ==
  \/ \E b \in Batch : SubmitOk(b) \/ SubmitFails(b)
  \/ CollectOk \/ CollectFails

RingSpec == RingInit /\ [][RingNext]_ring

-----------------------------------------------------------------------------
(* The slots from tail on, inflight of them, are the queue.                *)
Position(i) == IF tail + i - 1 < DSG_SLOTS THEN tail + i - 1 ELSE tail + i - 1 - DSG_SLOTS

Outstanding == [i \in 1 .. inflight |-> slot[Position(i)]]

RingTypeOK ==
  /\ slot \in [SlotNo -> Batch \cup {NoBatch}]
  /\ head \in SlotNo /\ tail \in SlotNo /\ inflight \in 0 .. DSG_SLOTS
  /\ out \in {<<>>} \cup {<<b>> : b \in Batch}

(* head is inflight slots past tail, so the slot a submit fills is never   *)
(* one that is still on the card, and every outstanding slot holds a       *)
(* batch.                                                                  *)
HeadFollowsTail ==
  /\ head = IF inflight = DSG_SLOTS THEN tail ELSE Position(inflight + 1)
  /\ \A i \in 1 .. inflight : slot[Position(i)] \in Batch

Queue == INSTANCE GpuQueue WITH queue <- Outstanding, Depth <- DSG_SLOTS

(* The ring is the queue the header promises.                              *)
ImplementsQueue == Queue!Spec
=============================================================================
