------------------------ MODULE GpuRing_proofs ------------------------
(***************************************************************************)
(* Proofs about GpuRing: the ring's indices stay consistent whatever the   *)
(* number of slots, so the slots from tail on are the first-in first-out   *)
(* queue of gpu/derostorm_gpu.h.                                           *)
(***************************************************************************)
EXTENDS GpuRing, SequenceTheorems, TLAPS

(* The modulo of Succ, as the comparison it amounts to on a slot number.   *)
LEMMA SuccValue ==
  ASSUME NEW i \in SlotNo
  PROVE  Succ(i) = IF i + 1 = DSG_SLOTS THEN 0 ELSE i + 1
  BY RingAssumption DEF Succ, SlotNo

(* Consistent indices and typed contents: the inductive invariant.         *)
RingInv == RingTypeOK /\ HeadFollowsTail

LEMMA InitRing == RingInit => RingInv
  BY RingAssumption DEF RingInit, RingInv, RingTypeOK, HeadFollowsTail, SlotNo, Position

(* No outstanding slot is the one the next submit fills.                   *)
LEMMA HeadIsFree ==
  ASSUME RingInv, HasRoom, NEW i \in 1 .. inflight
  PROVE  Position(i) # head /\ Position(i) \in SlotNo
  BY RingAssumption DEF RingInv, RingTypeOK, HeadFollowsTail, HasRoom, Position, SlotNo

(* What a successful submit leaves in the outstanding slots.               *)
LEMMA SubmitKeeps ==
  ASSUME RingInv, NEW b \in Batch, SubmitOk(b)
  PROVE  /\ \A i \in 1 .. inflight + 1 :
              slot'[Position(i)'] = IF i = inflight + 1 THEN b ELSE slot[Position(i)]
         /\ inflight + 1 \in 1 .. DSG_SLOTS /\ inflight' = inflight + 1
<1>1. \A i \in Nat : Position(i)' = Position(i)
  BY DEF SubmitOk, Position
<1>2. \A i \in 1 .. inflight : Position(i) # head /\ Position(i) \in SlotNo
  BY HeadIsFree DEF SubmitOk
<1>3. head = Position(inflight + 1) /\ inflight + 1 \in 1 .. DSG_SLOTS
  BY RingAssumption DEF RingInv, RingTypeOK, HeadFollowsTail, SubmitOk, HasRoom
<1>4. slot \in [SlotNo -> Batch \cup {NoBatch}] /\ head \in SlotNo /\ inflight \in Nat
  BY RingAssumption DEF RingInv, RingTypeOK
<1>5. slot' = [slot EXCEPT ![head] = b] /\ inflight' = inflight + 1
  BY DEF SubmitOk
<1>6. slot'[Position(inflight + 1)] = b
  BY <1>3, <1>4, <1>5
<1>7. \A i \in 1 .. inflight : slot'[Position(i)'] = slot[Position(i)]
  BY <1>1, <1>2, <1>4, <1>5
<1>8. \A i \in 1 .. inflight + 1 : i \in Nat /\ (i # inflight + 1 => i \in 1 .. inflight)
  BY <1>4
<1> QED BY <1>1, <1>3, <1>5, <1>6, <1>7, <1>8

(* What a successful collect leaves: every batch moves one place forward.  *)
LEMMA CollectShifts ==
  ASSUME RingInv, CollectOk
  PROVE  /\ inflight' = inflight - 1 /\ inflight \in 1 .. DSG_SLOTS
         /\ tail = Position(1)
         /\ \A i \in 1 .. inflight' : Position(i)' = Position(i + 1)
<1>1. tail \in SlotNo /\ inflight \in 1 .. DSG_SLOTS /\ inflight' = inflight - 1
  BY RingAssumption DEF RingInv, RingTypeOK, CollectOk
<1>2. tail' = IF tail + 1 = DSG_SLOTS THEN 0 ELSE tail + 1
  BY <1>1, SuccValue DEF CollectOk
<1> QED BY <1>1, <1>2, RingAssumption DEF Position, SlotNo

LEMMA StepRing ==
  ASSUME RingInv, [RingNext]_ring
  PROVE  RingInv'
<1>0. /\ slot \in [SlotNo -> Batch \cup {NoBatch}]
      /\ head \in SlotNo /\ tail \in SlotNo /\ inflight \in 0 .. DSG_SLOTS
      /\ out \in {<<>>} \cup {<<b>> : b \in Batch}
  BY DEF RingInv, RingTypeOK
<1>1. ASSUME NEW b \in Batch, SubmitOk(b) PROVE RingInv'
  <2>1. head' = IF head + 1 = DSG_SLOTS THEN 0 ELSE head + 1
    BY <1>0, <1>1, SuccValue DEF SubmitOk
  <2>2. RingTypeOK'
    BY <1>0, <1>1, <2>1, RingAssumption DEF RingTypeOK, SubmitOk, HasRoom, SlotNo
  <2>3. (head = IF inflight = DSG_SLOTS THEN tail ELSE Position(inflight + 1))'
    BY <1>0, <1>1, <2>1, RingAssumption
      DEF RingInv, HeadFollowsTail, SubmitOk, HasRoom, Position, SlotNo
  <2>4. \A i \in 1 .. inflight' : slot'[Position(i)'] \in Batch
    <3>1. \A i \in 1 .. inflight + 1 : i = inflight + 1 \/ i \in 1 .. inflight
      BY <1>0
    <3> QED BY <3>1, <1>1, SubmitKeeps DEF RingInv, HeadFollowsTail
  <2> QED BY <2>2, <2>3, <2>4 DEF RingInv, HeadFollowsTail
<1>2. ASSUME NEW b \in Batch, SubmitFails(b) PROVE RingInv'
  <2>1. \A i \in 1 .. inflight : Position(i) # head /\ Position(i) \in SlotNo
    BY <1>2, HeadIsFree DEF SubmitFails
  <2>2. \A i \in Nat : Position(i)' = Position(i)
    BY <1>2 DEF SubmitFails, Position
  <2>3. RingTypeOK'
    BY <1>0, <1>2 DEF RingTypeOK, SubmitFails, HeadAfterError
  <2>4. \A i \in 1 .. inflight' : slot'[Position(i)'] \in Batch
    BY <1>0, <1>2, <2>1, <2>2 DEF RingInv, HeadFollowsTail, SubmitFails
  <2>5. (head = IF inflight = DSG_SLOTS THEN tail ELSE Position(inflight + 1))'
    BY <1>0, <1>2 DEF RingInv, HeadFollowsTail, SubmitFails, HeadAfterError, Position
  <2> QED BY <2>3, <2>4, <2>5 DEF RingInv, HeadFollowsTail
<1>3. CASE CollectOk
  <2>1. tail' = IF tail + 1 = DSG_SLOTS THEN 0 ELSE tail + 1
    BY <1>0, <1>3, SuccValue DEF CollectOk
  <2>2. slot[tail] \in Batch
    BY <1>0, <1>3, CollectShifts DEF RingInv, HeadFollowsTail
  <2>3. RingTypeOK'
    BY <1>0, <1>3, <2>1, <2>2, RingAssumption DEF RingTypeOK, CollectOk, SlotNo
  <2>4. \A i \in 1 .. inflight' : slot'[Position(i)'] \in Batch
    BY <1>0, <1>3, CollectShifts DEF RingInv, HeadFollowsTail, CollectOk
  <2>5. (head = IF inflight = DSG_SLOTS THEN tail ELSE Position(inflight + 1))'
    BY <1>0, <1>3, <2>1, RingAssumption
      DEF RingInv, HeadFollowsTail, CollectOk, Position, SlotNo
  <2> QED BY <2>3, <2>4, <2>5 DEF RingInv, HeadFollowsTail
<1>4. CASE UNCHANGED ring
  BY <1>4 DEF ring, RingInv, RingTypeOK, HeadFollowsTail, Position
<1> QED BY <1>1, <1>2, <1>3, <1>4 DEF RingNext, CollectFails

(* However the submits and the collects of a ring of any size alternate    *)
(* and fail, head stays inflight slots past tail: dsg_submit never writes  *)
(* the buffers of a slot whose batch is still on the card.                 *)
THEOREM HeadAlwaysFollowsTail == RingSpec => []RingInv
<1>1. RingInit => RingInv
  BY InitRing
<1>2. RingInv /\ [RingNext]_ring => RingInv'
  BY StepRing
<1> QED BY <1>1, <1>2, PTL DEF RingSpec

(* RingInv has both of the properties the run checks.                      *)
THEOREM RingInvariants == RingSpec => [](RingTypeOK /\ HeadFollowsTail)
  BY HeadAlwaysFollowsTail, PTL DEF RingInv

-----------------------------------------------------------------------------
(* The outstanding slots form a sequence of batches.                       *)
LEMMA OutstandingSeq ==
  ASSUME RingInv
  PROVE  Outstanding \in Seq(Batch) /\ Len(Outstanding) = inflight
<1>1. inflight \in Nat /\ Outstanding \in [1 .. inflight -> Batch]
  BY RingAssumption DEF RingInv, RingTypeOK, HeadFollowsTail, Outstanding
<1> QED BY <1>1

(* What the outstanding batches are after each kind of call.               *)
LEMMA SubmitAdds ==
  ASSUME RingInv, NEW b \in Batch, SubmitOk(b)
  PROVE  /\ inflight' = inflight + 1
         /\ Outstanding' = [i \in 1 .. inflight + 1 |-> IF i = inflight + 1 THEN b ELSE Outstanding[i]]
<1>1. Outstanding' = [i \in 1 .. inflight + 1 |-> slot'[Position(i)']]
  BY SubmitKeeps DEF Outstanding
<1>2. \A i \in 1 .. inflight + 1 :
        slot'[Position(i)'] = IF i = inflight + 1 THEN b ELSE Outstanding[i]
  BY SubmitKeeps, RingAssumption DEF Outstanding, RingInv, RingTypeOK
<1> QED BY <1>1, <1>2, SubmitKeeps

LEMMA CollectRemoves ==
  ASSUME RingInv, CollectOk
  PROVE  /\ inflight' = inflight - 1 /\ inflight \in 1 .. DSG_SLOTS
         /\ slot[tail] = Outstanding[1] /\ slot[tail] \in Batch
         /\ Outstanding' = [i \in 1 .. inflight - 1 |-> Outstanding[i + 1]]
<1>1. inflight \in 1 .. DSG_SLOTS /\ inflight' = inflight - 1 /\ tail = Position(1)
  BY CollectShifts
<1>2. Outstanding' = [i \in 1 .. inflight - 1 |-> slot'[Position(i)']]
  BY <1>1 DEF Outstanding
<1>3. \A i \in 1 .. inflight - 1 : slot'[Position(i)'] = Outstanding[i + 1]
  BY <1>1, CollectShifts, RingAssumption DEF Outstanding, CollectOk
<1>4. slot[tail] = Outstanding[1] /\ slot[tail] \in Batch
  BY <1>1, RingAssumption DEF Outstanding, RingInv, HeadFollowsTail
<1> QED BY <1>1, <1>2, <1>3, <1>4

LEMMA SubmitAppends ==
  ASSUME RingInv, NEW b \in Batch, SubmitOk(b)
  PROVE  Queue!Submit
<1>1. Outstanding \in Seq(Batch) /\ Len(Outstanding) = inflight /\ inflight \in Nat
  BY OutstandingSeq, RingAssumption DEF RingInv, RingTypeOK
<1>2. Outstanding' = [i \in 1 .. inflight + 1 |-> IF i = inflight + 1 THEN b ELSE Outstanding[i]]
  BY SubmitAdds
<1>3. Outstanding' = Append(Outstanding, b)
  <2>1. Outstanding' \in Seq(Batch) /\ Len(Outstanding') = inflight + 1
    BY <1>1, <1>2
  <2>2. /\ Append(Outstanding, b) \in Seq(Batch)
        /\ Len(Append(Outstanding, b)) = inflight + 1
        /\ \A i \in 1 .. inflight : Append(Outstanding, b)[i] = Outstanding[i]
        /\ Append(Outstanding, b)[inflight + 1] = b
    BY <1>1, AppendProperties
  <2>3. \A i \in 1 .. inflight + 1 : Outstanding'[i] = Append(Outstanding, b)[i]
    BY <1>1, <1>2, <2>2
  <2> QED BY <2>1, <2>2, <2>3, SeqEqual
<1>4. Len(Outstanding) < DSG_SLOTS /\ UNCHANGED out
  BY <1>1 DEF SubmitOk, HasRoom
<1> QED BY <1>3, <1>4 DEF Queue!Submit

LEMMA CollectTakesOldest ==
  ASSUME RingInv, CollectOk
  PROVE  Queue!Collect
<1>1. Outstanding \in Seq(Batch) /\ Len(Outstanding) = inflight
  BY OutstandingSeq
<1>2. inflight \in 1 .. DSG_SLOTS /\ inflight' = inflight - 1 /\ tail = Position(1)
  BY CollectShifts
<1>3. Outstanding # <<>> /\ Head(Outstanding) = slot[tail]
  BY <1>1, <1>2, RingAssumption DEF Outstanding
<1>4. Outstanding' = [i \in 1 .. inflight - 1 |-> Outstanding[i + 1]]
  BY CollectRemoves
<1>5. Outstanding' = Tail(Outstanding)
  <2>1. Outstanding' \in Seq(Batch) /\ Len(Outstanding') = inflight - 1
    BY <1>1, <1>2, <1>4, RingAssumption
  <2> QED BY <1>1, <1>3, <1>4, <2>1, HeadTailProperties, SeqEqual
<1> QED BY <1>3, <1>5 DEF Queue!Collect, CollectOk

(* A step that leaves the batches and out alone is a stutter of the queue. *)
LEMMA QuietStep ==
  ASSUME RingInv, UNCHANGED <<tail, inflight, out>>,
         \A i \in 1 .. inflight : slot'[Position(i)] = slot[Position(i)]
  PROVE  UNCHANGED <<Outstanding, out>>
<1>1. \A i \in Nat : Position(i)' = Position(i)
  BY DEF Position
<1>2. Outstanding' = [i \in 1 .. inflight |-> slot'[Position(i)]]
  BY <1>1 DEF Outstanding
<1> QED BY <1>2 DEF Outstanding

LEMMA FailureKeeps ==
  ASSUME RingInv, NEW b \in Batch, SubmitFails(b)
  PROVE  Outstanding' = Outstanding
<1>1. \A i \in 1 .. inflight : Position(i) # head /\ Position(i) \in SlotNo
  BY HeadIsFree DEF SubmitFails
<1>2. slot \in [SlotNo -> Batch \cup {NoBatch}]
  BY DEF RingInv, RingTypeOK
<1> QED BY <1>1, <1>2, QuietStep DEF SubmitFails

LEMMA StepQueue ==
  ASSUME RingInv, [RingNext]_ring
  PROVE  [Queue!Next]_<<Outstanding, out>>
<1>1. ASSUME NEW b \in Batch, SubmitOk(b) PROVE Queue!Next
  BY <1>1, SubmitAppends DEF Queue!Next
<1>2. ASSUME NEW b \in Batch, SubmitFails(b) PROVE UNCHANGED <<Outstanding, out>>
  BY <1>2, FailureKeeps DEF SubmitFails
<1>3. CASE CollectOk
  BY <1>3, CollectTakesOldest DEF Queue!Next
<1>4. CASE UNCHANGED ring
  BY <1>4, QuietStep DEF ring
<1> QED BY <1>1, <1>2, <1>3, <1>4 DEF RingNext, CollectFails

(* A ring of any number of slots is the first-in first-out queue           *)
(* gpu/derostorm_gpu.h promises: a submit with no room does nothing, and a *)
(* collect returns the oldest batch outstanding.                           *)
THEOREM RingImplementsQueue == RingSpec => ImplementsQueue
<1>1. RingInit => Queue!Init
  <2>1. RingInit => Outstanding = <<>>
    BY DEF RingInit, Outstanding
  <2> QED BY <2>1 DEF RingInit, Queue!Init
<1>2. RingInv /\ [RingNext]_ring => [Queue!Next]_<<Outstanding, out>>
  BY StepQueue
<1> QED BY <1>1, <1>2, HeadAlwaysFollowsTail, PTL DEF RingSpec, ImplementsQueue, Queue!Spec
=============================================================================
