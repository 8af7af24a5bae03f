--------------------------- MODULE GpuQueue ---------------------------
(***************************************************************************)
(* What gpu/derostorm_gpu.h promises the miner of dsg_submit and           *)
(* dsg_collect: a first-in first-out queue of batches with room for Depth. *)
(* A submit with no room fails and overwrites nothing; a collect returns   *)
(* the oldest batch outstanding.  Either may fail and leave the queue.     *)
(***************************************************************************)
EXTENDS Naturals, Sequences

CONSTANTS Batch, Depth

VARIABLES
  queue,   \* the batches submitted and not collected, oldest first
  out      \* what the last successful collect returned: <<>> or <<batch>>

Init == queue = <<>> /\ out = <<>>

Submit == /\ Len(queue) < Depth
          /\ \E b \in Batch : queue' = Append(queue, b)
          /\ UNCHANGED out

Collect == /\ queue # <<>>
           /\ queue' = Tail(queue)
           /\ out' = <<Head(queue)>>

Next == Submit \/ Collect

Spec == Init /\ [][Next]_<<queue, out>>
=============================================================================
