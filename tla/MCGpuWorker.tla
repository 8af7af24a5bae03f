-------------------------- MODULE MCGpuWorker --------------------------
(* The instance of GpuWorker checked: two slots and a pipeline of two as   *)
(* in the build, three jobs of which the second cannot be mined, and three *)
(* nonce ranges so that the nonce wraps.                                   *)
EXTENDS GpuWorker

MCBatch == [job : 1 .. 3, base : 0 .. 2]
=============================================================================
