------------------------- MODULE MCGpuStreams -------------------------
(* The instance of GpuStreams checked: the build's two slots and two       *)
(* banks, batches of two or three chunks so that the banks alternate       *)
(* within a batch and, with three, from batch to batch.                    *)
EXTENDS GpuStreams

MCBatch == 1 .. 3
=============================================================================
