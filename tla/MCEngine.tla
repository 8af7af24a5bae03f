--------------------------- MODULE MCEngine ---------------------------
(* Bounds and symmetry for the runs of the engine.                         *)
EXTENDS EngineProps, TLC

Interchangeable == Permutations(Goroutine)
=============================================================================
