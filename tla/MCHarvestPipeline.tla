-------------------------- MODULE MCHarvestPipeline --------------------------
(* Small instances of HarvestPipeline. *)
EXTENDS HarvestPipeline, TLC

CONSTANTS t1, t2, t3, p1, p2, b1, b2, b3, b4

ProcessSymmetry == Permutations(Processes) \cup Permutations(Batches)
=============================================================================
