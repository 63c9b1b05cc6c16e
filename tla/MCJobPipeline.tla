--------------------------- MODULE MCJobPipeline ---------------------------
(* JobPipeline for TLC.  Consumers are interchangeable, so the safety run  *)
(* uses their symmetry; the instance with liveness has none.               *)
EXTENDS JobPipeline, TLC

WorkerSymmetry == Permutations(Workers)
=============================================================================
