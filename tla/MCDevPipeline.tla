--------------------------- MODULE MCDevPipeline ---------------------------
(* Small instances of DevPipeline.                                         *)
EXTENDS DevPipeline, TLC

ThreadSymmetry == Permutations(Threads)
=============================================================================
