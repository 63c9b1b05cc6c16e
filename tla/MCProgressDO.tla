---------------------------- MODULE MCProgressDO ----------------------------
(* Small instances of ProgressDO, and the mutants its properties rule out. *)
EXTENDS ProgressDO

MCTtls == {1, 2}
MCProgress == {0, 1}
=============================================================================
