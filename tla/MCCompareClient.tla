-------------------------- MODULE MCCompareClient --------------------------
(* CompareClient for TLC: its constants are bounds, given in the .cfg.     *)
EXTENDS CompareClient
=============================================================================
