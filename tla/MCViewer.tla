------------------------------ MODULE MCViewer ------------------------------
(* Small instances of Viewer: two faces, which are alike.                  *)
EXTENDS Viewer, TLC

CONSTANTS A, B

Symmetry == Permutations(Faces)
=============================================================================
