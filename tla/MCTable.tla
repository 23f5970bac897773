------------------------------ MODULE MCTable ------------------------------
(***************************************************************************)
(* A small instance of ProcessTable for TLC.                               *)
(***************************************************************************)
EXTENDS ProcessTable, TLC

Symmetry == Permutations(Tasks) \cup Permutations(Names)

=============================================================================
