--------------------------- MODULE MCSupervision ---------------------------
(***************************************************************************)
(* Small instances of Supervision for TLC.                                 *)
(***************************************************************************)
EXTENDS Supervision, TLC

\* Tasks and supervisors are interchangeable in the safety runs.
Symmetry == Permutations(Tasks) \cup Permutations(Sups)

=============================================================================
