---------------------------- MODULE MCAutomation ----------------------------
(***************************************************************************)
(* A small instance of Automation for TLC.                                 *)
(***************************************************************************)
EXTENDS Automation, TLC

Symmetry == Permutations(Agents)

=============================================================================
