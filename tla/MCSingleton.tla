---------------------------- MODULE MCSingleton -----------------------------
(***************************************************************************)
(* Small instances of DaemonSingleton for TLC.                             *)
(***************************************************************************)
EXTENDS DaemonSingleton, TLC

Symmetry == Permutations(Daemons) \cup Permutations(Clients) \cup Permutations(Files)

=============================================================================
