------------------------------- MODULE MCDump -------------------------------
(***************************************************************************)
(* Small instances of Dump for TLC.                                        *)
(***************************************************************************)
EXTENDS Dump, FiniteSets, TLC

CONSTANTS small, large

MCSize == [v \in {small, large} |-> IF v = small THEN 2 ELSE 3]

Symmetry == Permutations(Inodes) \cup Permutations(Savers)

\* Bound: once saves have overlapped, how much may be pending on the disk.
MaxPending == 2
FewPending ==
  overlap # "no" => /\ Cardinality(dirs) <= MaxPending
                    /\ \A i \in Inodes : Cardinality(kept[i]) <= MaxPending

=============================================================================
