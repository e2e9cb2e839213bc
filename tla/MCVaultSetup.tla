----------------------------- MODULE MCVaultSetup -----------------------------
(***************************************************************************)
(* Instances of VaultSetup for TLC.                                         *)
(***************************************************************************)
EXTENDS VaultSetup, TLC

\* Safety only: nothing tells the operators apart, nor the mounts.
Symmetry == Permutations(Operators) \cup Permutations(Mounts)

=============================================================================
