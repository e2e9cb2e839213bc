--------------------------- MODULE MCVaultDocument ---------------------------
(***************************************************************************)
(* Instances of VaultDocument for TLC.                                      *)
(***************************************************************************)
EXTENDS VaultDocument, TLC

Symmetry == Permutations(Callers) \cup Permutations(Keys)

=============================================================================
