--------------------------- MODULE MCSyncScheduler ---------------------------
(***************************************************************************)
(* Instances of SyncScheduler for TLC.                                      *)
(***************************************************************************)
EXTENDS SyncScheduler, TLC

Symmetry == Permutations(Callers)

=============================================================================
