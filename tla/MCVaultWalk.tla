----------------------------- MODULE MCVaultWalk -----------------------------
(***************************************************************************)
(* Instances of VaultWalk for TLC.                                          *)
(***************************************************************************)
EXTENDS VaultWalk, TLC

\* "db" is a document and a folder, which has a folder in it.
MCDocuments == {<<"db">>, <<"db", "app", "main">>}

=============================================================================
