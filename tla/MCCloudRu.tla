------------------------------ MODULE MCCloudRu ------------------------------
(***************************************************************************)
(* Instances of CloudRu for TLC.                                            *)
(***************************************************************************)
EXTENDS CloudRu

MCRoots == {<<>>, <<"prod">>}

\* One name at the top, below the root, and below a folder of the root's name.
MCPlaces == {<<"db">>, <<"prod">>, <<"prod", "db">>, <<"prod", "prod", "db">>}

\* Plain, with slashes around, full, the root itself, with a folder of its
\* name, and with segments that are refused.
MCRequests == {<<"db">>, <<"", "db", "">>, <<"prod", "db">>, <<"prod">>,
               <<"prod", "prod", "db">>, <<"prod", "", "db">>, <<"..", "db">>,
               <<"">>}

=============================================================================
