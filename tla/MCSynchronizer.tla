--------------------------- MODULE MCSynchronizer ---------------------------
(***************************************************************************)
(* Instances of Synchronizer for TLC.                                       *)
(***************************************************************************)
EXTENDS Synchronizer, TLC

CONSTANTS db, key

\* One path, two that share no name, and two of which the second is also the
\* name of version 2 of the first.
MCOnePath   == {<<db>>}
MCPlain     == {<<db>>, <<key>>}
MCNamesakes == {<<db>>, <<db, 2>>}

\* The operator knows the path whose name the other one can take ...
MCNamesakeByHand == {<<db, 2>>}

\* ... and version 2 of the other path has a name that is too long.
MCTooLong == {<<<<key>>, 2>>}

\* Nothing tells the services apart.
Symmetry == Permutations(Services)

=============================================================================
