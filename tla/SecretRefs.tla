------------------------------ MODULE SecretRefs ------------------------------
(***************************************************************************)
(* What the owner of a service relies on, without Docker's secrets, their   *)
(* names and versions: the service reads at each of its mounts a value that *)
(* the manager has held for the mount's own path.  Synchronizations replace *)
(* values while the service runs; they never add, drop or cross mounts.     *)
(*                                                                         *)
(* They may replace a value by an older one: SyncRollback.                  *)
(***************************************************************************)
EXTENDS Naturals

CONSTANTS Paths, Services

VARIABLES
    written,        \* path -> the number of values the manager has held for it
    shown,          \* service -> what it reads: a set of Shown records
    deployments     \* deployments that owners are still to make

vars == <<written, shown, deployments>>

\* Value number 0 is that of a secret made by hand.
Shown == [mount : Paths, path : Paths, value : Nat]

Mounts(view) == {x.mount : x \in view}

\* One value at each mount, of the mount's own path.
Faithful(view) ==
    /\ \A x \in view : x.path = x.mount /\ x.value <= written[x.mount]
    /\ \A x, y \in view : x.mount = y.mount => x = y

\* No other service changes, and no value.
OnlyOf(s) ==
    /\ \A other \in Services \ {s} : shown'[other] = shown[other]
    /\ UNCHANGED written

Init ==
    /\ written \in [Paths -> Nat]
    /\ shown = [s \in Services |-> {}]
    /\ deployments \in Nat

\* The manager gets another value.
Write(p) ==
    /\ written' = [written EXCEPT ![p] = @ + 1]
    /\ UNCHANGED <<shown, deployments>>

\* The owner deploys the service, with any mounts.
Deploy(s) ==
    /\ OnlyOf(s)
    /\ Faithful(shown'[s])
    /\ deployments > 0
    /\ deployments' = deployments - 1

\* A synchronization updates the service.
Refresh(s) ==
    /\ OnlyOf(s)
    /\ Faithful(shown'[s])
    /\ Mounts(shown'[s]) = Mounts(shown[s])
    /\ UNCHANGED deployments

Next ==
    \/ \E p \in Paths : Write(p)
    \/ \E s \in Services : Deploy(s) \/ Refresh(s)

Spec == Init /\ [][Next]_vars

=============================================================================
