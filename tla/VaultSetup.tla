------------------------------ MODULE VaultSetup ------------------------------
(***************************************************************************)
(* The command "vault" of cscli (src/internal/application/cli/vault.go): it *)
(* prepares Vault's AppRole and the Docker secrets with which cloud-secrets *)
(* logs in.  A run is a sequence of requests to Vault and Docker with       *)
(* nothing that undoes them: a run that fails is run again, perhaps by      *)
(* someone else at the same time.                                           *)
(*                                                                         *)
(* Vault and Docker are external, modelled from how the command uses them.  *)
(* Reading the arguments comes before the first request and is part of      *)
(* Start.  A role is known by the number of its creation, and that number   *)
(* is also its role id and every secret id generated for it: what matters   *)
(* of two ids is whether they belong together.                              *)
(***************************************************************************)
EXTENDS Naturals

CONSTANTS
    Operators,      \* who runs the command
    Mounts,         \* KV v2 mount paths
    None,
    MaxFaults,      \* bound: failed requests, lost replies, declined questions
    MaxOverlaps,    \* bound: runs started while another one is going on
    MaxAdmin,       \* bound: what an administrator takes away in Vault
    MaxRemovals,    \* bound: secrets that an orphan cleanup removes
    MaxDeploys      \* bound: deployments of the cloud-secrets stack (it then stays)

ASSUME SetupAssumption ==
    /\ None \notin Mounts
    /\ {MaxFaults, MaxOverlaps, MaxAdmin, MaxRemovals, MaxDeploys} \subseteq Nat

VARIABLES
    approle,    \* Vault: what is mounted at auth/approle
    policy,     \* Vault: the mount that policy cloud-secrets gives access to
    role,       \* Vault: the role cloud-secrets, 0 if there is none
    nextRole,
    docker,     \* the Docker secrets: name -> value, 0 if there is none
    deployed,   \* the stack, by its VAULT_MOUNT_PATH, or None
    pc,         \* per operator: the next request
    mount,      \* per operator: mountPath
    roleID,     \* per operator: roleID, 0 before it is read
    secretID,   \* per operator: secretID, 0 before it is generated
    quiet,      \* per operator: nobody has taken anything away since the start,
                \* nor has a run for another mount overwritten the policy
    mixed,      \* someone has, in a way that can mix two roles
    budget

vaultVars == <<approle, policy, role, nextRole>>
swarmVars == <<docker, deployed>>
runVars == <<pc, mount, roleID, secretID>>
vars == <<vaultVars, swarmVars, runVars, quiet, mixed, budget>>

Names == {"role-id", "secret-id", "token"}

PC == {"idle", "store_token",
       "check", "enable", "policy", "role", "read_role_id",
       "create_secret_id", "store_role_id", "store_secret_id",
       "done", "failed"}

Budget == [faults : Nat, overlaps : Nat, admin : Nat, removals : Nat,
           deploys : Nat]

Running(o) == pc[o] # "idle"

Spend(kind) == budget[kind] > 0 /\ budget' = [budget EXCEPT ![kind] = @ - 1]

Goto(o, next) == pc' = [pc EXCEPT ![o] = next]

\* A request was done.  The run goes on, or its reply is lost and the run
\* ends with an error.
Replied(o, next) ==
    \/ Goto(o, next) /\ UNCHANGED budget
    \/ Goto(o, "failed") /\ Spend("faults")

\* A request was refused.
Refused(o) == Goto(o, "failed") /\ UNCHANGED budget

-----------------------------------------------------------------------------
(* Run                                                                       *)

\* The arguments are read and a method is selected.
Start(o) ==
    /\ pc[o] = "idle"
    /\ \E m \in Mounts : mount' = [mount EXCEPT ![o] = m]
    /\ Goto(o, "check") \/ Goto(o, "store_token")
    /\ \/ (\A p \in Operators : ~Running(p)) /\ UNCHANGED budget
       \/ Spend("overlaps")
    /\ UNCHANGED <<vaultVars, swarmVars, roleID, secretID, quiet, mixed>>

Return(o) ==
    /\ pc[o] \in {"done", "failed"}
    /\ Goto(o, "idle")
    /\ mount' = [mount EXCEPT ![o] = None]
    /\ roleID' = [roleID EXCEPT ![o] = 0]
    /\ secretID' = [secretID EXCEPT ![o] = 0]
    /\ quiet' = [quiet EXCEPT ![o] = TRUE]
    /\ UNCHANGED <<vaultVars, swarmVars, mixed, budget>>

-----------------------------------------------------------------------------
(* ensureAppRoleAuth                                                         *)

\* Mutant of AfterCheck: the methods are looked up by a name without a slash.
AfterCheckNeverFound == "enable"

\* What AppRoleAuthEnabled leads to.
AfterCheck ==
    CASE approle = "approle" -> "policy"
      [] approle = "none"    -> "enable"
      [] approle = "other"   -> "failed"

\* An interactive run asks before it enables, and ends if the answer is no.
AppRoleAuthEnabled(o) ==
    /\ pc[o] = "check"
    /\ \/ Goto(o, AfterCheck) /\ UNCHANGED budget
       \/ AfterCheck = "enable" /\ Goto(o, "failed") /\ Spend("faults")
    /\ UNCHANGED <<vaultVars, swarmVars, mount, roleID, secretID, quiet, mixed>>

\* Vault refuses a path that is in use.
EnableAppRoleAuth(o) ==
    /\ pc[o] = "enable"
    /\ \/ approle = "none" /\ approle' = "approle" /\ Replied(o, "policy")
       \/ approle # "none" /\ UNCHANGED approle /\ Refused(o)
    /\ UNCHANGED <<policy, role, nextRole, swarmVars, mount, roleID, secretID,
                   quiet, mixed>>

-----------------------------------------------------------------------------
(* initVaultAppRole, from there on                                           *)

\* The policy has one name, whatever the mount, and is overwritten: a run for
\* another mount loses what it has written, and goes on.
CreateACLPolicy(o) ==
    /\ pc[o] = "policy"
    /\ policy' = mount[o]
    /\ quiet' = [p \in Operators |->
                    quiet[p] /\ (Running(p) => mount[p] = mount[o])]
    /\ Replied(o, "role")
    /\ UNCHANGED <<approle, role, nextRole, swarmVars, mount, roleID, secretID,
                   mixed>>

\* Mutant of CreateAppRole: the role is made anew.
CreateAppRoleAnew(o) ==
    /\ pc[o] = "role"
    /\ role' = nextRole
    /\ nextRole' = nextRole + 1
    /\ Replied(o, "read_role_id")
    /\ UNCHANGED <<approle, policy, swarmVars, mount, roleID, secretID, quiet,
                   mixed>>

\* A role that is there is configured again and keeps its ids.
CreateAppRole(o) ==
    /\ pc[o] = "role"
    /\ \/ /\ approle = "approle"
          /\ role' = IF role = 0 THEN nextRole ELSE role
          /\ nextRole' = IF role = 0 THEN nextRole + 1 ELSE nextRole
          /\ Replied(o, "read_role_id")
       \/ approle # "approle" /\ UNCHANGED <<role, nextRole>> /\ Refused(o)
    /\ UNCHANGED <<approle, policy, swarmVars, mount, roleID, secretID, quiet,
                   mixed>>

\* Mutant of ReadAppRoleRoleID: an empty response is not looked at.
ReadAppRoleRoleIDUnchecked(o) ==
    /\ pc[o] = "read_role_id"
    /\ roleID' = [roleID EXCEPT ![o] = role]
    /\ Goto(o, "create_secret_id")
    /\ UNCHANGED <<vaultVars, swarmVars, mount, secretID, quiet, mixed, budget>>

ReadAppRoleRoleID(o) ==
    /\ pc[o] = "read_role_id"
    /\ \/ /\ role # 0
          /\ roleID' = [roleID EXCEPT ![o] = role]
          /\ Goto(o, "create_secret_id")
       \/ role = 0 /\ UNCHANGED roleID /\ Goto(o, "failed")
    /\ UNCHANGED <<vaultVars, swarmVars, mount, secretID, quiet, mixed, budget>>

CreateAppRoleSecretID(o) ==
    /\ pc[o] = "create_secret_id"
    /\ \/ /\ role # 0
          /\ secretID' = [secretID EXCEPT ![o] = role]
          /\ Replied(o, "store_role_id")
       \/ role = 0 /\ UNCHANGED secretID /\ Refused(o)
    /\ UNCHANGED <<vaultVars, swarmVars, mount, roleID, quiet, mixed>>

\* CreateSecret of the engine: names are unique.
CreateSecret(o, name, value, next) ==
    /\ \/ /\ docker[name] = 0
          /\ docker' = [docker EXCEPT ![name] = value]
          /\ Replied(o, next)
       \/ docker[name] # 0 /\ UNCHANGED docker /\ Refused(o)
    /\ UNCHANGED <<vaultVars, deployed, mount, roleID, secretID, quiet, mixed>>

\* As CreateSecret, with a secret that is already there not an error.
CreateSecretUnlessThere(o, name, value, next) ==
    \/ docker[name] = 0 /\ CreateSecret(o, name, value, next)
    \/ /\ docker[name] # 0
       /\ Goto(o, next)
       /\ UNCHANGED <<vaultVars, swarmVars, mount, roleID, secretID, quiet,
                      mixed, budget>>

\* Mutant of StoreRoleID.
StoreRoleIDUnlessThere(o) ==
    /\ pc[o] = "store_role_id"
    /\ CreateSecretUnlessThere(o, "role-id", roleID[o], "store_secret_id")

StoreRoleID(o) ==
    /\ pc[o] = "store_role_id"
    /\ CreateSecret(o, "role-id", roleID[o], "store_secret_id")

\* Mutant of StoreSecretID.
StoreSecretIDUnlessThere(o) ==
    /\ pc[o] = "store_secret_id"
    /\ CreateSecretUnlessThere(o, "secret-id", secretID[o], "done")

StoreSecretID(o) ==
    /\ pc[o] = "store_secret_id"
    /\ CreateSecret(o, "secret-id", secretID[o], "done")

\* initVaultTokenStatic.  The token is whatever the operator enters.
StoreToken(o) ==
    /\ pc[o] = "store_token"
    /\ CreateSecret(o, "token", 1, "done")

\* A request fails without an effect, or the run is interrupted.
CallFails(o) ==
    /\ pc[o] \notin {"idle", "done", "failed"}
    /\ Goto(o, "failed")
    /\ Spend("faults")
    /\ UNCHANGED <<vaultVars, swarmVars, mount, roleID, secretID, quiet, mixed>>

-----------------------------------------------------------------------------
(* Everyone else.                                                            *)

Disturb == quiet' = [o \in Operators |-> ~Running(o)]

\* The role is deleted, alone or with all of auth/approle.
DeleteRole ==
    /\ role # 0
    /\ Spend("admin")
    /\ role' = 0
    /\ approle' \in {approle, "none"}
    /\ mixed' = (mixed \/ \E o \in Operators : Running(o) /\ roleID[o] # 0)
    /\ Disturb
    /\ UNCHANGED <<policy, nextRole, swarmVars, runVars>>

DeletePolicy ==
    /\ policy # None
    /\ Spend("admin")
    /\ policy' = None
    /\ Disturb
    /\ UNCHANGED <<approle, role, nextRole, swarmVars, runVars, mixed>>

Deploy(m) ==
    /\ deployed = None
    /\ docker["role-id"] # 0 /\ docker["secret-id"] # 0
    /\ Spend("deploys")
    /\ deployed' = m
    /\ UNCHANGED <<vaultVars, docker, runVars, quiet, mixed>>

InUse(name) == deployed # None /\ name # "token"

\* Both secrets carry the managed label, and no manager lists them: the
\* orphan cleanup of a synchronizer takes those that no service uses.
CleanupRemoves(name) ==
    /\ docker[name] # 0
    /\ ~InUse(name)
    /\ Spend("removals")
    /\ docker' = [docker EXCEPT ![name] = 0]
    /\ mixed' = (mixed \/ /\ name = "role-id"
                          /\ \/ docker["secret-id"] # 0
                             \/ \E o \in Operators : pc[o] = "store_secret_id")
    /\ Disturb
    /\ UNCHANGED <<vaultVars, deployed, runVars>>

-----------------------------------------------------------------------------

Init ==
    /\ approle \in {"none", "approle", "other"}
    /\ policy = None
    /\ role = 0
    /\ nextRole = 1
    /\ docker = [name \in Names |-> 0]
    /\ deployed = None
    /\ pc = [o \in Operators |-> "idle"]
    /\ mount = [o \in Operators |-> None]
    /\ roleID = [o \in Operators |-> 0]
    /\ secretID = [o \in Operators |-> 0]
    /\ quiet = [o \in Operators |-> TRUE]
    /\ mixed = FALSE
    /\ budget = [faults |-> MaxFaults, overlaps |-> MaxOverlaps,
                 admin |-> MaxAdmin, removals |-> MaxRemovals,
                 deploys |-> MaxDeploys]

\* initVaultAppRole and initVaultTokenStatic, once started.
Run(o) ==
    \/ StoreToken(o)
    \/ AppRoleAuthEnabled(o) \/ EnableAppRoleAuth(o)
    \/ CreateACLPolicy(o) \/ CreateAppRole(o)
    \/ ReadAppRoleRoleID(o) \/ CreateAppRoleSecretID(o)
    \/ StoreRoleID(o) \/ StoreSecretID(o)
    \/ Return(o)

Everyone ==
    \/ DeleteRole \/ DeletePolicy
    \/ \E m \in Mounts : Deploy(m)
    \/ \E name \in Names : CleanupRemoves(name)

Next == Everyone \/ \E o \in Operators : Start(o) \/ Run(o) \/ CallFails(o)

Spec == Init /\ [][Next]_vars

-----------------------------------------------------------------------------
(* Properties.                                                               *)

\* Every variable has its type, and only ids that Vault has answered with are
\* stored.
TypeOK ==
    /\ approle \in {"none", "approle", "other"}
    /\ policy \in Mounts \cup {None}
    /\ role \in Nat /\ nextRole \in Nat \ {0} /\ role < nextRole
    /\ docker \in [Names -> Nat]
    /\ deployed \in Mounts \cup {None}
    /\ pc \in [Operators -> PC]
    /\ mount \in [Operators -> Mounts \cup {None}]
    /\ roleID \in [Operators -> Nat] /\ secretID \in [Operators -> Nat]
    /\ quiet \in [Operators -> BOOLEAN] /\ mixed \in BOOLEAN
    /\ budget \in Budget
    /\ \A o \in Operators : pc[o] \in {"store_role_id", "store_secret_id"}
                            => roleID[o] # 0 /\ secretID[o] # 0

Paired == docker["role-id"] # 0 /\ docker["secret-id"] # 0

\* The role id and the secret id in Docker were made for the same role, even
\* when several runs overlap or fail in between and the role is deleted and
\* created again: the run whose role id is stored is the only one that may
\* store its secret id.  Excepted are a role that is deleted in the middle of
\* a run, and a role id that is removed before its secret id.
PairBelongsTogether ==
    Paired /\ ~mixed => docker["role-id"] = docker["secret-id"]

\* A run that reports success has left everything the service needs to log in
\* and to read the run's mount.  Excepted are runs in the middle of which someone
\* took something away, or a run for another mount overwrote the policy: those
\* report success all the same, for the command does not look at the policy again.
SuccessIsReady ==
    \A o \in Operators :
        pc[o] = "done" /\ roleID[o] # 0 /\ quiet[o] =>
            /\ approle = "approle"
            /\ role # 0
            /\ docker["role-id"] = role /\ docker["secret-id"] = role
            /\ policy = mount[o]

\* The service that runs can log in and read its mount.
Serving ==
    /\ deployed # None
    /\ approle = "approle"
    /\ role # 0 /\ docker["role-id"] = role /\ docker["secret-id"] = role
    /\ policy = deployed

\* A run of the command takes nothing from the service that runs, whether it
\* succeeds or fails, except when it is for another mount: both have the same
\* policy, although the second run must fail at the Docker secrets.
ServiceKeepsAccess ==
    [][Serving /\ ~Serving' /\ UNCHANGED <<deployed, budget.admin>>
        => \E o \in Operators : pc[o] = "policy" /\ mount[o] # deployed]_vars

\* What a failed run has left in Vault never stops a later one, and neither does
\* a run that overlaps once the role id is stored: a run none of whose requests
\* fails, and from which nobody takes anything, is refused only where auth/approle
\* is something else, where an overlapping run has just enabled it, at a Docker
\* secret that is there before the run has stored anything, or after the roles
\* were mixed.  A role id that was stored alone does stop every later run, until
\* it is removed by hand.
OnlyLeftoversRefuse ==
    [][\A o \in Operators :
            pc[o] # "failed" /\ pc'[o] = "failed" /\ quiet[o]
                /\ UNCHANGED budget.faults
            => \/ pc[o] = "check" /\ approle = "other"
               \/ pc[o] = "enable" /\ budget.overlaps < MaxOverlaps
               \/ pc[o] = "store_token" /\ docker["token"] # 0
               \/ pc[o] = "store_role_id" /\ docker["role-id"] # 0
               \/ pc[o] = "store_secret_id" /\ mixed]_vars

=============================================================================
