--------------------------- MODULE VaultSetupProofs ---------------------------
(***************************************************************************)
(* Safety of the set-up of AppRole, for any number of operators and mounts  *)
(* and all bounds.                                                          *)
(***************************************************************************)
EXTENDS VaultSetup, TLAPS

-----------------------------------------------------------------------------
(* The invariant.                                                            *)

\* The run has got as far as these requests, or has succeeded with AppRole.
Reached(o, requests) == pc[o] \in requests \/ (pc[o] = "done" /\ roleID[o] # 0)

\* What a run knows so far: its mount and the ids that it has read.
KnownInv ==
    \A o \in Operators :
        /\ pc[o] # "idle" => mount[o] \in Mounts
        /\ pc[o] \in {"idle", "store_token", "check", "enable", "policy", "role",
                      "read_role_id"} => roleID[o] = 0
        /\ pc[o] = "create_secret_id" => roleID[o] # 0
        /\ secretID[o] # 0 => roleID[o] # 0

\* What a run has made is there, until someone takes something away.
QuietInv ==
    \A o \in Operators : quiet[o] =>
        /\ Reached(o, {"policy", "role", "read_role_id", "create_secret_id",
                       "store_role_id", "store_secret_id"}) => approle = "approle"
        /\ Reached(o, {"role", "read_role_id", "create_secret_id",
                       "store_role_id", "store_secret_id"}) => policy = mount[o]
        /\ Reached(o, {"read_role_id", "create_secret_id", "store_role_id",
                       "store_secret_id"}) => role # 0
        /\ Reached(o, {"create_secret_id", "store_role_id", "store_secret_id"})
                => roleID[o] = role
        /\ Reached(o, {"store_role_id", "store_secret_id"}) => secretID[o] = role
        /\ Reached(o, {"store_secret_id"}) => docker["role-id"] = role
        /\ Reached(o, {}) => docker["secret-id"] = role

\* As long as roles are not mixed all runs know the same one, only a run that
\* has stored its role id is about to store its secret id, which is not there
\* yet, and there is no secret id without its role id.
PairInv ==
    ~mixed =>
        /\ \A o \in Operators :
                /\ roleID[o] # 0 => roleID[o] = role
                /\ secretID[o] # 0 => secretID[o] = role
                /\ pc[o] = "store_secret_id" =>
                        /\ docker["role-id"] = roleID[o]
                        /\ docker["secret-id"] = 0
                        /\ \A p \in Operators : pc[p] = "store_secret_id" => p = o
        /\ docker["secret-id"] # 0 => docker["role-id"] = docker["secret-id"]

\* As long as no runs have overlapped there is one at most, and AppRole is not
\* enabled between its look at the methods and its request to enable it.
AloneInv ==
    /\ budget.overlaps <= MaxOverlaps
    /\ budget.overlaps = MaxOverlaps =>
            /\ \A o, p \in Operators : Running(o) /\ Running(p) => o = p
            /\ \A o \in Operators : pc[o] = "enable" => approle = "none"

SetupInv == TypeOK /\ KnownInv /\ QuietInv /\ PairInv /\ AloneInv

\* A run that starts knows its mount and nothing else.
LEMMA StartKeeps ==
    ASSUME SetupInv, NEW o \in Operators, Start(o)
    PROVE  SetupInv'
<1>1. TypeOK'
  BY SetupAssumption DEF SetupInv, TypeOK, KnownInv, PC, Names, Budget, Start, Goto,
                         Spend, Running, vaultVars, swarmVars
<1>2. KnownInv'
  BY DEF SetupInv, TypeOK, KnownInv, PC, Start, Goto, Spend, Running, vaultVars,
         swarmVars
<1>3. QuietInv'
  BY SetupAssumption DEF SetupInv, TypeOK, KnownInv, QuietInv, Reached, Names, Start,
                         Goto, Spend, Running, vaultVars, swarmVars
<1>4. PairInv'
  BY DEF SetupInv, TypeOK, KnownInv, PairInv, Names, Start, Goto, Spend, Running,
         vaultVars, swarmVars
<1>5. AloneInv'
  BY SetupAssumption DEF SetupInv, Budget, TypeOK, KnownInv, AloneInv, Names, Start,
                         Goto, Spend, Running, vaultVars, swarmVars
<1> QED
  BY <1>1, <1>2, <1>3, <1>4, <1>5 DEF SetupInv

\* A run that has ended forgets what it knew.
LEMMA ReturnKeeps ==
    ASSUME SetupInv, NEW o \in Operators, Return(o)
    PROVE  SetupInv'
<1>1. TypeOK'
  BY SetupAssumption DEF SetupInv, TypeOK, KnownInv, PC, Names, Budget, Return, Goto,
                         vaultVars, swarmVars
<1>2. KnownInv'
  BY DEF SetupInv, TypeOK, KnownInv, PC, Return, Goto, vaultVars, swarmVars
<1>3. QuietInv'
  BY SetupAssumption DEF SetupInv, TypeOK, KnownInv, QuietInv, Reached, Names, Return,
                         Goto, vaultVars, swarmVars
<1>4. PairInv'
  BY DEF SetupInv, TypeOK, KnownInv, PairInv, Names, Return, Goto, vaultVars, swarmVars
<1>5. AloneInv'
  BY SetupAssumption DEF SetupInv, Spend, Running, Budget, TypeOK, KnownInv, AloneInv,
                         Names, Return, Goto, vaultVars, swarmVars
<1> QED
  BY <1>1, <1>2, <1>3, <1>4, <1>5 DEF SetupInv

\* A run that goes on to the policy has found AppRole enabled.
LEMMA AppRoleAuthEnabledKeeps ==
    ASSUME SetupInv, NEW o \in Operators, AppRoleAuthEnabled(o)
    PROVE  SetupInv'
<1>1. TypeOK'
  BY SetupAssumption DEF SetupInv, TypeOK, KnownInv, PC, Names, Budget,
                         AppRoleAuthEnabled, AfterCheck, Goto, Spend, vaultVars,
                         swarmVars
<1>2. KnownInv'
  BY DEF SetupInv, TypeOK, KnownInv, PC, AppRoleAuthEnabled, AfterCheck, Goto, Spend,
         vaultVars, swarmVars
<1>3. QuietInv'
  BY SetupAssumption DEF SetupInv, TypeOK, KnownInv, QuietInv, Reached, Names,
                         AppRoleAuthEnabled, AfterCheck, Goto, Spend, vaultVars,
                         swarmVars
<1>4. PairInv'
  BY DEF SetupInv, TypeOK, KnownInv, PairInv, Names, AppRoleAuthEnabled, AfterCheck,
         Goto, Spend, vaultVars, swarmVars
<1>5. AloneInv'
  BY SetupAssumption DEF SetupInv, Running, Budget, TypeOK, KnownInv, AloneInv, Names,
                         AppRoleAuthEnabled, AfterCheck, Goto, Spend, vaultVars,
                         swarmVars
<1> QED
  BY <1>1, <1>2, <1>3, <1>4, <1>5 DEF SetupInv

\* AppRole is enabled where nothing was mounted, so no other run relied on it.
LEMMA EnableAppRoleAuthKeeps ==
    ASSUME SetupInv, NEW o \in Operators, EnableAppRoleAuth(o)
    PROVE  SetupInv'
<1>1. TypeOK'
  BY SetupAssumption DEF SetupInv, TypeOK, KnownInv, PC, Names, Budget,
                         EnableAppRoleAuth, Goto, Replied, Refused, Spend, swarmVars
<1>2. KnownInv'
  BY DEF SetupInv, TypeOK, KnownInv, PC, EnableAppRoleAuth, Goto, Replied, Refused,
         Spend, swarmVars
<1>3. QuietInv'
  BY SetupAssumption DEF SetupInv, TypeOK, KnownInv, QuietInv, Reached, Names,
                         EnableAppRoleAuth, Goto, Replied, Refused, Spend, swarmVars
<1>4. PairInv'
  BY DEF SetupInv, TypeOK, KnownInv, PairInv, Names, EnableAppRoleAuth, Goto, Replied,
         Refused, Spend, swarmVars
<1>5. AloneInv'
  BY SetupAssumption DEF SetupInv, Running, Budget, TypeOK, KnownInv, AloneInv, Names,
                         EnableAppRoleAuth, Goto, Replied, Refused, Spend, swarmVars
<1> QED
  BY <1>1, <1>2, <1>3, <1>4, <1>5 DEF SetupInv

\* The policy is for the mount of the run; a run for another mount is disturbed.
LEMMA CreateACLPolicyKeeps ==
    ASSUME SetupInv, NEW o \in Operators, CreateACLPolicy(o)
    PROVE  SetupInv'
<1>1. TypeOK'
  BY SetupAssumption DEF SetupInv, TypeOK, KnownInv, PC, Names, Budget, CreateACLPolicy,
                         Goto, Replied, Spend, swarmVars
<1>2. KnownInv'
  BY DEF SetupInv, TypeOK, KnownInv, PC, CreateACLPolicy, Goto, Replied, Spend,
         swarmVars
<1>3. QuietInv'
  <2>1. /\ UNCHANGED <<approle, role, docker, roleID, secretID, mount>>
        /\ policy' = mount[o] /\ pc[o] = "policy" /\ mount[o] \in Mounts
        /\ roleID[o] = 0 /\ pc'[o] \in {"role", "failed"}
        /\ \A p \in Operators : p # o => pc'[p] = pc[p]
        /\ \A p \in Operators : quiet'[p] =>
                quiet[p] /\ (Running(p) => mount[p] = mount[o])
    BY DEF SetupInv, TypeOK, KnownInv, CreateACLPolicy, Goto, Replied, swarmVars
  <2>2. ASSUME NEW p \in Operators, quiet'[p], p # o
        PROVE  Reached(p, {"role", "read_role_id", "create_secret_id",
                           "store_role_id", "store_secret_id"})' => policy' = mount'[p]
    BY <2>1, <2>2 DEF Reached, Running
  <2> QED
    BY <2>1, <2>2 DEF SetupInv, QuietInv, Reached
<1>4. PairInv'
  BY DEF SetupInv, TypeOK, KnownInv, PairInv, Names, CreateACLPolicy, Goto, Replied,
         Spend, swarmVars
<1>5. AloneInv'
  BY SetupAssumption DEF SetupInv, Running, Budget, TypeOK, KnownInv, AloneInv, Names,
                         CreateACLPolicy, Goto, Replied, Spend, swarmVars
<1> QED
  BY <1>1, <1>2, <1>3, <1>4, <1>5 DEF SetupInv

\* A role is created only where there is none, so no run has read another one.
LEMMA CreateAppRoleKeeps ==
    ASSUME SetupInv, NEW o \in Operators, CreateAppRole(o)
    PROVE  SetupInv'
<1>1. TypeOK'
  BY SetupAssumption DEF SetupInv, TypeOK, KnownInv, PC, Names, Budget, CreateAppRole,
                         Goto, Replied, Refused, Spend, swarmVars
<1>2. KnownInv'
  BY DEF SetupInv, TypeOK, KnownInv, PC, CreateAppRole, Goto, Replied, Refused, Spend,
         swarmVars
<1>3. QuietInv'
  BY SetupAssumption DEF SetupInv, TypeOK, KnownInv, QuietInv, Reached, Names,
                         CreateAppRole, Goto, Replied, Refused, Spend, swarmVars
<1>4. PairInv'
  BY DEF SetupInv, TypeOK, KnownInv, PairInv, Names, CreateAppRole, Goto, Replied,
         Refused, Spend, swarmVars
<1>5. AloneInv'
  BY SetupAssumption DEF SetupInv, Running, Budget, TypeOK, KnownInv, AloneInv, Names,
                         CreateAppRole, Goto, Replied, Refused, Spend, swarmVars
<1> QED
  BY <1>1, <1>2, <1>3, <1>4, <1>5 DEF SetupInv

\* The role id that a run reads is the one of the role that is there.
LEMMA ReadAppRoleRoleIDKeeps ==
    ASSUME SetupInv, NEW o \in Operators, ReadAppRoleRoleID(o)
    PROVE  SetupInv'
<1>1. TypeOK'
  BY SetupAssumption DEF SetupInv, TypeOK, KnownInv, PC, Names, Budget,
                         ReadAppRoleRoleID, Goto, vaultVars, swarmVars
<1>2. KnownInv'
  BY DEF SetupInv, TypeOK, KnownInv, PC, ReadAppRoleRoleID, Goto, vaultVars, swarmVars
<1>3. QuietInv'
  BY SetupAssumption DEF SetupInv, TypeOK, KnownInv, QuietInv, Reached, Names,
                         ReadAppRoleRoleID, Goto, vaultVars, swarmVars
<1>4. PairInv'
  BY DEF SetupInv, TypeOK, KnownInv, PairInv, Names, ReadAppRoleRoleID, Goto, vaultVars,
         swarmVars
<1>5. AloneInv'
  BY SetupAssumption DEF SetupInv, Spend, Running, Budget, TypeOK, KnownInv, AloneInv,
                         Names, ReadAppRoleRoleID, Goto, vaultVars, swarmVars
<1> QED
  BY <1>1, <1>2, <1>3, <1>4, <1>5 DEF SetupInv

\* The secret id belongs to the role of the role id, unless roles are mixed.
LEMMA CreateAppRoleSecretIDKeeps ==
    ASSUME SetupInv, NEW o \in Operators, CreateAppRoleSecretID(o)
    PROVE  SetupInv'
<1>1. TypeOK'
  BY SetupAssumption DEF SetupInv, TypeOK, KnownInv, PC, Names, Budget,
                         CreateAppRoleSecretID, Goto, Replied, Refused, Spend,
                         vaultVars, swarmVars
<1>2. KnownInv'
  BY DEF SetupInv, TypeOK, KnownInv, PC, CreateAppRoleSecretID, Goto, Replied, Refused,
         Spend, vaultVars, swarmVars
<1>3. QuietInv'
  BY SetupAssumption DEF SetupInv, TypeOK, KnownInv, QuietInv, Reached, Names,
                         CreateAppRoleSecretID, Goto, Replied, Refused, Spend,
                         vaultVars, swarmVars
<1>4. PairInv'
  BY DEF SetupInv, TypeOK, KnownInv, PairInv, Names, CreateAppRoleSecretID, Goto,
         Replied, Refused, Spend, vaultVars, swarmVars
<1>5. AloneInv'
  BY SetupAssumption DEF SetupInv, Running, Budget, TypeOK, KnownInv, AloneInv, Names,
                         CreateAppRoleSecretID, Goto, Replied, Refused, Spend,
                         vaultVars, swarmVars
<1> QED
  BY <1>1, <1>2, <1>3, <1>4, <1>5 DEF SetupInv

\* The role id is stored where there was none, so no other run is about to store
\* its secret id.
LEMMA StoreRoleIDKeeps ==
    ASSUME SetupInv, NEW o \in Operators, StoreRoleID(o)
    PROVE  SetupInv'
<1>1. TypeOK'
  BY SetupAssumption DEF SetupInv, TypeOK, KnownInv, PC, Names, Budget, StoreRoleID,
                         CreateSecret, Goto, Replied, Refused, Spend, Running,
                         vaultVars, swarmVars, runVars
<1>2. KnownInv'
  BY DEF SetupInv, TypeOK, KnownInv, PC, StoreRoleID, CreateSecret, Goto, Replied,
         Refused, Spend, Running, vaultVars, swarmVars, runVars
<1>3. QuietInv'
  BY SetupAssumption DEF SetupInv, TypeOK, KnownInv, QuietInv, Reached, Names,
                         StoreRoleID, CreateSecret, Goto, Replied, Refused, Spend,
                         Running, vaultVars, swarmVars, runVars
<1>4. PairInv'
  BY DEF SetupInv, TypeOK, KnownInv, PairInv, Names, StoreRoleID, CreateSecret, Goto,
         Replied, Refused, Spend, Running, vaultVars, swarmVars, runVars
<1>5. AloneInv'
  BY SetupAssumption DEF SetupInv, Budget, TypeOK, KnownInv, AloneInv, Names,
                         StoreRoleID, CreateSecret, Goto, Replied, Refused, Spend,
                         Running, vaultVars, swarmVars, runVars
<1> QED
  BY <1>1, <1>2, <1>3, <1>4, <1>5 DEF SetupInv

\* The secret id joins the role id of the same run.
LEMMA StoreSecretIDKeeps ==
    ASSUME SetupInv, NEW o \in Operators, StoreSecretID(o)
    PROVE  SetupInv'
<1>1. TypeOK'
  BY SetupAssumption DEF SetupInv, TypeOK, KnownInv, PC, Names, Budget, StoreSecretID,
                         CreateSecret, Goto, Replied, Refused, Spend, Running,
                         vaultVars, swarmVars, runVars
<1>2. KnownInv'
  BY DEF SetupInv, TypeOK, KnownInv, PC, StoreSecretID, CreateSecret, Goto, Replied,
         Refused, Spend, Running, vaultVars, swarmVars, runVars
<1>3. QuietInv'
  BY SetupAssumption DEF SetupInv, TypeOK, KnownInv, QuietInv, Reached, Names,
                         StoreSecretID, CreateSecret, Goto, Replied, Refused, Spend,
                         Running, vaultVars, swarmVars, runVars
<1>4. PairInv'
  BY DEF SetupInv, TypeOK, KnownInv, PairInv, Names, StoreSecretID, CreateSecret, Goto,
         Replied, Refused, Spend, Running, vaultVars, swarmVars, runVars
<1>5. AloneInv'
  BY SetupAssumption DEF SetupInv, Budget, TypeOK, KnownInv, AloneInv, Names,
                         StoreSecretID, CreateSecret, Goto, Replied, Refused, Spend,
                         Running, vaultVars, swarmVars, runVars
<1> QED
  BY <1>1, <1>2, <1>3, <1>4, <1>5 DEF SetupInv

\* The token touches neither of the two ids.
LEMMA StoreTokenKeeps ==
    ASSUME SetupInv, NEW o \in Operators, StoreToken(o)
    PROVE  SetupInv'
<1>1. TypeOK'
  BY SetupAssumption DEF SetupInv, TypeOK, KnownInv, PC, Names, Budget, StoreToken,
                         CreateSecret, Goto, Replied, Refused, Spend, Running,
                         vaultVars, swarmVars, runVars
<1>2. KnownInv'
  BY DEF SetupInv, TypeOK, KnownInv, PC, StoreToken, CreateSecret, Goto, Replied,
         Refused, Spend, Running, vaultVars, swarmVars, runVars
<1>3. QuietInv'
  BY SetupAssumption DEF SetupInv, TypeOK, KnownInv, QuietInv, Reached, Names,
                         StoreToken, CreateSecret, Goto, Replied, Refused, Spend,
                         Running, vaultVars, swarmVars, runVars
<1>4. PairInv'
  BY DEF SetupInv, TypeOK, KnownInv, PairInv, Names, StoreToken, CreateSecret, Goto,
         Replied, Refused, Spend, Running, vaultVars, swarmVars, runVars
<1>5. AloneInv'
  BY SetupAssumption DEF SetupInv, Budget, TypeOK, KnownInv, AloneInv, Names,
                         StoreToken, CreateSecret, Goto, Replied, Refused, Spend,
                         Running, vaultVars, swarmVars, runVars
<1> QED
  BY <1>1, <1>2, <1>3, <1>4, <1>5 DEF SetupInv

\* A run that fails leaves what it has made, and nothing is said of it any more.
LEMMA CallFailsKeeps ==
    ASSUME SetupInv, NEW o \in Operators, CallFails(o)
    PROVE  SetupInv'
<1>1. TypeOK'
  BY SetupAssumption DEF SetupInv, TypeOK, KnownInv, PC, Names, Budget, CallFails, Goto,
                         Spend, vaultVars, swarmVars
<1>2. KnownInv'
  BY DEF SetupInv, TypeOK, KnownInv, PC, CallFails, Goto, Spend, vaultVars, swarmVars
<1>3. QuietInv'
  BY SetupAssumption DEF SetupInv, TypeOK, KnownInv, QuietInv, Reached, Names,
                         CallFails, Goto, Spend, vaultVars, swarmVars
<1>4. PairInv'
  BY DEF SetupInv, TypeOK, KnownInv, PairInv, Names, CallFails, Goto, Spend, vaultVars,
         swarmVars
<1>5. AloneInv'
  BY SetupAssumption DEF SetupInv, Running, Budget, TypeOK, KnownInv, AloneInv, Names,
                         CallFails, Goto, Spend, vaultVars, swarmVars
<1> QED
  BY <1>1, <1>2, <1>3, <1>4, <1>5 DEF SetupInv

\* Deleting the role disturbs every run, and mixes roles where one has read an id.
LEMMA DeleteRoleKeeps ==
    ASSUME SetupInv, DeleteRole
    PROVE  SetupInv'
<1>1. TypeOK'
  BY DEF SetupInv, TypeOK, Budget, DeleteRole, Disturb, Running, Spend, swarmVars,
         runVars
<1>2. KnownInv'
  BY DEF SetupInv, KnownInv, DeleteRole, runVars
<1>3. QuietInv'
  BY DEF SetupInv, TypeOK, KnownInv, QuietInv, Reached, DeleteRole, Disturb, Running, 
         swarmVars, runVars
<1>4. PairInv'
  <2> SUFFICES ASSUME ~mixed' PROVE PairInv'
    BY DEF PairInv
  <2>1. ~mixed /\ \A o \in Operators : Running(o) => roleID[o] = 0
    BY DEF SetupInv, TypeOK, DeleteRole
  <2>2. \A o \in Operators : roleID[o] = 0 /\ secretID[o] = 0
    BY <2>1 DEF SetupInv, KnownInv, Running
  <2> QED
    BY <2>1, <2>2 DEF SetupInv, TypeOK, KnownInv, PairInv, DeleteRole, swarmVars, runVars
<1>5. AloneInv'
  BY SetupAssumption DEF SetupInv, TypeOK, Budget, AloneInv, DeleteRole, Running, Spend,
                         runVars
<1> QED
  BY <1>1, <1>2, <1>3, <1>4, <1>5 DEF SetupInv

\* Deleting the policy disturbs every run.
LEMMA DeletePolicyKeeps ==
    ASSUME SetupInv, DeletePolicy
    PROVE  SetupInv'
<1>1. TypeOK'
  BY DEF SetupInv, TypeOK, Budget, DeletePolicy, Disturb, Running, Spend, swarmVars,
         runVars
<1>2. KnownInv'
  BY DEF SetupInv, KnownInv, DeletePolicy, runVars
<1>3. QuietInv'
  BY DEF SetupInv, TypeOK, KnownInv, QuietInv, Reached, DeletePolicy, Disturb, Running, 
         swarmVars, runVars
<1>4. PairInv'
  BY DEF SetupInv, PairInv, DeletePolicy, swarmVars, runVars
<1>5. AloneInv'
  BY SetupAssumption DEF SetupInv, Spend, Running, Budget, TypeOK, AloneInv,
                         DeletePolicy, swarmVars, runVars
<1> QED
  BY <1>1, <1>2, <1>3, <1>4, <1>5 DEF SetupInv

\* A deployment changes nothing that the runs rely on.
LEMMA DeployKeeps ==
    ASSUME SetupInv, NEW m \in Mounts, Deploy(m)
    PROVE  SetupInv'
<1>1. TypeOK'
  BY DEF SetupInv, TypeOK, Budget, Deploy, Spend, vaultVars, runVars
<1>2. KnownInv'
  BY DEF SetupInv, KnownInv, Deploy, runVars
<1>3. QuietInv'
  BY DEF SetupInv, QuietInv, Reached, Deploy, vaultVars, runVars
<1>4. PairInv'
  BY DEF SetupInv, PairInv, Deploy, vaultVars, runVars
<1>5. AloneInv'
  BY SetupAssumption DEF SetupInv, Spend, Running, Budget, TypeOK, AloneInv, Deploy,
                         vaultVars, runVars
<1> QED
  BY <1>1, <1>2, <1>3, <1>4, <1>5 DEF SetupInv

\* A removal disturbs every run, and mixes roles where it takes the role id
\* from under a secret id that is stored or about to be.
LEMMA CleanupRemovesKeeps ==
    ASSUME SetupInv, NEW name \in Names, CleanupRemoves(name)
    PROVE  SetupInv'
<1>1. TypeOK'
  BY DEF SetupInv, TypeOK, Budget, Names, CleanupRemoves, Disturb, Running, Spend, 
         vaultVars, runVars
<1>2. KnownInv'
  BY DEF SetupInv, KnownInv, CleanupRemoves, runVars
<1>3. QuietInv'
  BY DEF SetupInv, TypeOK, KnownInv, QuietInv, Reached, CleanupRemoves, Disturb,
         Running,
         vaultVars, runVars
<1>4. PairInv'
  BY DEF SetupInv, TypeOK, PairInv, Names, CleanupRemoves, vaultVars, runVars
<1>5. AloneInv'
  BY SetupAssumption DEF SetupInv, Spend, Running, Budget, TypeOK, AloneInv, Names,
                         CleanupRemoves, vaultVars, runVars
<1> QED
  BY <1>1, <1>2, <1>3, <1>4, <1>5 DEF SetupInv

-----------------------------------------------------------------------------
(* The theorems.                                                             *)

\* The invariant holds before the first run.
LEMMA InitSetup == Init => SetupInv
<1> SUFFICES ASSUME Init PROVE SetupInv
  OBVIOUS
<1>1. budget \in Budget
  BY SetupAssumption DEF Init, Budget
<1>2. /\ docker \in [Names -> Nat] /\ pc \in [Operators -> PC]
      /\ mount \in [Operators -> Mounts \cup {None}]
      /\ roleID \in [Operators -> Nat] /\ secretID \in [Operators -> Nat]
      /\ quiet \in [Operators -> BOOLEAN]
      /\ \A o \in Operators : pc[o] = "idle"
  BY DEF Init, PC
<1>3. TypeOK
  <2>1. mixed \in BOOLEAN
    BY Zenon DEF Init
  <2>2. /\ approle \in {"none", "approle", "other"}
        /\ policy \in Mounts \cup {None} /\ deployed \in Mounts \cup {None}
        /\ role \in Nat /\ nextRole \in Nat \ {0} /\ role < nextRole
    BY DEF Init
  <2> QED
    BY <1>1, <1>2, <2>1, <2>2 DEF TypeOK
<1>4. KnownInv /\ QuietInv /\ PairInv
  BY DEF Init, KnownInv, QuietInv, PairInv, Reached, Names
<1>5. AloneInv
  BY SetupAssumption DEF Init, AloneInv, Running
<1> QED
  BY <1>3, <1>4, <1>5 DEF SetupInv

\* Every step keeps the invariant.
LEMMA NextKeeps ==
    ASSUME SetupInv, [Next]_vars
    PROVE  SetupInv'
<1>1. CASE Everyone
  BY <1>1, DeleteRoleKeeps, DeletePolicyKeeps, DeployKeeps, CleanupRemovesKeeps DEF Everyone
<1>2. ASSUME NEW o \in Operators, Start(o) \/ Run(o) \/ CallFails(o)
      PROVE  SetupInv'
  BY <1>2, StartKeeps, ReturnKeeps, AppRoleAuthEnabledKeeps, EnableAppRoleAuthKeeps,
     CreateACLPolicyKeeps, CreateAppRoleKeeps, ReadAppRoleRoleIDKeeps,
     CreateAppRoleSecretIDKeeps, StoreRoleIDKeeps, StoreSecretIDKeeps, StoreTokenKeeps,
     CallFailsKeeps DEF Run
<1>3. CASE UNCHANGED vars
  BY <1>3 DEF SetupInv, TypeOK, KnownInv, QuietInv, PairInv, AloneInv, Reached, Running,
              vars, vaultVars, swarmVars, runVars
<1> QED
  BY <1>1, <1>2, <1>3 DEF Next

\* The invariant holds in every reachable state.
THEOREM SetupInvariant == Spec => []SetupInv
  BY InitSetup, NextKeeps, PTL DEF Spec

\* Every variable of the set-up keeps its type, and only ids that Vault has
\* answered with are stored.
THEOREM SetupTypes == Spec => []TypeOK
<1>1. SetupInv => TypeOK
  BY DEF SetupInv
<1> QED
  BY <1>1, SetupInvariant, PTL

\* However runs overlap and fail, the role id and the secret id in Docker were
\* made for the same role.
THEOREM PairsBelongTogether == Spec => []PairBelongsTogether
<1>1. SetupInv => PairBelongsTogether
  BY DEF SetupInv, PairInv, PairBelongsTogether, Paired
<1> QED
  BY <1>1, SetupInvariant, PTL

\* A run of the command that reports success for AppRole has left a role, the
\* policy for its own mount and a pair of secrets that belong together, unless
\* someone took something away, or a run for another mount wrote its policy, in
\* the meantime.
THEOREM SuccessIsAlwaysReady == Spec => []SuccessIsReady
<1>1. SetupInv => SuccessIsReady
  BY DEF SetupInv, TypeOK, KnownInv, QuietInv, Reached, SuccessIsReady
<1> QED
  BY <1>1, SetupInvariant, PTL

\* An operator's step leaves a service that is served what it has, unless it
\* writes the policy for another mount.
LEMMA OperatorStepsKeepAccess ==
    ASSUME TypeOK, Serving, NEW o \in Operators,
           Start(o) \/ Run(o) \/ CallFails(o)
    PROVE  Serving' \/ (pc[o] = "policy" /\ mount[o] # deployed)
<1> USE DEF Serving
<1>1. CASE Start(o) \/ Return(o) \/ CallFails(o) \/ AppRoleAuthEnabled(o)
  BY <1>1 DEF Start, Return, CallFails, AppRoleAuthEnabled, vaultVars, swarmVars
<1>2. CASE EnableAppRoleAuth(o)
  BY <1>2 DEF EnableAppRoleAuth, swarmVars
<1>3. CASE CreateACLPolicy(o)
  BY <1>3 DEF CreateACLPolicy, swarmVars
<1>4. CASE CreateAppRole(o)
  BY <1>4 DEF CreateAppRole, swarmVars
<1>5. CASE ReadAppRoleRoleID(o) \/ CreateAppRoleSecretID(o)
  BY <1>5 DEF ReadAppRoleRoleID, CreateAppRoleSecretID, vaultVars, swarmVars
<1>6. CASE StoreRoleID(o) \/ StoreSecretID(o) \/ StoreToken(o)
  BY <1>6 DEF StoreRoleID, StoreSecretID, StoreToken, CreateSecret, TypeOK, Names,
              vaultVars
<1> QED
  BY <1>1, <1>2, <1>3, <1>4, <1>5, <1>6 DEF Run

\* Nothing that a run of the command for the service's own mount does takes
\* away what the service needs to log in and to read.
THEOREM RunsKeepAccess == Spec => ServiceKeepsAccess
<1>1. ASSUME TypeOK, [Next]_vars, Serving, ~Serving',
             UNCHANGED <<deployed, budget.admin>>
      PROVE  \E o \in Operators : pc[o] = "policy" /\ mount[o] # deployed
  <2>1. CASE DeleteRole \/ DeletePolicy
    BY <1>1, <2>1 DEF DeleteRole, DeletePolicy, Spend, TypeOK, Budget
  <2>2. CASE \E m \in Mounts : Deploy(m)
    BY <1>1, <2>2, SetupAssumption DEF Deploy, Serving
  <2>3. CASE \E name \in Names : CleanupRemoves(name)
    BY <1>1, <2>3 DEF CleanupRemoves, InUse, Serving, TypeOK, Names, vaultVars
  <2>4. CASE \E o \in Operators : Start(o) \/ Run(o) \/ CallFails(o)
    BY <1>1, <2>4, OperatorStepsKeepAccess
  <2>5. CASE UNCHANGED vars
    BY <1>1, <2>5 DEF Serving, vars, vaultVars, swarmVars
  <2> QED
    BY <1>1, <2>1, <2>2, <2>3, <2>4, <2>5 DEF Next, Everyone
<1>2. TypeOK /\ [Next]_vars
        => [Serving /\ ~Serving' /\ UNCHANGED <<deployed, budget.admin>>
              => \E o \in Operators : pc[o] = "policy" /\ mount[o] # deployed]_vars
  BY <1>1
<1> QED
  BY <1>2, SetupTypes, PTL DEF Spec, ServiceKeepsAccess

\* A step of a run that nobody disturbs fails because its request does, or because
\* of something that was there before.
LEMMA RefusedByLeftovers ==
    ASSUME SetupInv, NEW o \in Operators, quiet[o], UNCHANGED budget.faults,
           pc[o] # "failed", pc'[o] = "failed",
           NEW p \in Operators, Start(p) \/ Run(p) \/ CallFails(p)
    PROVE  \/ pc[o] = "check" /\ approle = "other"
           \/ pc[o] = "enable" /\ budget.overlaps < MaxOverlaps
           \/ pc[o] = "store_token" /\ docker["token"] # 0
           \/ pc[o] = "store_role_id" /\ docker["role-id"] # 0
           \/ pc[o] = "store_secret_id" /\ mixed
<1>1. p = o
  BY DEF SetupInv, TypeOK, Start, Run, CallFails, Goto, StoreToken, AppRoleAuthEnabled,
         EnableAppRoleAuth, CreateACLPolicy, CreateAppRole, ReadAppRoleRoleID,
         CreateAppRoleSecretID, StoreRoleID, StoreSecretID, Return, CreateSecret,
         Replied, Refused
<1>2. ~Spend("faults")
  BY SetupAssumption DEF SetupInv, TypeOK, Budget, Spend
<1>3. CASE Start(o) \/ Return(o) \/ CallFails(o)
  BY <1>2, <1>3 DEF SetupInv, TypeOK, Start, Return, CallFails, Goto
<1>4. CASE AppRoleAuthEnabled(o)
  BY <1>2, <1>4 DEF SetupInv, TypeOK, AppRoleAuthEnabled, AfterCheck, Goto
<1>5. CASE EnableAppRoleAuth(o)
  BY <1>2, <1>5, SetupAssumption
     DEF SetupInv, TypeOK, Budget, AloneInv, EnableAppRoleAuth, Goto, Replied
<1>6. CASE CreateACLPolicy(o) \/ CreateAppRole(o)
  BY <1>2, <1>6 DEF SetupInv, TypeOK, QuietInv, Reached, CreateACLPolicy, CreateAppRole,
                    Goto, Replied
<1>7. CASE ReadAppRoleRoleID(o) \/ CreateAppRoleSecretID(o)
  BY <1>2, <1>7 DEF SetupInv, TypeOK, QuietInv, Reached, ReadAppRoleRoleID,
                    CreateAppRoleSecretID, Goto, Replied
<1>8. CASE StoreToken(o) \/ StoreRoleID(o)
  BY <1>2, <1>8 DEF SetupInv, TypeOK, StoreToken, StoreRoleID, CreateSecret, Goto, Replied
<1>9. CASE StoreSecretID(o)
  BY <1>2, <1>9 DEF SetupInv, TypeOK, PairInv, StoreSecretID, CreateSecret, Goto, Replied
<1> QED
  BY <1>1, <1>3, <1>4, <1>5, <1>6, <1>7, <1>8, <1>9 DEF Run

\* A run none of whose requests fails, and that nobody disturbs, is refused only
\* because of what is mounted at auth/approle, a secret that is there before it
\* stores its first, an overlap at enabling AppRole, or mixed roles.
THEOREM RefusedByLeftoversOnly == Spec => OnlyLeftoversRefuse
<1> DEFINE Left(o) == \/ pc[o] = "check" /\ approle = "other"
                      \/ pc[o] = "enable" /\ budget.overlaps < MaxOverlaps
                      \/ pc[o] = "store_token" /\ docker["token"] # 0
                      \/ pc[o] = "store_role_id" /\ docker["role-id"] # 0
                      \/ pc[o] = "store_secret_id" /\ mixed
           Refusals == \A o \in Operators :
                pc[o] # "failed" /\ pc'[o] = "failed" /\ quiet[o]
                    /\ UNCHANGED budget.faults => Left(o)
<1>1. ASSUME SetupInv, [Next]_vars
      PROVE  [Refusals]_vars
  <2> SUFFICES ASSUME NEW o \in Operators, pc[o] # "failed", pc'[o] = "failed",
                      quiet[o], UNCHANGED budget.faults
               PROVE  Left(o)
    OBVIOUS
  <2>1. CASE \E p \in Operators : Start(p) \/ Run(p) \/ CallFails(p)
    BY <1>1, <2>1, RefusedByLeftovers
  <2>2. CASE Everyone \/ UNCHANGED vars
    <3>1. UNCHANGED pc
      BY <2>2 DEF Everyone, DeleteRole, DeletePolicy, Deploy, CleanupRemoves, vars, runVars
    <3> QED
      BY <3>1
  <2> QED
    BY <1>1, <2>1, <2>2 DEF Next
<1>2. SetupInv /\ [Next]_vars => [Refusals]_vars
  BY <1>1
<1> QED
  BY <1>2, SetupInvariant, PTL DEF Spec, OnlyLeftoversRefuse

=============================================================================
