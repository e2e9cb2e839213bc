---------------------------- MODULE Synchronizer ----------------------------
(***************************************************************************)
(* One synchronizer (src/internal/sync) against one Swarm and one external  *)
(* secret manager: the pipeline of attachPipeline, one action per call that *)
(* leaves the process, with everything else that can happen between two     *)
(* calls: a value is written or deleted in the manager, a stack is          *)
(* deployed, an operator removes a Docker secret, a call fails, a reply is  *)
(* lost, the process dies.                                                  *)
(*                                                                         *)
(* A call and the local code up to the next call are one action: the local  *)
(* code touches nothing that anyone else can see.  The single-flight flag   *)
(* of the application is why there is one pipeline at a time.               *)
(***************************************************************************)
EXTENDS SwarmEngine, Integers, Sequences, FiniteSets, SequencesExt

CONSTANTS
    Retries,            \* reruns of a step declared with Retries (3 in the code)
    CleanupOrphaned,    \* CS_CLEANUP_ORPHANED
    VersionsRestart,    \* the manager numbers a recreated secret from 1 again
    HandMade,           \* paths whose parent an operator may create by hand
    MaxFaults,          \* bound: failed calls, lost replies, crashes
    MaxWrites,          \* bound: writes and deletions in the manager
    MaxDeploys,         \* bound: deployments of a service by its owner
    MaxOperator         \* bound: Docker secrets an operator creates or removes

ASSUME BoundsAssumption ==
    /\ Retries \in Nat
    /\ {MaxFaults, MaxWrites, MaxDeploys, MaxOperator} \subseteq Nat
    /\ {CleanupOrphaned, VersionsRestart} \subseteq BOOLEAN
    /\ HandMade \subseteq Paths

ASSUME FinitenessAssumption == IsFiniteSet(Services) /\ IsFiniteSet(Paths)

VARIABLES
    external,   \* the secret manager: path -> present, version, current value
    pc,         \* the call the pipeline is about to make
    attempt,    \* failed runs of the current step
    payload,    \* syncPayload
    todo,       \* listed paths that processExternalSecrets still has to visit
    fetched,    \* the payload read for the secret in hand, at most one
    budget      \* what the environment may still do

syncVars == <<pc, attempt, payload, todo, fetched>>
vars == <<engineVars, external, syncVars, budget>>

-----------------------------------------------------------------------------
(* The state of one synchronization.                                         *)

PC == {"idle",
       "list_services", "map_secrets",          \* load_swarm_state
       "list_external",                         \* load_external_state
       "process", "create_secret", "create_version",    \* process_secrets
       "apply",                                 \* apply_service_updates
       "remove",                                \* remove_old_secret_versions
       "restore",                               \* restore_parent_secrets
       "relist_services", "remap_secrets",      \* load_swarm_state, again
       "plan_cleanup", "cleanup",               \* cleanup_orphaned_secrets
       "done", "failed"}

\* A listed secret: the version id, 0 when the path is not listed.
Listing == [Paths -> Nat]

\* One entry of ServiceTask.Secrets: the id it replaces, and by what.
Move == [from : Nat, id : Nat \ {0}, name : Name]
Removal == [path : Paths, parent : Nat, left : SUBSET Nat]
Restore == [path : Paths, label : Nat, data : Nat]
Result == [created : Nat, updated : Nat, skipped : Nat,
           removedSecrets : Nat, removedVersions : Nat]
Fetched == [path : Paths, data : Nat]

Payload == [services : [Services -> Service],
            map      : [Paths -> ExistingSecret],   \* swarmSecretsMap
            listed   : Listing,                     \* externalSecrets
            tasks    : [Services -> SUBSET Move],   \* pendingServiceUpdates
            order    : Seq(Services),               \* pendingServiceUpdateOrder
            offset   : Nat,                         \* pendingServiceOffset
            removals : Seq(Removal),                \* pendingVersionRemovals
            restores : Seq(Restore),                \* pendingSecretRestores
            result   : Result]

NoResult == [created |-> 0, updated |-> 0, skipped |-> 0,
             removedSecrets |-> 0, removedVersions |-> 0]

NewPayload == [services |-> [s \in Services |-> [version |-> 0, refs |-> {}]],
               map      |-> [p \in Paths |-> Unmapped],
               listed   |-> [p \in Paths |-> 0],
               tasks    |-> [s \in Services |-> {}],
               order    |-> <<>>,
               offset   |-> 0,
               removals |-> <<>>,
               restores |-> <<>>,
               result   |-> NoResult]

\* The manager's values are numbered by its writes; ver is what it shows.
External == [present : BOOLEAN, ver : Nat, val : Nat]

Budget == [faults : Nat, writes : Nat, deploys : Nat, operator : Nat]

-----------------------------------------------------------------------------
(* The pipeline: which step follows, and what an error does.                 *)

\* Mutant of RetriesOf: the first run is not counted.
RetriesOfOneMore(call) ==
    IF call \in {"list_external", "apply", "relist_services", "remap_secrets"}
        THEN Retries + 1 ELSE 0

RetriesOf(call) ==
    IF call \in {"list_external", "apply", "relist_services", "remap_secrets"}
        THEN Retries ELSE 0

\* The first call of a step that is run again.
StepStart(call) == IF call = "remap_secrets" THEN "relist_services" ELSE call

\* Mutant of AfterRestore: the cleanup is added when it is switched off.
AfterRestoreInverted == IF CleanupOrphaned THEN "done" ELSE "relist_services"

\* The steps behind a When run only if there is work for them.
AfterRestore == IF CleanupOrphaned THEN "relist_services" ELSE "done"

\* Mutant of AfterRemove: the restores have no step.
AfterRemoveOnly(pl) == AfterRestore

AfterRemove(pl) == IF pl.restores # <<>> THEN "restore" ELSE AfterRestore

AfterApply(pl) == IF pl.removals # <<>> THEN "remove" ELSE AfterRemove(pl)

AfterProcess(pl) == IF pl.order # <<>> THEN "apply" ELSE AfterApply(pl)

\* The next call, of the same step or of the next one.
Go(next) == pc' = next /\ attempt' = 0

\* The call returned an error, with the payload as it is by then.  The step
\* runs again, or the pipeline stops (cleanup: ContinueOnError); after a
\* failed restore Sync returns an empty result.
StepError(pl) ==
    \/ /\ attempt < RetriesOf(pc)
       /\ pc' = StepStart(pc)
       /\ attempt' = attempt + 1
       /\ payload' = pl
       /\ UNCHANGED <<todo, fetched>>
    \/ /\ attempt >= RetriesOf(pc)
       /\ Go(IF pc = "cleanup" THEN "done" ELSE "failed")
       /\ payload' = IF pc = "restore" THEN [pl EXCEPT !.result = NoResult]
                                       ELSE pl
       /\ UNCHANGED <<todo, fetched>>

Fault == budget.faults > 0 /\ budget' = [budget EXCEPT !.faults = @ - 1]

-----------------------------------------------------------------------------
(* load_swarm_state, load_external_state, and their second run.  The lists   *)
(* are local variables of loadSwarmState until both calls have succeeded;    *)
(* nothing reads the payload in between.                                     *)

StartSync ==
    /\ pc = "idle"
    /\ Go("list_services")
    /\ payload' = NewPayload
    /\ UNCHANGED <<engineVars, external, todo, fetched, budget>>

ListServices ==
    /\ \/ pc = "list_services" /\ pc' = "map_secrets"
       \/ pc = "relist_services" /\ pc' = "remap_secrets"
    /\ payload' = [payload EXCEPT !.services = services]
    /\ UNCHANGED <<engineVars, external, attempt, todo, fetched, budget>>

ListSecretsOfSwarm ==
    /\ \/ pc = "map_secrets" /\ Go("list_external")
       \/ pc = "remap_secrets" /\ Go("plan_cleanup")
    /\ payload' = [payload EXCEPT !.map = MapSecrets]
    /\ UNCHANGED <<engineVars, external, todo, fetched, budget>>

ListExternal ==
    [p \in Paths |-> IF external[p].present THEN external[p].ver ELSE 0]

LoadExternalState ==
    /\ pc = "list_external"
    /\ Go("process")
    /\ payload' = [payload EXCEPT !.listed = ListExternal]
    /\ todo' = {p \in Paths : ListExternal[p] # 0}
    /\ UNCHANGED <<engineVars, external, fetched, budget>>

-----------------------------------------------------------------------------
(* process_secrets: a range over a Go map, so the paths come in any order.   *)

IsMissing(p) == payload.map[p].id = 0

SameVersion(p) == ~IsMissing(p) /\ payload.map[p].latest = payload.listed[p]

NeedsPayload(p) == IsMissing(p) \/ ~SameVersion(p)

\* Mutant of UsesSecret: any reference to a managed secret counts.
UsesAnySecret(ref, p) ==
    \E q \in Paths : ref.name = q \/ ref.id \in payload.map[q].versions

\* secretReferenceUsesManagedSecret: by name, or as one of the versions.
UsesSecret(ref, p) ==
    ref.name = p \/ ref.id \in payload.map[p].versions

\* Mutant of SameVersionRefs: by name only.
SameVersionRefsByName(s, p) ==
    {ref.id : ref \in {r \in payload.services[s].refs :
                            r.name = p /\ r.id # payload.map[p].id}}

\* Mutant of SameVersionRefs: the parent's own id is not left out.
SameVersionRefsAll(s, p) ==
    {ref.id : ref \in {r \in payload.services[s].refs : UsesSecret(r, p)}}

\* The ids that the same-version branch moves back to the parent ...
SameVersionRefs(s, p) ==
    {ref.id : ref \in {r \in payload.services[s].refs :
                            UsesSecret(r, p) /\ r.id # payload.map[p].id}}

\* ... and those that the update branch moves to the new version.
UpdatedRefs(s, p) ==
    {ref.id : ref \in {r \in payload.services[s].refs : UsesSecret(r, p)}}

\* A service gets its task, and its place in the order, when it first has a
\* reference to move.  The order of ListServices is not modelled.
Enqueued(pl, moved, target) ==
    LET newly == {s \in Services : moved[s] # {}
                                    /\ \A i \in DOMAIN pl.order : pl.order[i] # s}
        tasks == [s \in Services |->
                    {move \in pl.tasks[s] : move.from \notin moved[s]} \cup
                    {[from |-> id, id |-> target.id, name |-> target.name] :
                        id \in moved[s]}]
    IN {[pl EXCEPT !.tasks = tasks, !.order = @ \o arrivals] :
            arrivals \in SetToSeqs(newly)}

Counted(pl, counter) == [pl EXCEPT !.result[counter] = @ + 1]

\* Mutant of WithRemoval: the secret that is to stay goes with the others.
WithRemovalOfAll(pl, p, left) ==
    [pl EXCEPT !.removals =
        Append(@, [path |-> p, parent |-> pl.map[p].id, left |-> pl.map[p].versions])]

WithRemoval(pl, p, left) ==
    [pl EXCEPT !.removals =
        Append(@, [path |-> p, parent |-> pl.map[p].id, left |-> left])]

ProcessSameVersion(p) ==
    LET secret == payload.map[p]
        old    == secret.versions \ {secret.id}
        moved  == [s \in Services |-> SameVersionRefs(s, p)]
        parent == [id |-> secret.id, name |-> p]
    IN /\ pc = "process"
       /\ p \in todo
       /\ SameVersion(p)
       /\ todo' = todo \ {p}
       /\ \E pl \in Enqueued(payload, moved, parent) :
            payload' = Counted(IF secret.managed /\ old # {}
                                THEN WithRemoval(pl, p, old) ELSE pl, "skipped")
       /\ UNCHANGED <<engineVars, external, pc, attempt, fetched, budget>>

\* GetSecretPayload answers with what the manager holds now.
GetSecretPayload(p) ==
    /\ pc = "process"
    /\ p \in todo
    /\ NeedsPayload(p)
    /\ \/ /\ external[p].present
          /\ Go(IF IsMissing(p) THEN "create_secret" ELSE "create_version")
          /\ fetched' = {[path |-> p, data |-> external[p].val]}
          /\ UNCHANGED <<payload, todo>>
       \/ ~external[p].present /\ StepError(payload)
    /\ UNCHANGED <<engineVars, external, budget>>

\* createMissingSecret, from its call of CreateSecret on.
CreateMissingSecret ==
    /\ pc = "create_secret"
    /\ \E f \in fetched :
        LET secret == ParentSecret(f.path, payload.listed[f.path], f.data)
        IN \/ /\ AddSecret(secret)
              /\ Go("process")
              /\ todo' = todo \ {f.path}
              /\ fetched' = {}
              /\ payload' = Counted(payload, "created")
              /\ UNCHANGED budget
           \/ /\ NameTaken(NameOf(secret))
              /\ StepError(payload)
              /\ UNCHANGED <<engineVars, budget>>
           \/ AddSecret(secret) /\ Fault /\ StepError(payload)
    /\ UNCHANGED external

\* Mutants of RestoreOf: under the version id that is current by now, under
\* that of the secret it replaces.
RestoreOfCurrent(pl, p, data) ==
    [path |-> p, label |-> external[p].ver, data |-> data]

RestoreOfReplaced(pl, p, data) ==
    [path |-> p, label |-> pl.map[p].latest, data |-> data]

\* The parent as step6 will create it, under the listed version id.
RestoreOf(pl, p, data) == [path |-> p, label |-> pl.listed[p], data |-> data]

\* createUpdatedSecretVersion, from its call of CreateSecretVersion on.
UpdatePlanned(pl, p, data) ==
    LET moved  == [s \in Services |-> UpdatedRefs(s, p)]
        target == [id |-> nextId, name |-> Generate(p, pl.listed[p], nextId)]
        planned == [WithRemoval(pl, p, pl.map[p].versions) EXCEPT
                        !.map[p].managed = TRUE,
                        !.restores = Append(@, RestoreOf(pl, p, data))]
    IN {Counted(queued, "updated") : queued \in Enqueued(planned, moved, target)}

CreateUpdatedVersion ==
    /\ pc = "create_version"
    /\ \E f \in fetched :
        LET secret == VersionSecret(f.path, payload.listed[f.path], f.data)
        IN \/ /\ AddSecret(secret)
              /\ Go("process")
              /\ todo' = todo \ {f.path}
              /\ fetched' = {}
              /\ payload' \in UpdatePlanned(payload, f.path, f.data)
              /\ UNCHANGED budget
           \/ /\ NameTaken(NameOf(secret))
              /\ StepError(payload)
              /\ UNCHANGED <<engineVars, budget>>
           \/ AddSecret(secret) /\ Fault /\ StepError(payload)
    /\ UNCHANGED external

FinishProcess ==
    /\ pc = "process"
    /\ todo = {}
    /\ Go(AfterProcess(payload))
    /\ UNCHANGED <<engineVars, external, payload, todo, fetched, budget>>

-----------------------------------------------------------------------------
(* apply_service_updates                                                     *)

Moves(s, ref) == {move \in payload.tasks[s] : move.from = ref.id}

\* Mutant of Rewritten: the references without a task are not copied.
RewrittenMovedOnly(s) ==
    UNION {{[ref EXCEPT !.id = move.id, !.name = move.name] :
                move \in Moves(s, ref)} : ref \in payload.services[s].refs}

Rewritten(s) ==
    LET refs == payload.services[s].refs
    IN {ref \in refs : Moves(s, ref) = {}} \cup
       UNION {{[ref EXCEPT !.id = move.id, !.name = move.name] :
                    move \in Moves(s, ref)} : ref \in refs}

\* ContainerSpec is a pointer: the rewritten references stay in the payload
\* when the call fails, and a retry starts from them.
ApplyServiceUpdate ==
    /\ pc = "apply"
    /\ payload.offset < Len(payload.order)
    /\ LET s == payload.order[payload.offset + 1]
           version   == payload.services[s].version
           refs      == Rewritten(s)
           rewritten == [payload EXCEPT !.services[s].refs = refs]
       IN \/ /\ UpdateService(s, version, refs)
             /\ payload' = [rewritten EXCEPT !.offset = @ + 1]
             /\ UNCHANGED <<pc, attempt, todo, fetched, budget>>
          \/ /\ ~UpdateAccepted(s, version, refs)
             /\ StepError(rewritten)
             /\ UNCHANGED <<engineVars, budget>>
          \/ /\ UpdateService(s, version, refs)
             /\ Fault
             /\ StepError(rewritten)
          \/ /\ Fault
             /\ StepError(rewritten)
             /\ UNCHANGED engineVars
    /\ UNCHANGED external

FinishApply ==
    /\ pc = "apply"
    /\ payload.offset = Len(payload.order)
    /\ Go(AfterApply(payload))
    /\ UNCHANGED <<engineVars, external, payload, todo, fetched, budget>>

-----------------------------------------------------------------------------
(* remove_old_secret_versions and cleanup_orphaned_secrets: removeOldVersions*)

\* MapSecrets puts the parent first; the other versions come in the order of
\* Docker's list, which is not modelled.
NextRemovals(removal) ==
    IF removal.parent \in removal.left THEN {removal.parent} ELSE removal.left

\* The removals with id crossed off.  The code leaves the list as it is and
\* moves on in it; nothing else reads the list.
CrossedOff(pl, id) ==
    LET left == Head(pl.removals).left \ {id}
    IN [pl EXCEPT !.removals =
            IF left = {} THEN Tail(@) ELSE <<[Head(@) EXCEPT !.left = left]>> \o Tail(@)]

RemoveOldVersion ==
    /\ pc \in {"remove", "cleanup"}
    /\ payload.removals # <<>>
    /\ \E id \in NextRemovals(Head(payload.removals)) :
        \/ /\ RemoveSecret(id)
           /\ payload' = Counted(CrossedOff(payload, id),
                                 IF id = Head(payload.removals).parent
                                    THEN "removedSecrets" ELSE "removedVersions")
           /\ UNCHANGED <<pc, attempt, todo, fetched, budget>>
        \/ /\ ~Live(id)
           /\ payload' = CrossedOff(payload, id)
           /\ UNCHANGED <<engineVars, pc, attempt, todo, fetched, budget>>
        \/ /\ Live(id) /\ InUse(id)
           /\ StepError(payload)
           /\ UNCHANGED <<engineVars, budget>>
        \/ RemoveSecret(id) /\ Fault /\ StepError(payload)
    /\ UNCHANGED external

FinishRemove ==
    /\ pc \in {"remove", "cleanup"}
    /\ payload.removals = <<>>
    /\ Go(IF pc = "remove" THEN AfterRemove(payload) ELSE "done")
    /\ UNCHANGED <<engineVars, external, payload, todo, fetched, budget>>

\* orphanedManagedSecretRemovals
UsedPaths ==
    {p \in Paths : \E s \in Services : \E ref \in payload.services[s].refs :
                        ref.id \in payload.map[p].versions}

\* Mutant of Orphans: the listing is not asked.
OrphansUnlisted == {p \in Paths : payload.map[p].managed /\ p \notin UsedPaths}

Orphans ==
    {p \in Paths : /\ payload.map[p].managed
                   /\ p \notin UsedPaths
                   /\ payload.listed[p] = 0}

PlanCleanup ==
    /\ pc = "plan_cleanup"
    /\ Go("cleanup")
    /\ \E paths \in SetToSeqs(Orphans) :
        payload' = [payload EXCEPT !.removals =
            [i \in DOMAIN paths |-> [path   |-> paths[i],
                                     parent |-> payload.map[paths[i]].id,
                                     left   |-> payload.map[paths[i]].versions]]]
    /\ UNCHANGED <<engineVars, external, todo, fetched, budget>>

-----------------------------------------------------------------------------
(* restore_parent_secrets                                                    *)

RestoreParent ==
    /\ pc = "restore"
    /\ payload.restores # <<>>
    /\ LET restore == Head(payload.restores)
           secret  == ParentSecret(restore.path, restore.label, restore.data)
       IN \/ /\ AddSecret(secret)
             /\ payload' = [payload EXCEPT !.restores = Tail(@)]
             /\ UNCHANGED <<pc, attempt, todo, fetched, budget>>
          \/ /\ NameTaken(NameOf(secret))
             /\ StepError(payload)
             /\ UNCHANGED <<engineVars, budget>>
          \/ AddSecret(secret) /\ Fault /\ StepError(payload)
    /\ UNCHANGED external

FinishRestore ==
    /\ pc = "restore"
    /\ payload.restores = <<>>
    /\ Go(AfterRestore)
    /\ UNCHANGED <<engineVars, external, payload, todo, fetched, budget>>

\* Sync returns and its payload is gone.
Forget == payload' = NewPayload /\ todo' = {} /\ fetched' = {}

Return ==
    /\ pc \in {"done", "failed"}
    /\ Go("idle")
    /\ Forget
    /\ UNCHANGED <<engineVars, external, budget>>

-----------------------------------------------------------------------------
(* Faults.                                                                   *)

\* A call is about to be made (apply has its own disjunct for this).
Calling ==
    \/ pc \in {"list_services", "map_secrets", "list_external",
               "create_secret", "create_version",
               "relist_services", "remap_secrets"}
    \/ pc = "process" /\ \E p \in todo : NeedsPayload(p)
    \/ pc \in {"remove", "cleanup"} /\ payload.removals # <<>>
    \/ pc = "restore" /\ payload.restores # <<>>

\* The call fails without an effect: the network, a timeout, a cancelled
\* context, an expired token.
CallFails ==
    /\ Calling
    /\ Fault
    /\ StepError(payload)
    /\ UNCHANGED <<engineVars, external>>

\* The process dies.  Nothing is persisted outside Docker.
Crash ==
    /\ pc # "idle"
    /\ Fault
    /\ Go("idle")
    /\ Forget
    /\ UNCHANGED <<engineVars, external>>

-----------------------------------------------------------------------------
(* Everyone else.                                                            *)

Spend(kind) == budget[kind] > 0 /\ budget' = [budget EXCEPT ![kind] = @ - 1]

\* A new value in the manager; each one has a version id of its own, unless
\* the secret was deleted in between and the manager starts again.
WriteValue(p) ==
    /\ Spend("writes")
    /\ external' = [external EXCEPT ![p] =
            [present |-> TRUE,
             ver     |-> IF VersionsRestart /\ ~@.present THEN 1 ELSE @.ver + 1,
             val     |-> @.val + 1]]
    /\ UNCHANGED <<engineVars, syncVars>>

DeleteValue(p) ==
    /\ external[p].present
    /\ Spend("writes")
    /\ external' = [external EXCEPT ![p].present = FALSE]
    /\ UNCHANGED <<engineVars, syncVars>>

\* The references of a stack that names the secrets of these paths.
Mounting(paths) ==
    {[mount |-> secret.path, id |-> secret.id, name |-> NameOf(secret)] :
        secret \in {x \in secrets : x.parent /\ x.path \in paths}}

Deploy(s, paths) ==
    /\ Spend("deploys")
    /\ \A p \in paths : ParentsOf(p) # {}
    /\ services' = [services EXCEPT ![s] = [version |-> @.version + 1,
                                            refs    |-> Mounting(paths)]]
    /\ UNCHANGED <<secrets, nextId, external, syncVars>>

\* docker secret create --label logical_path=...
OperatorCreates(p) ==
    /\ p \in HandMade
    /\ Spend("operator")
    /\ AddSecret([ParentSecret(p, 0, 0) EXCEPT !.managed = FALSE])
    /\ UNCHANGED <<external, syncVars>>

OperatorRemoves(id) ==
    /\ Spend("operator")
    /\ RemoveSecret(id)
    /\ UNCHANGED <<external, syncVars>>

-----------------------------------------------------------------------------

Init ==
    /\ secrets = {}
    /\ nextId = 1
    /\ services = [s \in Services |-> [version |-> 0, refs |-> {}]]
    /\ external \in [Paths -> {[present |-> FALSE, ver |-> 0, val |-> 0],
                               [present |-> TRUE, ver |-> 1, val |-> 1]}]
    /\ pc = "idle"
    /\ attempt = 0
    /\ payload = NewPayload
    /\ todo = {}
    /\ fetched = {}
    /\ budget = [faults  |-> MaxFaults,  writes   |-> MaxWrites,
                 deploys |-> MaxDeploys, operator |-> MaxOperator]

SyncStep ==
    \/ StartSync \/ ListServices \/ ListSecretsOfSwarm \/ LoadExternalState
    \/ \E p \in Paths : ProcessSameVersion(p) \/ GetSecretPayload(p)
    \/ CreateMissingSecret \/ CreateUpdatedVersion \/ FinishProcess
    \/ ApplyServiceUpdate \/ FinishApply
    \/ RemoveOldVersion \/ FinishRemove
    \/ RestoreParent \/ FinishRestore
    \/ PlanCleanup
    \/ Return

Environment ==
    \/ \E p \in Paths : WriteValue(p) \/ DeleteValue(p) \/ OperatorCreates(p)
    \/ \E s \in Services, paths \in SUBSET Paths : Deploy(s, paths)
    \/ \E id \in {secret.id : secret \in secrets} : OperatorRemoves(id)

Next == SyncStep \/ CallFails \/ Crash \/ Environment

Spec == Init /\ [][Next]_vars

\* The ticker starts a synchronization again and again, and a running one
\* goes on: no call blocks for ever.
FairSpec == Spec /\ WF_vars(SyncStep)

-----------------------------------------------------------------------------
(* Safety.                                                                   *)

\* Every variable has its type.
TypeOK ==
    /\ EngineTypeOK
    /\ external \in [Paths -> External]
    /\ pc \in PC
    /\ attempt \in 0 .. Retries
    /\ payload \in Payload
    /\ todo \subseteq Paths
    /\ fetched \subseteq Fetched
    /\ budget \in Budget

\* A service never refers to a secret that is gone, a mount never gets the
\* secret of another logical path, and the name beside an id is the name of
\* that secret: what step3 enqueues and step4 writes into the service.
RefsConsistent ==
    \A s \in Services : \A ref \in services[s].refs :
        \E secret \in secrets : /\ secret.id = ref.id
                                /\ secret.path = ref.mount
                                /\ NameOf(secret) = ref.name

\* A secret labelled with a version holds that version's value or a newer
\* one: the list is read before the payload, so a write in between costs one
\* more update and is never hidden behind a label that is too new.
LabelNeverAhead ==
    ~VersionsRestart => \A secret \in secrets : secret.label <= secret.data

\* Of two secrets of a path the younger one never carries the older version
\* id, so LatestVersion, which compares creation times, finds the newest
\* version.
LabelsInOrder ==
    ~VersionsRestart =>
        \A x, y \in secrets :
            x.path = y.path /\ x.id < y.id /\ y.path \notin HandMade
                => x.label <= y.label

\* The name of the secret that the update of a path would create now.
VersionName(path) == Generate(path, payload.listed[path], nextId)

TakenByItself(path, name) == \E secret \in OfPath(path) : NameOf(secret) = name

\* What a failed synchronization left behind of a path never blocks a later one:
\* Docker refuses to create a secret only because one of another path has the
\* very name (secretname.Generate folds paths and appends the version to them).
ConflictsAreNamesakes ==
    ~VersionsRestart =>
        /\ \A f \in fetched :
                /\ f.path \notin HandMade
                /\ pc \in {"create_secret", "create_version"}
                => ~TakenByItself(f.path, IF pc = "create_secret" THEN f.path
                                          ELSE VersionName(f.path))
        /\ pc = "restore" =>
                \A i \in DOMAIN payload.restores :
                    LET path == payload.restores[i].path
                    IN path \notin HandMade => ~TakenByItself(path, path)

\* The version a service has if nobody but this synchronization has written
\* it since the services were listed.
ExpectedVersion(s) ==
    payload.services[s].version
        + IF pc = "remove" /\ \E i \in 1 .. payload.offset : payload.order[i] = s
            THEN 1 ELSE 0

\* A removal is refused because the secret is in use only if the owner of the
\* service has deployed it in the meantime: the synchronization itself has
\* moved every reference it knew of.
RemovalBlockedByOthersOnly ==
    pc \in {"remove", "cleanup"} =>
        \A i \in DOMAIN payload.removals : \A id \in payload.removals[i].left :
            \A s \in Services : \A ref \in services[s].refs :
                ref.id = id => services[s].version # ExpectedVersion(s)

\* A retry of apply_service_updates rewrites references that the failed
\* attempt has already rewritten: no id a task moves to is one it moves from.
RewriteIsIdempotent ==
    \A s \in Services :
        \A move, other \in payload.tasks[s] : move.id # other.from

\* A synchronization that reports success leaves, for every listed path, the
\* parent secret that stacks refer to by name, as long as no operator has
\* touched a secret.  The parent is the youngest secret of its path, so the
\* version that the next synchronization compares (LatestVersion) is that of
\* the secret the stacks get; and it carries the listed version unless nothing
\* else is left beside it, which then shows in that comparison.
SuccessLeavesParent ==
    pc = "done" /\ budget.operator = MaxOperator =>
        \A p \in Paths : payload.listed[p] # 0 =>
            \E parent \in ParentsOf(p) :
                /\ \A other \in OfPath(p) : other.id <= parent.id
                /\ parent.label = payload.listed[p] \/ OfPath(p) = {parent}

\* A step of a synchronization takes the last secret of a path only in the
\* cleanup, and only if the path was managed, was not listed, and was used by
\* no service when the services were read; or when an operator took the secret
\* that an update was to leave.
LastSecretKept ==
    [][\A p \in Paths :
        OfPath(p) # {} /\ OfPath(p)' = {} /\ UNCHANGED budget.operator
            => \/ /\ pc = "cleanup"
                  /\ payload.listed[p] = 0
                  /\ payload.map[p].managed
                  /\ p \notin UsedPaths
               \/ pc = "remove" /\ budget.operator # MaxOperator]_vars

\* A service update of a synchronization never moves a mount to a secret with
\* an older version id than the one it replaces.
NoRollback ==
    [][pc = "apply" /\ services' # services /\ budget'.deploys = budget.deploys =>
        \A s \in Services :
            \A old \in services[s].refs, new \in services'[s].refs :
                old.mount = new.mount =>
                    \A x, y \in secrets :
                        x.id = old.id /\ y.id = new.id => x.label <= y.label]_vars

-----------------------------------------------------------------------------
(* What the owner of a service relies on.                                    *)

\* A reference shows the service the payload of the secret with its id.
Shown(s) ==
    UNION {{[mount |-> ref.mount, path |-> secret.path, value |-> secret.data] :
                secret \in {x \in secrets : x.id = ref.id}} :
            ref \in services[s].refs}

Refs == INSTANCE SecretRefs
    WITH written <- [p \in Paths |-> external[p].val],
         shown   <- [s \in Services |-> Shown(s)],
         deployments <- budget.deploys

\* The synchronizer implements SecretRefs: whatever is created, rewritten,
\* removed and restored, in whatever order and with whatever failures, a
\* service reads at each mount a value of the mount's own path, and only its
\* owner changes its mounts (step3's tasks and step4's rewrite).
ImplementsSecretRefs == Refs!Spec

-----------------------------------------------------------------------------
(* Liveness.                                                                 *)

\* Swarm shows what the manager holds: one parent with the current version
\* and value, nothing else, and every mount refers to it.
InSync(p) ==
    /\ \E secret \in OfPath(p) :
            /\ OfPath(p) = {secret}
            /\ secret.parent
            /\ secret.label = external[p].ver
            /\ secret.data = external[p].val
    /\ \A s \in Services : \A ref \in services[s].refs :
            ref.mount = p => ref.id \in {secret.id : secret \in OfPath(p)}

\* A path that is in sync stays so until the manager or an operator changes it:
\* what an older list or map says of it, an old plan to remove, create or restore
\* secrets, a retry or an owner's deployment never takes it out of sync.
StaysInSync ==
    [][~VersionsRestart =>
        \A p \in Paths :
            external[p].present /\ InSync(p) /\ UNCHANGED <<external[p], budget.operator>>
                => InSync(p)']_vars

\* No path can have the name of another path's version.
NamesApart == \A p \in Paths : Front(p) \notin Paths

\* Once writes, deployments and faults stop, every secret of the manager gets
\* in sync and stays so, if no secret can be in the way of another.
EventuallyInSync ==
    NamesApart => <>[](\A p \in Paths : external[p].present => InSync(p))

\* No service refers to a secret of the path, and the manager does not hold it.
Orphaned(p) ==
    /\ ~external[p].present
    /\ \A s \in Services : \A ref \in services[s].refs : ref.mount # p

\* Once they stop, no parent is left of an orphaned path: a cleanup that was
\* refused or failed, or that compared with an old listing, is made up for.
OrphanedParentsRemoved ==
    <>[](\A p \in Paths : Orphaned(p) => ParentsOf(p) = {})

\* Nor is anything else left of it.
OrphansEventuallyRemoved ==
    <>[](\A p \in Paths : Orphaned(p) => OfPath(p) = {})

=============================================================================
