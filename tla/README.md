# Verification of cloud-secrets

cloud-secrets keeps the secrets of an external manager (Cloud.ru Secret
Manager or a HashiCorp Vault KV v2 engine) available as Docker Swarm secrets:
it lists the manager, compares with Swarm, creates Docker secrets, moves the
services' references, and removes what is obsolete. Nothing is persisted
outside Docker; every run starts from what Swarm and the manager show.

This directory holds TLA+ models of the parts where the order of steps
matters, the TLC configurations that check them, and proofs for TLAPS.

## Inventory

| Component | State | Operations | Interacts with |
|---|---|---|---|
| Synchronizer (`internal/sync`) | none between runs; a `syncPayload` during one | `Sync`: a pipeline of load Swarm, load external, process, apply, remove, restore, load Swarm again, clean up | engine client, provider; called by the application |
| Engine client (`internal/engine`) | none; Docker holds secrets and services | create, remove, map secrets; list, update services | Docker API |
| Application (`internal/application/cs`) | `synchronizing`, `lastSyncAt`, `nextSyncAt` (atomics), ticker, SIGHUP channel | `Run` (loop), `Sync`, `LastSyncAt`, `NextSyncAt` | synchronizer; gRPC handlers run concurrently |
| gRPC service (`internal/api`, `internal/grpcserver`) | none | `GetInfo`, `Sync`, `List`, `Create` | application, provider |
| Vault provider (`internal/providers/vault`) | a client token | `ListSecrets` (walk of the folders), `GetSecretPayload`, `CreateSecret` (check-and-set loop) | Vault |
| Vault authentication | cached token and its expiry | AppRole login, decorator | Vault; shared by all goroutines |
| Cloud.ru provider (`internal/providers/cloudru`) | cached access token; the root folder | list, get, create, with paths relative to the root or full | Cloud.ru API |
| Command line (`internal/application/cli`) | none; leaves a policy, a role and two Docker secrets | Vault set-up, list, trigger by SIGHUP | Vault, Docker |
| Names, configuration, metrics, generated code | none of consequence | | |

What is hard here:

- **Partial failure.** A run is a sequence of calls to two remote systems, each
  of which may fail, or be done without the reply arriving; the process may die
  between any two. The next run has only Docker labels and names to go by.
- **Everyone else.** Values are written between the list and the read; stacks
  are deployed between the listing of services and their update; operators
  remove secrets.
- **Concurrency.** The ticker, SIGHUP and gRPC calls race for one flag, and read
  and advance two shared times without a lock. Several gRPC calls create keys in
  one Vault document.
- **Identity.** A version is recognised by a version id, a name and a creation
  time; all three have corner cases (ids that restart, names that are taken,
  versions without a parent).

`PROJECT.json` lists these hazards at their lines, with the properties that
catch them.

What makes each component correct:

- Synchronizer: references always consistent; no label ahead of its value; a
  failed run never blocks a later one; the last copy of a secret is only removed
  by the cleanup; once things are quiet Swarm holds what the manager holds.
- Application: one synchronization at a time, the flag always released, every
  trigger served, times monotone and on the interval's grid.
- Vault creation: no lost update, an acknowledged key is there, a conflict means
  that somebody made progress.
- Vault listing: a document is listed as it was at one instant, and a secret that
  was there all the time is not missing.
- Token caches: no token is used past the lease that is counted for it, and one
  goroutine at a time logs in.
- Vault set-up: a run that reports success has left all that the service needs,
  the two ids it stores belong together, a run takes nothing from a service that
  runs, and a run that failed leaves nothing in Vault that stops the next one.
- Cloud.ru: paths lead back to the secret they came from, nothing is created
  outside the scope, a payload is of the listed version or a newer one.

## Modules

| Module | Models | Proofs |
|---|---|---|
| `SwarmEngine` | Docker's secrets and services as `engine.Client` uses them, and `MapSecrets` | |
| `Synchronizer` (EXTENDS `SwarmEngine`) | one synchronizer, the manager, stacks' owners, operators, faults | `SynchronizerProofs`, `SynchronizerSecrets` |
| `SecretRefs` | abstract: what the owner of a service relies on; `Synchronizer` implements it | (in `SynchronizerProofs`) |
| `SyncScheduler` | the application and its gRPC handlers | `SyncSchedulerProofs` |
| `VaultDocument` | one Vault document, the handlers that create keys in it, other writers | `VaultDocumentProofs` |
| `VaultWalk` | `ListSecrets` of Vault, request by request, over an engine that changes | `VaultWalkProofs` |
| `TokenCache` | the AppRole and the IAM token cache, shared by goroutines | `TokenCacheProofs` |
| `VaultSetup` | the command `vault`: AppRole and its Docker secrets, by several operators | `VaultSetupProofs` |
| `CloudRu` | the Cloud.ru provider: paths and versions, next to other clients | `CloudRuProofs` |
| `MC*` | symmetry sets, the tree of documents and the paths for TLC | |

The synchronizer calls the provider, the application calls the synchronizer.
Each of these calls is abstracted on the caller's side: `Synchronizer` takes a
list as one step (`ListExternal`), `SyncScheduler` takes a synchronization as
time between `TryStart` and `Complete`. `VaultWalk` shows what the first
abstraction leaves of a real list: each document is listed as it was at one
instant, two documents not at the same one. No property of `Synchronizer`
compares versions of two paths. Tokens only decide whether a request fails,
which every module has as a failed call. `VaultSetup` ends where `TokenCache`
begins: with a role id and a secret id that Vault accepts. The orphan cleanup that
may take them away (`CleanupRemoves`) is the one of `Synchronizer`.

### SwarmEngine and Synchronizer

`secrets` is the set of Docker secrets. A record's `id` stands both for Docker's
id and for the creation time that `LatestVersion` compares: cloud-secrets never
updates a secret in place and Docker creates them in some order. A payload is the
number of the write that produced it, so "the value of a version" is comparable
with the version.

A name is the sequence of its parts between delimiters, and so is a path, whose
folders are folded into it: `db-2` is `<<db, 2>>`. `Generate` appends the version
to the path, as `secretname.Generate` does, so the name of version 2 of `db` *is*
the path `db-2`, and the two secrets cannot both be there. The parent of a path
bears the path itself. Where path and version would make a name of more than 64
characters (`TooLong`) it is random: `<<0, id>>`, which no other secret has. Paths
that differ only in a slash and the delimiter fold to one sequence, and the model
has one secret of the manager for each.

Actions follow the calls that leave the process; the code up to the next call
belongs to the action because nobody else can see it. `pc` names the next call,
the operators `AfterProcess`, `AfterApply`, `AfterRemove`, `AfterRestore` are
the `When` conditions of the pipeline, `StepError` is what gopipe does with an
error (run the step again up to its `Retries`, else stop; `ContinueOnError` for
the cleanup). Each mutating call has four outcomes: done; refused by Docker;
done with the reply lost; failed without effect (`CallFails`, for any call). A
`Crash` forgets the payload. `applyServiceUpdates` writes the new references
through a shared pointer before the call, so they are in the payload also after
a failure: `ApplyServiceUpdate` keeps that.

Docker's own behaviour (unique names, refusal to remove a secret that is in use,
the version index of an update) is external, modelled from how the client uses
it.

### SecretRefs

The abstract specification has no secrets, names, versions or synchronizations:
for each service it has what the service reads, one value at each mount. Owners
deploy with any mounts, the manager gets new values, and `Refresh` may replace
values of a service by others of the same mounts. That every value is one the
manager has held for the mount's own path is a condition of each step.
`Synchronizer` instantiates it (`Refs`): what a service reads is the payload of
the secrets its references lead to by id, the only thing Docker looks at.
`SecretRefs` permits an older value to come back, because the code does it
(`SyncRollback`).

### SyncScheduler

One action per atomic operation of `app.go`, so a goroutine can be overtaken
between reading the clock, loading `nextSyncAt` and swapping it. `Holds` is a
goroutine between winning the flag and clearing it. A ticker holds one tick, the
channel `SighupBuf` signals; what comes on top is lost, as in Go. The
synchronization itself only takes time.

### VaultDocument

A document is a version number and its keys. `Put` is accepted if the version is
the one read; `PutResent` is the Vault client library's own retry of a write that
was done and whose reply was lost; `CallFails` ends a call with an error, with or
without the write. Removing the whole document, after which its numbers start
again and check-and-set means nothing, is left out.

### VaultWalk

A path is a sequence of segments, `JoinPath` appends one; a secret's path is its
document's path with the key appended. `docs` is the engine: a document exists as
soon as it has metadata, its version is 0 until one is written, and its keys are
gone when the version is deleted. `ListKeys` and `GetSecret` are the two requests;
`pathsToScan`, `seenPaths` and `pending` are the loops of `ListSecrets`, as sets:
folders are taken in any order. `was` records what each document has been since
the walk began, for the properties only; so does `err` for the kind of error.

### TokenCache

`cache` chooses between the two caches, which have the same critical section and
differ in what a request carries. The steps of a login are apart: the issuer
issues, the client takes the token, the expiry is counted from a later reading of
the clock. `storedAt` and `checkedAt` record clock readings for the properties.
A lease of zero, with which every call logs in, is excluded.

### VaultSetup

One action per request of a run, in the order of `initVaultAppRole`; an operator
starts a run at any time, also while another one's is going on. A role is the
number of its creation, and its role id and secret ids are that number: the
question is only whether two ids belong together. `quiet` and `mixed` record for
the properties whether somebody has taken something away; a run that writes the
policy for its mount takes something from every run for another one. Around the
command are an administrator who deletes the role (alone or with `auth/approle`)
or the policy, the orphan cleanup of a synchronizer, and the deployment of the
stack.

### CloudRu

A path is the sequence of its segments, empty ones included, so trimming,
prefixes and splitting are what the code does with strings. `config` is the root
folder and whether it is omitted, chosen at the start among the valid ones.
`scopeSecretPath` and `createSecretPath` yield a set, empty where the code
returns an error. A secret is the sequence of its versions, each enabled or not.
`since` and `created` record for the properties what others have done since the
last list and what was created last.

## Runs

| Run | Question | Bounds |
|---|---|---|
| `SyncPaths` | labels, names, the last secret of a path, what is in sync is left alone | 2 paths, `db` and its namesake `db-2` (perhaps with a hand-made parent), 1 service, 1 retry, cleanup, 1 fault, 2 writes, 1 deployment, 1 operator step |
| `SyncServices` | references and removals with services deployed at any time; retries; the refinement of `SecretRefs` | 2 paths, `db` and `db-2`, 2 services, 1 fault, 2 writes, 2 deployments, no cleanup |
| `SyncLiveness` | convergence after faults; orphans lose their parent; labels in order | 2 paths that share no name, one with random names, 1 service, cleanup, 2 faults, 2 writes, 1 deployment |
| `Scheduler` | single flight, the times, the flag, triggers | the loop and 1 handler, interval 2, 5 time units, 2 signals for a buffer of 1 |
| `VaultCreate` | creation in one document | 3 handlers, 2 keys, 3 attempts, 1 fault, 2 other writes |
| `VaultWalk` | what a list says when the engine changes under it | 2 documents (one below the other, with a folder between), 2 keys and an unsupported one, 3 changes, 1 fault, any initial state |
| `TokenCache` | who logs in, what a request carries, that nobody waits for ever | 2 goroutines, lease 2, 4 time units, 2 requests per call, 1 failed login, 1 revocation |
| `VaultSetup` | what runs of the set-up leave behind, for the service and for the next run | 2 operators, 2 mounts, 2 faults, 2 overlaps, 1 deletion in Vault, 1 by the cleanup, 1 deployment |
| `CloudRu` | where paths lead, which version a payload is of | no root or one, omitted or not; 4 places, one of them below a folder of the root's name; 8 requests; 2 versions, 2 changes, 1 creation, 1 fault |
| `SyncRollback` | *violated*: a failed run is followed by a rollback | 1 path, 1 fault |
| `SyncOrphanLeak` | *violated*: a failed cleanup leaves versions for ever | 1 path, 1 fault |
| `SyncVersionReuse` | *violated*: a recreated Vault document is not noticed | 1 path, version ids restart |

Why the bounds are enough. Two paths and two services are what the interaction
of step3's queues, step4's offset and step5's list needs: two entries of each,
with a task that moves two references. One retry distinguishes the first run of
a step from a later one; the code's 3 add only repetitions, and the proofs hold
for every number. The second fault of `SyncLiveness` reaches a failure in the run
that repairs the first. Two writes make a value change between a list and a read
and once more before the next list. The clock of the scheduler passes two grid
points after start, enough for a stale reading to be swapped after another
goroutine's; the signals overflow the buffer. Three changes of the engine let a
document be removed, created and written while the walk is between two requests.
The clock of `TokenCache` lets a second token expire. Two writes are also what it
takes to give `db` a version 2 whose name the path `db-2` has. In `VaultSetup` two
runs can fail after each of their requests, the next one finds what they left, also
while another one has stored either id, and what it relies on can be taken away.
Two versions and two changes in `CloudRu` add a version and
disable one of the two between a list and a read.

Symmetry is used where services, callers, operators or mounts are interchangeable,
and never in the liveness runs.

### Fairness

`Synchronizer!FairSpec` is weak fairness of the pipeline's steps taken together:
the ticker starts a synchronization again and again, and a call returns. The
code sets no timeouts on its calls; that they return is an assumption. Nothing
is assumed about writers, owners, operators or faults: they may stop at any
time, and their bounds make them stop. `SyncScheduler!FairSpec` is weak fairness
of each goroutine: the Go scheduler runs it, and a synchronization returns. The
clock, signals and callers are not fair. `TokenCache!FairSpec` is strong fairness
of each goroutine, because others may take the mutex again and again and Go's
mutex hands it to a waiter that has starved. Nothing in the code makes the command
`vault` be run again, so `VaultSetup` has no fairness and only safety is stated of it.

`EventuallyInSync` is stated for paths of which none is the name of another one's
version (`NamesApart`). Where one is, it does not hold: whichever of the two secrets
is created first makes Docker refuse the other in every later run.

## What the checks show

References are never dangling or crossed, and what a service reads at a mount is
always a value the manager has held for the mount's own path. A label is never
ahead of its value. What a failed run left of a path never has the name that a later
one needs; the only conflict is with a secret of another path that has the very name.
Nothing is moved or taken across such namesakes, though: references stay right, and a
path in sync stays so. A run that reports success leaves a parent for each listed path, and one that tells the next run the
truth about the version that services have. Only the cleanup takes the last
secret of a path, and only of one that was unlisted, managed and unused when it
looked. A path that is in sync is taken out of it by a change in the manager or by
an operator only, never by what an earlier run or an older list has left to do.
With two faults anywhere Swarm still ends up in sync.

A list of Vault never mixes two versions of a document and misses nothing that
was there throughout; one document without a version, though, fails all of it. A
token is never used past the lease that is counted for it, but that lease is
counted from the end of the login, and a revoked token is used until it ends.

A run of the set-up that reports success has left everything for its own mount,
unless in the middle of it something was taken away, or a run for another mount
overwrote the policy: the one that wrote first says all the same that AppRole is ready
(`vault.go:223`), and its service cannot read. A run is never stopped by what a failed
one left in Vault, nor at its secret id; but once a run has stored the role id and
failed, every later one is refused at the role id, until that Docker secret is
removed, by hand or by a cleanup of orphans. The two ids the set-up stores belong
together, whoever else runs it and whatever fails, with two exceptions that the
model shows: a role that is deleted in the middle of a run, and a role id that is removed before its secret id (the orphan
cleanup may do that: both secrets carry the managed label). A run takes nothing
from the service that runs unless it is for another mount: the policy has one name
for all mounts and is written before the run can fail.

Cloud.ru's paths lead back to their secrets for every configuration, except where
a folder inside an omitted root repeats the root's name: `prod/prod/db` is listed
as `prod/db`, which is then taken for a full path, and its Docker secret gets the
payload of `prod/db` or none.

Where code and documentation differ (the violated runs, each a finding in
`PROJECT.json`):

1. After a run that failed past the creation of a new version, the next run
   takes the same-version branch and moves services **back** to the stale
   parent; the run after that repairs it.
2. A cleanup that fails after it has removed the parent leaves versions that no
   later run sees.
3. Vault's version number restarts when a document is recreated; the new value
   is then taken for the old one.

Seen while modelling, without a run of its own: names collide as described above
(`generate.go:16-20`); the set-up cannot be finished by running it again once the
role id is stored; the count of removed secrets includes parents that are only
replaced; and check-and-set does not notice the deletion of a document's current
version, so a concurrent creation brings the deleted keys back (`DeleteVersion` keeps the number that `CasAccepted` compares).

## What is proved

All theorems hold for every value of the constants that satisfies the named
assumptions (`NamesAssumption`, `BoundsAssumption`, `FinitenessAssumption`, `ScheduleAssumption`,
`DocumentAssumption`, `WalkAssumption`, `TokenAssumption`, `SetupAssumption`,
`CloudRuAssumption`). Each is an inductive invariant, one lemma per action, and a last step in temporal logic.

- `TypeCorrect`: `TypeOK` is inductive, after the types of the operators on the
  payload and on Swarm.
- `LabelsNeverAhead`: a label is compared with the value it sits next to, but
  both come from earlier calls. `LabelBounds` carries the bound along their way:
  the current version is at most the current value, a listed version at most the
  current value (which only grows), hence at most the value read after it,
  hence the same for a queued restore and for a created secret. `FetchedInHand`
  says when a payload is in hand, so that a new listing cannot be compared with
  an old payload.
- `SynchronizerRefines`, `RefsStayConsistent`: ids outlive what they belong to; a
  reference, a pending update or a secret map may hold the id of a secret that is
  gone, and a name may be that of two secrets of different paths, one after the
  other. `Agreed` therefore speaks of a function from every id ever handed out to
  the path and the name it was given, and says that whoever holds an id agrees with
  it; a new secret extends the function, nothing else changes it. Step3 also finds
  references by name, which is what a namesake could mislead: `FreshAgrees` says that
  in a service nobody has written since it was read, each reference that has the name
  of a mapped parent is to that path, because that parent still had the name then. Of
  other services nothing is said, and Docker refuses their update. With `DataHeld` (every
  value in Swarm or in hand was the manager's) each reference shows a value of its
  own mount (`ShownIsFaithful`). `SameMounts` says that the specification read
  earlier has the service's mounts as long as the version index is the same, which
  is when Docker accepts an update. Each action then maps to a step of
  `SecretRefs` or to none.
- `RetriesRewriteOnce`: the id a task moves to is that of a parent that was mapped,
  which no visit of another path finds (`ParentFound`), or a new one, which nothing
  that was read has (`Unseen`); so no move starts where another one leads
  (`TasksApart`).
- `LastSecretIsKept`: removals are planned when a path is processed and done after
  the services were updated, or never. `KeepInv` follows them: a removal takes
  secrets of its own path only (`OfItsPath`, by `Agreed`), there is at most one for a
  path (`NotYetProcessed`), and as long as no operator created or took a secret each
  path with a removal has a secret that no removal takes (`Spared`): the parent in
  the same-version branch, the new version in the other.
- `SuccessKeepsParents`: the parent of a listed path is there at the end, is the
  youngest secret of the path, and has the listed version or nothing beside it. What
  matters is not what is in Docker but what will remain, the secrets that no planned
  removal takes (`Remaining`). `ParentInv` follows each listed path: it is still to be
  processed, or such a parent will remain (`Settles`), or a parent is queued for
  restore, and once the restores are done the parent is there. This rests on
  `QuietInv`: without operators the map has every secret of a path that is still to
  be visited, so that step3 plans the removal of all but one, and a restore
  carries the listed version. Only the cleanup takes secrets after that, and not
  of listed paths.
- `LabelsStayInOrder`: of two secrets of a path the younger never has the older
  version id. `OrderInv` puts the listed version between the labels of a
  path and the manager's own version. Each secret a synchronization creates or
  restores carries the listed one, so it is at least as new as all that is there.
  This needs versions that count up: `SyncVersionReuse` shows what is missed
  without.
- `OnlyNamesakesConflict`: `GenerateApart` says which names of one path are equal. A
  version is created when the map does not have it, and the map is older than the
  creation. `KnownInv` says that the map has every secret of a path
  that is still to be visited, or that the path has no parent and a missing parent is
  created; `TakenInv` that a parent that is to be restored was taken, or is in a
  removal that comes first, and is restored once.
- `OnlyOthersBlockRemovals`: a reference that was read to an id that a removal takes
  has a move in the tasks of its service, and no move leads to such an id, because
  a task leads to a path's own parent or to an unseen id (`PathsApart`). A rewrite
  leaves no such reference (`PlanInv`). `VersionInv` carries this to Swarm: as long
  as a service's version index is the one read, plus one once this synchronization
  has updated it, the service has the references of the payload. So who still holds
  a taken id has been written by somebody else.
- `SyncedStaysSo`: the safety half of `EventuallyInSync`. A step could undo what is
  in sync by taking the parent, or by adding a secret. `SyncedInv` excludes the first:
  each parent of a path that is still to be visited is the mapped one, and no newer
  than the mapped latest version; so a removal takes a parent only where the path was
  listed with a newer version, and the cleanup only what the manager now has with a
  version that no secret carries. `OrderInv` and `KnownInv` exclude the second: the
  listed version is no newer than the manager's, and a secret that has it is not
  created again. The references follow from `RefsConsistent`. Where versions start
  again all of this fails, hence the hypothesis.
- `SchedulerTypeCorrect`, `OneSyncAtATime`, `InfoInOrder`, `TimesForward`:
  `SchedulerInv` relates what a goroutine remembers between
  two atomic operations to the shared times. A loaded `nextSyncAt` that is about
  to be swapped has passed by its reader's clock; a completion time that is about
  to be stored is not older than `lastSyncAt`, because only the holder of the
  flag has one. The arithmetic of `advanceNextSyncAt` is in two lemmas.
- `DocumentTypeCorrect`, `ConflictsProgress`, `CreateLosesNothing`,
  `AcknowledgedIsKept`: what a
  handler has read is either out of date by its version number, or still covers
  every key of the document (`Snapshot`): a version that is deleted only takes keys
  away. Attempts lost never exceed the version read (`Progress`), and a handler that
  is about to write has read that the key is not there (`InProgress`).
- `WalkTypes`, `ListsAreConsistent`, `ListsAreComplete`, `FailuresHaveAReason`:
  `CoverInv` is the argument for completeness. For a key that was there all the
  time, and any folder on its way that was listed, a folder further down is still
  to be scanned, or the document is next, or the key is listed; when nothing is left
  to scan the last one remains. `OnceInv` says that a document is read once, so its
  keys are of one read. Paths are sequences, and the lemmas on their prefixes rest
  on the library's facts about sequences.
- `CacheTypes`, `CheckedTokensOnly`, `LoginsAreSingle`: `LockInv` ties the steps of
  a login to the mutex and to the newest token; `ExpiryInv` says that the cached
  expiry is that of the cached token, except between the two assignments.
- `SetupTypes`, `PairsBelongTogether`, `SuccessIsAlwaysReady`, `RunsKeepAccess`,
  `RefusedByLeftoversOnly`: `PairInv` says that only one run at a time, whose own role
  id is stored, is about to store a secret id, and that there is none yet; `QuietInv`
  what a run relies on as long as nothing was taken away; `AloneInv` that without an
  overlap nobody enables AppRole between a run's look and its request.
- `TypeCorrect`, `PayloadRead`, `CreationInScope`, `CreationListed` of `CloudRu`: any
  root and any places, as long as the root neither starts nor ends with an empty
  segment (it is trimmed when it is read) and no place has one. `ThereAndBack` says
  that the logical path of a full one leads back to it, unless it starts with the
  root's own name; `PathsApart` that two full paths have different logical ones;
  `CreateTarget` where `Create` may put a secret. `ShownIsAccessed` is about the
  order of versions: the first enabled one of a list that starts with the newest is
  the one that Access answers with. `ListedInv` then relates a list to what a read is
  answered with by `since`: the same version as long as nothing happened to the
  secret, a newer one as long as nothing was taken away; `CreatedInv` keeps a created
  secret in the lists.

Only model-checked: all liveness, as fairness is beyond the prover.

## Not modelled

- Requests and formats of Docker, Vault and Cloud.ru, and the set-up of their
  clients, with the discovery of Cloud.ru's endpoints: they run once, before
  anything else, and keep no state.
- Names as strings. Every delimiter separates parts, so with `_` between folders the
  model has a few conflicts more than the code (`db/2` is then `db_2`, not `db-2`).
  Two secrets of the manager whose paths fold to one name are taken for one: what the
  code does with `a/b` next to `a-b` is not covered. A random name is taken to be new.
- A manager whose newest version can be disabled between the list and the read:
  in `Synchronizer` versions only rise. `CloudRu` has the step (`PayloadIsOfListed`).
- Start and stop of the process: a stop in the middle of a run is a `Crash`; the
  loop and the handlers run from the start in `SyncScheduler`.
- Removal of a whole Vault document next to a creation: its version numbers start
  again, and check-and-set means nothing then.
- A call that never returns: the code sets no timeouts, and the fairness of the
  liveness runs is the assumption that calls return.
- Configuration, metrics, logs, `ls`, and generated code.
