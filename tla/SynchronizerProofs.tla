------------------------- MODULE SynchronizerProofs -------------------------
(***************************************************************************)
(* The types of the synchronizer's state, the labels of its secrets and the *)
(* references of services, for any paths, services, retries and bounds.     *)
(* TypeOK is inductive as it stands: first what the operators on the        *)
(* payload and on Swarm return, then one lemma per action.  The labels and  *)
(* the references need invariants of their own; the last part shows that    *)
(* the synchronizer implements SecretRefs.                                  *)
(***************************************************************************)
EXTENDS Synchronizer, SequenceTheorems, FiniteSetTheorems, WellFoundedInduction, TLAPS

\* Logical paths are names, and so is what secretname.Generate makes of one.
LEMMA PathIsName ==
    ASSUME NEW path \in Paths
    PROVE  path \in Name
<1>1. path \in Seq(Words \cup (Nat \ {0}))
    BY NamesAssumption
<1>2. QED
    BY <1>1 DEF Name

LEMMA GenerateType ==
    ASSUME NEW path \in Paths, NEW version \in Nat, NEW id \in Nat
    PROVE  Generate(path, version, id) \in Name
<1>1. Append(path, version) \in Name
    BY PathIsName DEF Name
<1>2. <<0, id>> \in Name
    BY DEF Name
<1>3. QED
    BY <1>1, <1>2 DEF Generate

LEMMA NameOfType ==
    ASSUME NEW secret \in Secret
    PROVE  NameOf(secret) \in Name
BY PathIsName, GenerateType DEF NameOf, Secret

\* A set of numbers below a bound has a greatest one.
LEMMA MaxExists ==
    ASSUME NEW S \in SUBSET Nat, S # {}, NEW bound \in Nat,
           \A n \in S : n < bound
    PROVE  \E m \in S : \A n \in S : n <= m
<1> DEFINE T == {k \in Nat : \E n \in S : k = bound - n}
<1>0. \A n \in S : bound - n \in T
    OBVIOUS
<1>1. T \subseteq Nat /\ T # {}
    BY <1>0
<1>2. PICK k \in T : \A j \in T : ~(<<j, k>> \in OpToRel(<, Nat))
    BY <1>1, NatLessThanWellFounded, WFMin
<1>3. \A j \in T : ~(j < k)
    BY <1>1, <1>2 DEF OpToRel
<1>4. PICK m \in S : k = bound - m
    OBVIOUS
<1>5. QED
    BY <1>0, <1>3, <1>4

\* LatestVersion is one of the path's secrets, and the youngest.
LEMMA LatestExists ==
    ASSUME TypeOK, NEW path \in Paths, OfPath(path) # {}
    PROVE  /\ Latest(path) \in OfPath(path)
           /\ \A other \in OfPath(path) : other.id <= Latest(path).id
<1> DEFINE ids == {secret.id : secret \in OfPath(path)}
<1>1. \A secret \in OfPath(path) : secret.id \in Nat /\ secret.id < nextId
    BY DEF TypeOK, EngineTypeOK, Secret, OfPath
<1>2. ids \in SUBSET Nat /\ ids # {} /\ nextId \in Nat
         /\ \A n \in ids : n < nextId
    BY <1>1 DEF TypeOK, EngineTypeOK
<1>3. PICK m \in ids : \A n \in ids : n <= m
    BY <1>2, MaxExists
<1>4. \E secret \in OfPath(path) :
            \A other \in OfPath(path) : other.id <= secret.id
    BY <1>3
<1>5. QED
    BY <1>4 DEF Latest

\* MapSecrets maps every path to an entry.
LEMMA MapSecretsType ==
    ASSUME TypeOK
    PROVE  MapSecrets \in [Paths -> ExistingSecret]
<1> SUFFICES ASSUME NEW path \in Paths
             PROVE  MapSecrets[path] \in ExistingSecret
    BY DEF MapSecrets
<1>1. CASE ParentsOf(path) = {}
    BY <1>1 DEF MapSecrets, ExistingSecret, Unmapped
<1>2. CASE ParentsOf(path) # {}
    <2>1. OfPath(path) \subseteq Secret
        BY DEF TypeOK, EngineTypeOK, OfPath
    <2>2. (CHOOSE secret \in ParentsOf(path) : TRUE).id \in Nat
        BY <1>2, <2>1 DEF ParentsOf, Secret
    <2>3. Latest(path).label \in Nat
        BY <1>2, <2>1, LatestExists DEF ParentsOf, Secret
    <2>4. {secret.id : secret \in OfPath(path)} \in SUBSET Nat
        BY <2>1 DEF Secret
    <2>5. (\E secret \in OfPath(path) : secret.managed) \in BOOLEAN
        OBVIOUS
    <2>6. QED
        BY <1>2, <2>2, <2>3, <2>4, <2>5 DEF MapSecrets, ExistingSecret
<1>3. QED
    BY <1>1, <1>2

\* An arrangement of a finite set is a sequence over it.
LEMMA ArrangementIsSeq ==
    ASSUME NEW S, IsFiniteSet(S), NEW T, S \subseteq T, NEW q \in SetToSeqs(S)
    PROVE  q \in Seq(T)
<1>1. Cardinality(S) \in Nat
    BY FS_CardinalityType
<1>2. q \in [1 .. Cardinality(S) -> S]
    BY DEF SetToSeqs
<1>3. q \in Seq(S)
    BY <1>1, <1>2
<1>4. QED
    BY <1>3, SeqMonotonic

-----------------------------------------------------------------------------
(* Types of the operators on the payload.                                    *)

\* Sync starts with a payload.
LEMMA NewPayloadType == NewPayload \in Payload
<1>1. [s \in Services |-> [version |-> 0, refs |-> {}]] \in [Services -> Service]
    BY DEF Service
<1>2. [p \in Paths |-> Unmapped] \in [Paths -> ExistingSecret]
    BY DEF Unmapped, ExistingSecret
<1>3. [p \in Paths |-> 0] \in Listing
    BY DEF Listing
<1>4. [s \in Services |-> {}] \in [Services -> SUBSET Move]
    OBVIOUS
<1>5. NoResult \in Result
    BY DEF NoResult, Result
<1>6. <<>> \in Seq(Services) /\ <<>> \in Seq(Removal) /\ <<>> \in Seq(Restore)
    OBVIOUS
<1>7. QED
    BY <1>1, <1>2, <1>3, <1>4, <1>5, <1>6 DEF NewPayload, Payload

\* Counting a result keeps a payload one.
LEMMA CountedType ==
    ASSUME NEW pl \in Payload,
           NEW counter \in {"created", "updated", "skipped",
                            "removedSecrets", "removedVersions"}
    PROVE  Counted(pl, counter) \in Payload
<1>1. pl.result \in Result /\ pl.result[counter] \in Nat
    BY DEF Payload, Result
<1>2. [pl.result EXCEPT ![counter] = pl.result[counter] + 1] \in Result
    BY <1>1 DEF Result
<1>3. QED
    BY <1>2 DEF Counted, Payload

\* So does a pending removal of ids that are versions of the path.
LEMMA WithRemovalType ==
    ASSUME NEW pl \in Payload, NEW p \in Paths, NEW left \in SUBSET Nat
    PROVE  WithRemoval(pl, p, left) \in Payload
<1>1. [path |-> p, parent |-> pl.map[p].id, left |-> left] \in Removal
    BY DEF Payload, Removal, ExistingSecret
<1>2. Append(pl.removals, [path |-> p, parent |-> pl.map[p].id, left |-> left])
        \in Seq(Removal)
    BY <1>1 DEF Payload
<1>3. QED
    BY <1>2 DEF WithRemoval, Payload

\* And so do service tasks that move references to a live secret.
LEMMA EnqueuedType ==
    ASSUME NEW pl \in Payload, NEW moved \in [Services -> SUBSET Nat],
           NEW target \in [id : Nat \ {0}, name : Name],
           NEW queued \in Enqueued(pl, moved, target)
    PROVE  queued \in Payload
<1> DEFINE newly == {s \in Services : moved[s] # {}
                        /\ \A i \in DOMAIN pl.order : pl.order[i] # s}
           tasks == [s \in Services |->
                        {move \in pl.tasks[s] : move.from \notin moved[s]} \cup
                        {[from |-> id, id |-> target.id, name |-> target.name] :
                            id \in moved[s]}]
<1>1. PICK arrivals \in SetToSeqs(newly) :
            queued = [pl EXCEPT !.tasks = tasks, !.order = @ \o arrivals]
    BY DEF Enqueued
<1>2. IsFiniteSet(newly) /\ newly \subseteq Services
    BY FinitenessAssumption, FS_Subset
<1>3. arrivals \in Seq(Services)
    BY <1>2, ArrangementIsSeq
<1>4. pl.order \o arrivals \in Seq(Services)
    BY <1>3 DEF Payload
<1>5. tasks \in [Services -> SUBSET Move]
    BY DEF Payload, Move
<1> HIDE DEF tasks
<1>6. QED
    BY <1>1, <1>4, <1>5 DEF Payload

\* An error keeps the types: a step is not run again beyond its retries.
LEMMA StepErrorType ==
    ASSUME TypeOK, NEW pl \in Payload, StepError(pl)
    PROVE  /\ pc' \in PC
           /\ attempt' \in 0 .. Retries
           /\ payload' \in Payload
           /\ todo' \subseteq Paths
           /\ fetched' \subseteq Fetched
<1>1. [pl EXCEPT !.result = NoResult] \in Payload
    BY DEF Payload, NoResult, Result
<1>2. CASE attempt < RetriesOf(pc)
    <2>1. StepStart(pc) \in PC
        BY DEF TypeOK, StepStart, PC
    <2>2. /\ pc' = StepStart(pc) /\ attempt' = attempt + 1
          /\ payload' = pl /\ todo' = todo /\ fetched' = fetched
        BY <1>2, BoundsAssumption DEF StepError, TypeOK, RetriesOf
    <2>3. QED
        BY <1>2, <2>1, <2>2, BoundsAssumption DEF TypeOK, RetriesOf
<1>3. CASE attempt >= RetriesOf(pc)
    <2>1. pc' \in {"done", "failed"} /\ attempt' = 0
        BY <1>3, BoundsAssumption DEF StepError, Go, TypeOK, RetriesOf
    <2>2. payload' \in Payload /\ todo' = todo /\ fetched' = fetched
        BY <1>1, <1>3, BoundsAssumption DEF StepError, TypeOK, RetriesOf
    <2>3. QED
        BY BoundsAssumption, <2>1, <2>2 DEF TypeOK, PC
<1>4. QED
    BY <1>2, <1>3, BoundsAssumption DEF TypeOK, RetriesOf

-----------------------------------------------------------------------------
(* Types of the engine's operations.                                         *)

\* A created secret gets an id that was never used.
LEMMA AddSecretType ==
    ASSUME EngineTypeOK, NEW secret \in Secret, secret.id = nextId,
           AddSecret(secret)
    PROVE  EngineTypeOK'
<1>1. nextId' = nextId + 1 /\ secrets' = secrets \cup {secret}
         /\ services' = services
    BY DEF AddSecret
<1>2. QED
    BY <1>1 DEF EngineTypeOK, Secret

\* A removal leaves the other secrets and all services.
LEMMA RemoveSecretType ==
    ASSUME EngineTypeOK, NEW id, RemoveSecret(id)
    PROVE  EngineTypeOK'
BY DEF EngineTypeOK, RemoveSecret

\* An update leaves the secrets and gives the service its references.
LEMMA UpdateServiceType ==
    ASSUME EngineTypeOK, NEW s \in Services, NEW version \in Nat,
           NEW refs \in SUBSET Ref, UpdateService(s, version, refs)
    PROVE  EngineTypeOK'
<1>1. [version |-> version + 1, refs |-> refs] \in Service
    BY DEF Service
<1>2. QED
    BY <1>1 DEF EngineTypeOK, UpdateService

\* CreateSecret and CreateSecretVersion make secrets with the next id.
LEMMA NewSecretType ==
    ASSUME EngineTypeOK, NEW path \in Paths, NEW label \in Nat, NEW data \in Nat
    PROVE  /\ ParentSecret(path, label, data) \in Secret
           /\ ParentSecret(path, label, data).id = nextId
           /\ VersionSecret(path, label, data) \in Secret
           /\ VersionSecret(path, label, data).id = nextId
BY DEF EngineTypeOK, ParentSecret, VersionSecret, Secret

\* A deployed stack has references.
LEMMA MountingType ==
    ASSUME EngineTypeOK, NEW paths \in SUBSET Paths
    PROVE  Mounting(paths) \in SUBSET Ref
<1> SUFFICES ASSUME NEW secret \in secrets
             PROVE  [mount |-> secret.path, id |-> secret.id,
                     name |-> NameOf(secret)] \in Ref
    BY DEF Mounting
<1>1. secret \in Secret
    BY DEF EngineTypeOK
<1>2. NameOf(secret) \in Name
    BY <1>1, NameOfType
<1>3. QED
    BY <1>1, <1>2 DEF Ref, Secret

\* So has a service whose references step4 rewrites.
LEMMA RewrittenType ==
    ASSUME payload \in Payload, NEW s \in Services
    PROVE  Rewritten(s) \in SUBSET Ref
<1>1. payload.services[s].refs \in SUBSET Ref
    BY DEF Payload, Service
<1>2. payload.tasks[s] \in SUBSET Move
    BY DEF Payload
<1>3. ASSUME NEW ref \in Ref, NEW move \in Move
      PROVE  [ref EXCEPT !.id = move.id, !.name = move.name] \in Ref
    BY DEF Ref, Move
<1>4. SUFFICES ASSUME NEW new \in Rewritten(s)
               PROVE  new \in Ref
    OBVIOUS
<1>5. CASE new \in payload.services[s].refs
    BY <1>1, <1>5
<1>6. CASE new \notin payload.services[s].refs
    <2>1. PICK ref \in payload.services[s].refs : \E move \in Moves(s, ref) :
            new = [ref EXCEPT !.id = move.id, !.name = move.name]
        BY <1>6 DEF Rewritten
    <2>2. PICK move \in Moves(s, ref) :
            new = [ref EXCEPT !.id = move.id, !.name = move.name]
        BY <2>1
    <2>3. ref \in Ref /\ move \in Move
        BY <1>1, <1>2 DEF Moves
    <2>4. QED
        BY <1>3, <2>2, <2>3
<1>7. QED
    BY <1>5, <1>6

\* Crossing an id off leaves a list of removals.
LEMMA CrossedOffType ==
    ASSUME NEW pl \in Payload, pl.removals # <<>>, NEW id
    PROVE  /\ CrossedOff(pl, id) \in Payload
           /\ Head(pl.removals) \in Removal
<1> DEFINE left == Head(pl.removals).left \ {id}
<1>1. pl.removals \in Seq(Removal)
    BY DEF Payload
<1>2. Head(pl.removals) \in Removal /\ Tail(pl.removals) \in Seq(Removal)
    BY <1>1, HeadTailProperties
<1>3. [Head(pl.removals) EXCEPT !.left = left] \in Removal
    BY <1>2 DEF Removal
<1>4. <<[Head(pl.removals) EXCEPT !.left = left]>> \in Seq(Removal)
    BY <1>3
<1>5. <<[Head(pl.removals) EXCEPT !.left = left]>> \o Tail(pl.removals)
        \in Seq(Removal)
    BY <1>2, <1>4, ConcatProperties
<1> HIDE DEF left
<1>6. [pl EXCEPT !.removals = Tail(pl.removals)] \in Payload
    BY <1>2 DEF Payload
<1>7. [pl EXCEPT !.removals =
            <<[Head(pl.removals) EXCEPT !.left = left]>> \o Tail(pl.removals)]
        \in Payload
    BY <1>5 DEF Payload
<1>8. CrossedOff(pl, id) \in Payload
    BY <1>6, <1>7 DEF CrossedOff, left
<1>9. QED
    BY <1>2, <1>8

-----------------------------------------------------------------------------
(* Every action preserves the types.                                         *)

\* A fault leaves a budget.
LEMMA FaultType ==
    ASSUME TypeOK, Fault
    PROVE  budget' \in Budget
BY DEF TypeOK, Fault, Budget

\* So does any other use of it.
LEMMA SpendType ==
    ASSUME TypeOK, NEW kind \in {"faults", "writes", "deploys", "operator"},
           Spend(kind)
    PROVE  budget' \in Budget
<1>1. budget \in Budget /\ budget[kind] \in Nat /\ budget[kind] > 0
    BY DEF TypeOK, Spend, Budget
<1>2. budget' = [budget EXCEPT ![kind] = budget[kind] - 1]
    BY DEF Spend
<1>3. budget[kind] - 1 \in Nat
    BY <1>1
<1>4. QED
    BY <1>1, <1>2, <1>3 DEF Budget

\* The end of a synchronization leaves an empty payload.
LEMMA ForgetType ==
    ASSUME Forget
    PROVE  payload' \in Payload /\ todo' \subseteq Paths /\ fetched' \subseteq Fetched
BY NewPayloadType DEF Forget

\* The steps of the pipeline follow each other within PC.
LEMMA NextStepType ==
    ASSUME NEW pl
    PROVE  {AfterProcess(pl), AfterApply(pl), AfterRemove(pl), AfterRestore}
                \subseteq PC
BY DEF AfterProcess, AfterApply, AfterRemove, AfterRestore, PC

\* load_swarm_state and load_external_state.
LEMMA LoadType ==
    ASSUME TypeOK,
           StartSync \/ ListServices \/ ListSecretsOfSwarm \/ LoadExternalState
    PROVE  TypeOK'
<1>1. CASE StartSync
    BY BoundsAssumption, <1>1, NewPayloadType
        DEF StartSync, TypeOK, EngineTypeOK, engineVars, Go, PC
<1>2. CASE ListServices
    <2>1. [payload EXCEPT !.services = services] \in Payload
        BY DEF TypeOK, EngineTypeOK, Payload
    <2>2. pc' \in PC
        BY <1>2 DEF ListServices, PC
    <2>3. QED
        BY <1>2, <2>1, <2>2 DEF ListServices, TypeOK, EngineTypeOK, engineVars
<1>3. CASE ListSecretsOfSwarm
    <2>1. [payload EXCEPT !.map = MapSecrets] \in Payload
        BY MapSecretsType DEF TypeOK, Payload
    <2>2. pc' \in PC /\ attempt' = 0
        BY <1>3 DEF ListSecretsOfSwarm, PC, Go
    <2>3. QED
        BY BoundsAssumption, <1>3, <2>1, <2>2
            DEF ListSecretsOfSwarm, TypeOK, EngineTypeOK, engineVars
<1>4. CASE LoadExternalState
    <2>1. ListExternal \in Listing
        BY DEF TypeOK, External, ListExternal, Listing
    <2>2. [payload EXCEPT !.listed = ListExternal] \in Payload
        BY <2>1 DEF TypeOK, Payload
    <2>3. pc' \in PC /\ attempt' = 0
        BY <1>4 DEF LoadExternalState, PC, Go
    <2>4. QED
        BY BoundsAssumption, <1>4, <2>2, <2>3
            DEF LoadExternalState, TypeOK, EngineTypeOK, engineVars
<1>5. QED
    BY <1>1, <1>2, <1>3, <1>4

\* The references that step3 moves are ids.
LEMMA MovedType ==
    ASSUME TypeOK, NEW p \in Paths
    PROVE  /\ [s \in Services |-> SameVersionRefs(s, p)] \in [Services -> SUBSET Nat]
           /\ [s \in Services |-> UpdatedRefs(s, p)] \in [Services -> SUBSET Nat]
<1>1. \A s \in Services : \A ref \in payload.services[s].refs : ref.id \in Nat
    BY DEF TypeOK, Payload, Service, Ref
<1>2. QED
    BY <1>1 DEF SameVersionRefs, UpdatedRefs

\* processExternalSecret, same version.
LEMMA ProcessSameVersionType ==
    ASSUME TypeOK, NEW p \in Paths, ProcessSameVersion(p)
    PROVE  TypeOK'
<1> DEFINE secret == payload.map[p]
           old    == secret.versions \ {secret.id}
           moved  == [s \in Services |-> SameVersionRefs(s, p)]
           parent == [id |-> secret.id, name |-> p]
<1>1. payload \in Payload /\ secret \in ExistingSecret
    BY DEF TypeOK, Payload
<1>2. secret.id \in Nat \ {0}
    BY <1>1 DEF ProcessSameVersion, SameVersion, IsMissing, ExistingSecret
<1>3. parent \in [id : Nat \ {0}, name : Name]
    BY <1>2, PathIsName
<1>4. moved \in [Services -> SUBSET Nat]
    BY MovedType
<1>5. old \in SUBSET Nat
    BY <1>1 DEF ExistingSecret
<1>6. PICK pl \in Enqueued(payload, moved, parent) :
            payload' = Counted(IF secret.managed /\ old # {}
                                THEN WithRemoval(pl, p, old) ELSE pl, "skipped")
    BY DEF ProcessSameVersion
<1>7. pl \in Payload
    BY <1>1, <1>3, <1>4, <1>6, EnqueuedType
<1>8. WithRemoval(pl, p, old) \in Payload
    BY <1>5, <1>7, WithRemovalType
<1>9. payload' \in Payload
    BY <1>6, <1>7, <1>8, CountedType
<1>10. QED
    BY <1>9 DEF ProcessSameVersion, TypeOK, EngineTypeOK, engineVars

\* The payload that is read is a value of the manager.
LEMMA GetSecretPayloadType ==
    ASSUME TypeOK, NEW p \in Paths, GetSecretPayload(p)
    PROVE  TypeOK'
<1>1. payload' \in Payload /\ todo' \subseteq Paths /\ fetched' \subseteq Fetched
        /\ pc' \in PC /\ attempt' \in 0 .. Retries
    <2>1. CASE external[p].present /\ fetched' = {[path |-> p, data |-> external[p].val]}
               /\ Go(IF IsMissing(p) THEN "create_secret" ELSE "create_version")
               /\ UNCHANGED <<payload, todo>>
        BY BoundsAssumption, <2>1 DEF TypeOK, External, Fetched, Go, PC
    <2>2. CASE StepError(payload)
        BY <2>2, StepErrorType DEF TypeOK
    <2>3. QED
        BY <2>1, <2>2 DEF GetSecretPayload
<1>2. QED
    BY <1>1 DEF GetSecretPayload, TypeOK, EngineTypeOK, engineVars

\* What createUpdatedSecretVersion queues.
LEMMA UpdatePlannedType ==
    ASSUME TypeOK, NEW p \in Paths, NEW data \in Nat,
           NEW pl \in UpdatePlanned(payload, p, data)
    PROVE  pl \in Payload
<1> DEFINE moved   == [s \in Services |-> UpdatedRefs(s, p)]
           target  == [id |-> nextId, name |-> VersionName(p)]
           restore == [path |-> p, label |-> payload.listed[p], data |-> data]
           removing == WithRemoval(payload, p, payload.map[p].versions)
           planned == [removing EXCEPT !.map[p].managed = TRUE,
                                       !.restores = Append(@, restore)]
<1>1. /\ payload \in Payload
      /\ payload.listed[p] \in Nat
      /\ payload.map[p].versions \in SUBSET Nat
      /\ nextId \in Nat \ {0}
    BY DEF TypeOK, EngineTypeOK, Payload, ExistingSecret, Listing
<1>2. removing \in Payload
    BY <1>1, WithRemovalType
<1>3. target \in [id : Nat \ {0}, name : Name]
    BY <1>1, GenerateType DEF VersionName
<1>4. Append(removing.restores, restore) \in Seq(Restore)
    <2>1. restore \in Restore
        BY <1>1 DEF Restore
    <2>2. QED
        BY <1>2, <2>1 DEF Payload
<1>5. [removing.map EXCEPT ![p].managed = TRUE] \in [Paths -> ExistingSecret]
    <2>1. removing.map \in [Paths -> ExistingSecret]
        BY <1>2 DEF Payload
    <2>2. [removing.map[p] EXCEPT !.managed = TRUE] \in ExistingSecret
        BY <2>1 DEF ExistingSecret
    <2>3. QED
        BY <2>1, <2>2
<1> HIDE DEF removing
<1>6. planned \in Payload
    BY <1>2, <1>4, <1>5 DEF Payload
<1>7. PICK queued \in Enqueued(planned, moved, target) : pl = Counted(queued, "updated")
    BY DEF UpdatePlanned, RestoreOf, VersionName, removing
<1>8. moved \in [Services -> SUBSET Nat]
    BY MovedType
<1> HIDE DEF planned, moved, target
<1>9. queued \in Payload
    BY <1>3, <1>6, <1>7, <1>8, EnqueuedType
<1>10. QED
    BY <1>7, <1>9, CountedType

\* createMissingSecret, with its errors.
LEMMA CreateMissingSecretType ==
    ASSUME TypeOK, CreateMissingSecret
    PROVE  TypeOK'
<1> PICK f \in fetched :
        LET secret == ParentSecret(f.path, payload.listed[f.path], f.data)
        IN \/ /\ AddSecret(secret)
              /\ Go("process")
              /\ todo' = todo \ {f.path}
              /\ fetched' = {}
              /\ payload' = Counted(payload, "created")
              /\ UNCHANGED budget
           \/ /\ NameTaken(NameOf(secret))
              /\ StepError(payload)
              /\ UNCHANGED <<engineVars, budget>>
           \/ AddSecret(secret) /\ Fault /\ StepError(payload)
    BY DEF CreateMissingSecret
<1> DEFINE secret == ParentSecret(f.path, payload.listed[f.path], f.data)
<1>1. f.path \in Paths /\ f.data \in Nat /\ payload.listed[f.path] \in Nat
    BY DEF TypeOK, Fetched, Payload, Listing
<1>2. secret \in Secret /\ secret.id = nextId
    BY <1>1, NewSecretType DEF TypeOK
<1> HIDE DEF secret
<1>3. external' = external
    BY DEF CreateMissingSecret
<1>4. CASE AddSecret(secret) /\ Go("process") /\ todo' = todo \ {f.path}
            /\ fetched' = {} /\ payload' = Counted(payload, "created")
            /\ UNCHANGED budget
    <2>1. EngineTypeOK'
        BY <1>2, <1>4, AddSecretType DEF TypeOK
    <2>2. payload' \in Payload
        BY <1>4, CountedType DEF TypeOK
    <2>3. QED
        BY BoundsAssumption, <1>3, <1>4, <2>1, <2>2 DEF TypeOK, Go, PC
<1>5. CASE StepError(payload) /\ UNCHANGED <<engineVars, budget>>
    BY <1>3, <1>5, StepErrorType DEF TypeOK, EngineTypeOK, engineVars
<1>6. CASE AddSecret(secret) /\ Fault /\ StepError(payload)
    BY <1>2, <1>3, <1>6, AddSecretType, StepErrorType, FaultType DEF TypeOK
<1>7. QED
    BY <1>4, <1>5, <1>6 DEF secret

\* createUpdatedSecretVersion, with its errors.
LEMMA CreateUpdatedVersionType ==
    ASSUME TypeOK, CreateUpdatedVersion
    PROVE  TypeOK'
<1> PICK f \in fetched :
        LET secret == VersionSecret(f.path, payload.listed[f.path], f.data)
        IN \/ /\ AddSecret(secret)
              /\ Go("process")
              /\ todo' = todo \ {f.path}
              /\ fetched' = {}
              /\ payload' \in UpdatePlanned(payload, f.path, f.data)
              /\ UNCHANGED budget
           \/ /\ NameTaken(NameOf(secret))
              /\ StepError(payload)
              /\ UNCHANGED <<engineVars, budget>>
           \/ AddSecret(secret) /\ Fault /\ StepError(payload)
    BY DEF CreateUpdatedVersion
<1> DEFINE secret == VersionSecret(f.path, payload.listed[f.path], f.data)
<1>1. f.path \in Paths /\ f.data \in Nat /\ payload.listed[f.path] \in Nat
    BY DEF TypeOK, Fetched, Payload, Listing
<1>2. secret \in Secret /\ secret.id = nextId
    BY <1>1, NewSecretType DEF TypeOK
<1> HIDE DEF secret
<1>3. external' = external
    BY DEF CreateUpdatedVersion
<1>4. CASE AddSecret(secret) /\ Go("process") /\ todo' = todo \ {f.path}
            /\ fetched' = {} /\ UNCHANGED budget
            /\ payload' \in UpdatePlanned(payload, f.path, f.data)
    <2>1. EngineTypeOK'
        BY <1>2, <1>4, AddSecretType DEF TypeOK
    <2>2. payload' \in Payload
        BY <1>1, <1>4, UpdatePlannedType
    <2>3. QED
        BY BoundsAssumption, <1>3, <1>4, <2>1, <2>2 DEF TypeOK, Go, PC
<1>5. CASE StepError(payload) /\ UNCHANGED <<engineVars, budget>>
    BY <1>3, <1>5, StepErrorType DEF TypeOK, EngineTypeOK, engineVars
<1>6. CASE AddSecret(secret) /\ Fault /\ StepError(payload)
    BY <1>2, <1>3, <1>6, AddSecretType, StepErrorType, FaultType DEF TypeOK
<1>7. QED
    BY <1>4, <1>5, <1>6 DEF secret

\* applyServiceUpdates, also when a call fails and the references stay rewritten.
LEMMA ApplyServiceUpdateType ==
    ASSUME TypeOK, ApplyServiceUpdate
    PROVE  TypeOK'
<1> DEFINE s         == payload.order[payload.offset + 1]
           version   == payload.services[s].version
           refs      == Rewritten(s)
           rewritten == [payload EXCEPT !.services[s].refs = refs]
           applied   == [rewritten EXCEPT !.offset = @ + 1]
<1>1. payload.order \in Seq(Services) /\ payload.offset \in Nat
    BY DEF TypeOK, Payload
<1>2. s \in Services
    BY <1>1, ElementOfSeq DEF ApplyServiceUpdate
<1>3. payload.services[s] \in Service /\ version \in Nat
    BY <1>2 DEF TypeOK, Payload, Service
<1>4. refs \in SUBSET Ref
    BY <1>2, RewrittenType DEF TypeOK
<1>5. rewritten \in Payload
    <2>1. [payload.services EXCEPT ![s].refs = refs] \in [Services -> Service]
        BY <1>2, <1>4 DEF TypeOK, Payload, Service
    <2>2. QED
        BY <2>1 DEF TypeOK, Payload
<1>6. applied \in Payload
    <2> HIDE DEF rewritten
    <2>1. rewritten.offset + 1 \in Nat
        BY <1>5 DEF Payload
    <2>2. QED
        BY <1>5, <2>1 DEF Payload
<1>7. external' = external
    BY DEF ApplyServiceUpdate
<1>8. \/ /\ UpdateService(s, version, refs)
         /\ payload' = applied
         /\ UNCHANGED <<pc, attempt, todo, fetched, budget>>
      \/ /\ StepError(rewritten)
         /\ UNCHANGED <<engineVars, budget>>
      \/ /\ UpdateService(s, version, refs)
         /\ Fault
         /\ StepError(rewritten)
      \/ /\ Fault
         /\ StepError(rewritten)
         /\ UNCHANGED engineVars
    BY DEF ApplyServiceUpdate
<1> HIDE DEF s, version, refs, rewritten, applied
<1>9. UpdateService(s, version, refs) => EngineTypeOK'
    BY <1>2, <1>3, <1>4, UpdateServiceType DEF TypeOK
<1>10. UNCHANGED engineVars => EngineTypeOK'
    BY DEF TypeOK, EngineTypeOK, engineVars
<1>11. StepError(rewritten) => /\ pc' \in PC /\ attempt' \in 0 .. Retries
                              /\ payload' \in Payload /\ todo' \subseteq Paths
                              /\ fetched' \subseteq Fetched
    BY <1>5, StepErrorType
<1>12. Fault => budget' \in Budget
    BY FaultType
<1>13. QED
    BY <1>6, <1>7, <1>8, <1>9, <1>10, <1>11, <1>12 DEF TypeOK

\* removeOldVersions, for the update and for the cleanup.
LEMMA RemoveOldVersionType ==
    ASSUME TypeOK, RemoveOldVersion
    PROVE  TypeOK'
<1>1. PICK id \in NextRemovals(Head(payload.removals)) :
        \/ /\ RemoveSecret(id)
           /\ payload' = Counted(CrossedOff(payload, id),
                                 IF id = Head(payload.removals).parent
                                    THEN "removedSecrets" ELSE "removedVersions")
           /\ UNCHANGED <<pc, attempt, todo, fetched, budget>>
        \/ /\ payload' = CrossedOff(payload, id)
           /\ UNCHANGED <<engineVars, pc, attempt, todo, fetched, budget>>
        \/ /\ StepError(payload)
           /\ UNCHANGED <<engineVars, budget>>
        \/ RemoveSecret(id) /\ Fault /\ StepError(payload)
    BY DEF RemoveOldVersion
<1>2. external' = external /\ payload \in Payload
    BY DEF RemoveOldVersion, TypeOK
<1>3. CrossedOff(payload, id) \in Payload
    BY <1>2, CrossedOffType DEF RemoveOldVersion
<1>4. Counted(CrossedOff(payload, id),
              IF id = Head(payload.removals).parent
                THEN "removedSecrets" ELSE "removedVersions") \in Payload
    BY <1>3, CountedType
<1>5. RemoveSecret(id) => EngineTypeOK'
    BY RemoveSecretType DEF TypeOK
<1>6. UNCHANGED engineVars => EngineTypeOK'
    BY DEF TypeOK, EngineTypeOK, engineVars
<1>7. StepError(payload) => /\ pc' \in PC /\ attempt' \in 0 .. Retries
                            /\ payload' \in Payload /\ todo' \subseteq Paths
                            /\ fetched' \subseteq Fetched
    BY <1>2, StepErrorType
<1>8. Fault => budget' \in Budget
    BY FaultType
<1>9. QED
    BY <1>1, <1>2, <1>3, <1>4, <1>5, <1>6, <1>7, <1>8 DEF TypeOK

\* restoreSecrets.
LEMMA RestoreParentType ==
    ASSUME TypeOK, RestoreParent
    PROVE  TypeOK'
<1> DEFINE restore == Head(payload.restores)
           secret  == ParentSecret(restore.path, restore.label, restore.data)
<1>1. payload \in Payload /\ payload.restores \in Seq(Restore)
    BY DEF TypeOK, Payload
<1>2. restore \in Restore /\ Tail(payload.restores) \in Seq(Restore)
    BY <1>1, HeadTailProperties DEF RestoreParent
<1>3. secret \in Secret /\ secret.id = nextId
    BY <1>2, NewSecretType DEF TypeOK, Restore
<1>4. [payload EXCEPT !.restores = Tail(@)] \in Payload
    BY <1>1, <1>2 DEF Payload
<1>5. \/ /\ AddSecret(secret)
         /\ payload' = [payload EXCEPT !.restores = Tail(@)]
         /\ UNCHANGED <<pc, attempt, todo, fetched, budget>>
      \/ /\ StepError(payload)
         /\ UNCHANGED <<engineVars, budget>>
      \/ AddSecret(secret) /\ Fault /\ StepError(payload)
    BY DEF RestoreParent
<1>6. external' = external
    BY DEF RestoreParent
<1> HIDE DEF restore, secret
<1>7. AddSecret(secret) => EngineTypeOK'
    BY <1>3, AddSecretType DEF TypeOK
<1>8. UNCHANGED engineVars => EngineTypeOK'
    BY DEF TypeOK, EngineTypeOK, engineVars
<1>9. StepError(payload) => /\ pc' \in PC /\ attempt' \in 0 .. Retries
                            /\ payload' \in Payload /\ todo' \subseteq Paths
                            /\ fetched' \subseteq Fetched
    BY <1>1, StepErrorType
<1>10. Fault => budget' \in Budget
    BY FaultType
<1>11. QED
    BY <1>4, <1>5, <1>6, <1>7, <1>8, <1>9, <1>10 DEF TypeOK

\* The ends of the steps.
LEMMA FinishType ==
    ASSUME TypeOK, FinishProcess \/ FinishApply \/ FinishRemove \/ FinishRestore
    PROVE  TypeOK'
<1>1. /\ pc' \in PC /\ attempt' = 0
      /\ UNCHANGED <<engineVars, external, payload, todo, fetched, budget>>
    BY NextStepType DEF FinishProcess, FinishApply, FinishRemove, FinishRestore, Go, PC
<1>2. QED
    BY BoundsAssumption, <1>1 DEF TypeOK, EngineTypeOK, engineVars

\* The removals that the cleanup plans.
LEMMA PlanCleanupType ==
    ASSUME TypeOK, PlanCleanup
    PROVE  TypeOK'
<1>1. PICK paths \in SetToSeqs(Orphans) :
        payload' = [payload EXCEPT !.removals =
            [i \in DOMAIN paths |-> [path   |-> paths[i],
                                     parent |-> payload.map[paths[i]].id,
                                     left   |-> payload.map[paths[i]].versions]]]
    BY DEF PlanCleanup
<1> DEFINE removals == [i \in DOMAIN paths |->
                                    [path   |-> paths[i],
                                     parent |-> payload.map[paths[i]].id,
                                     left   |-> payload.map[paths[i]].versions]]
<1>2. IsFiniteSet(Orphans) /\ Orphans \subseteq Paths
    BY FinitenessAssumption, FS_Subset DEF Orphans
<1>3. paths \in Seq(Paths)
    BY <1>2, ArrangementIsSeq
<1>4. \A i \in DOMAIN paths : removals[i] \in Removal
    BY <1>3 DEF TypeOK, Payload, ExistingSecret, Removal
<1>5. removals \in Seq(Removal)
    <2>1. DOMAIN removals = 1 .. Len(paths) /\ Len(paths) \in Nat
        BY <1>3
    <2>2. removals \in [1 .. Len(paths) -> Removal]
        BY <1>4, <2>1
    <2> HIDE DEF removals
    <2>3. QED
        BY <2>1, <2>2
<1> HIDE DEF removals
<1>6. payload' \in Payload
    BY <1>1, <1>5 DEF removals, TypeOK, Payload
<1>7. pc' \in PC /\ attempt' = 0
    BY DEF PlanCleanup, Go, PC
<1>8. QED
    BY BoundsAssumption, <1>6, <1>7
        DEF PlanCleanup, TypeOK, EngineTypeOK, engineVars

\* Sync returns, fails or dies.
LEMMA StopType ==
    ASSUME TypeOK, Return \/ Crash \/ CallFails
    PROVE  TypeOK'
<1>1. CASE Return
    BY BoundsAssumption, <1>1, ForgetType
        DEF Return, Go, PC, TypeOK, EngineTypeOK, engineVars
<1>2. CASE Crash
    BY BoundsAssumption, <1>2, ForgetType, FaultType
        DEF Crash, Go, PC, TypeOK, EngineTypeOK, engineVars
<1>3. CASE CallFails
    <2>1. /\ pc' \in PC /\ attempt' \in 0 .. Retries /\ payload' \in Payload
          /\ todo' \subseteq Paths /\ fetched' \subseteq Fetched
        BY <1>3, StepErrorType DEF CallFails, TypeOK
    <2>2. QED
        BY <1>3, <2>1, FaultType DEF CallFails, TypeOK, EngineTypeOK, engineVars
<1>4. QED
    BY <1>1, <1>2, <1>3

\* The manager's writers, the stacks' owners and the operators.
LEMMA EnvironmentType ==
    ASSUME TypeOK, Environment
    PROVE  TypeOK'
<1>1. ASSUME NEW p \in Paths, WriteValue(p)
      PROVE  TypeOK'
    <2>1. external' \in [Paths -> External]
        BY <1>1 DEF WriteValue, TypeOK, External
    <2>2. QED
        BY <1>1, <2>1, SpendType
            DEF WriteValue, TypeOK, EngineTypeOK, engineVars, syncVars
<1>2. ASSUME NEW p \in Paths, DeleteValue(p)
      PROVE  TypeOK'
    <2>1. external' \in [Paths -> External]
        BY <1>2 DEF DeleteValue, TypeOK, External
    <2>2. QED
        BY <1>2, <2>1, SpendType
            DEF DeleteValue, TypeOK, EngineTypeOK, engineVars, syncVars
<1>3. ASSUME NEW p \in Paths, OperatorCreates(p)
      PROVE  TypeOK'
    <2> DEFINE secret == [ParentSecret(p, 0, 0) EXCEPT !.managed = FALSE]
    <2>1. secret \in Secret /\ secret.id = nextId
        <3>1. ParentSecret(p, 0, 0) \in Secret /\ ParentSecret(p, 0, 0).id = nextId
            BY NewSecretType DEF TypeOK
        <3> HIDE DEF secret
        <3>2. QED
            BY <3>1 DEF secret, Secret
    <2>2. AddSecret(secret)
        BY <1>3 DEF OperatorCreates
    <2> HIDE DEF secret
    <2>3. EngineTypeOK'
        BY <2>1, <2>2, AddSecretType DEF TypeOK
    <2>4. QED
        BY <1>3, <2>3, SpendType DEF OperatorCreates, TypeOK, syncVars
<1>4. ASSUME NEW s \in Services, NEW paths \in SUBSET Paths, Deploy(s, paths)
      PROVE  TypeOK'
    <2>1. services[s].version + 1 \in Nat
        BY DEF TypeOK, EngineTypeOK, Service
    <2>2. [version |-> services[s].version + 1, refs |-> Mounting(paths)] \in Service
        BY <2>1, MountingType DEF TypeOK, Service
    <2>3. services' \in [Services -> Service]
        BY <1>4, <2>2 DEF Deploy, TypeOK, EngineTypeOK
    <2>4. QED
        BY <1>4, <2>3, SpendType DEF Deploy, TypeOK, EngineTypeOK, syncVars
<1>5. ASSUME NEW id, OperatorRemoves(id)
      PROVE  TypeOK'
    <2>1. EngineTypeOK'
        BY <1>5, RemoveSecretType DEF OperatorRemoves, TypeOK
    <2>2. QED
        BY <1>5, <2>1, SpendType DEF OperatorRemoves, TypeOK, syncVars
<1>6. QED
    BY <1>1, <1>2, <1>3, <1>4, <1>5 DEF Environment

\* Before the first synchronization.
LEMMA InitType == Init => TypeOK
<1> SUFFICES ASSUME Init PROVE TypeOK
    OBVIOUS
<1>1. EngineTypeOK
    BY DEF Init, EngineTypeOK, Service
<1>2. external \in [Paths -> External]
    <2>1. {[present |-> FALSE, ver |-> 0, val |-> 0],
           [present |-> TRUE, ver |-> 1, val |-> 1]} \subseteq External
        BY DEF External
    <2>2. QED
        BY <2>1 DEF Init
<1>3. budget \in Budget
    BY BoundsAssumption DEF Init, Budget
<1>4. QED
    BY BoundsAssumption, <1>1, <1>2, <1>3, NewPayloadType DEF Init, TypeOK, PC

\* Every step keeps the types.
LEMMA NextType == TypeOK /\ [Next]_vars => TypeOK'
<1> SUFFICES ASSUME TypeOK, [Next]_vars PROVE TypeOK'
    OBVIOUS
<1>1. CASE SyncStep
    BY <1>1, LoadType, ProcessSameVersionType, GetSecretPayloadType,
       CreateMissingSecretType, CreateUpdatedVersionType, FinishType,
       ApplyServiceUpdateType, RemoveOldVersionType, RestoreParentType,
       PlanCleanupType, StopType DEF SyncStep
<1>2. CASE CallFails \/ Crash
    BY <1>2, StopType
<1>3. CASE Environment
    BY <1>3, EnvironmentType
<1>4. CASE UNCHANGED vars
    BY <1>4 DEF vars, syncVars, engineVars, TypeOK, EngineTypeOK
<1>5. QED
    BY <1>1, <1>2, <1>3, <1>4 DEF Next

\* Type correctness of the whole pipeline, its faults and its environment.
THEOREM TypeCorrect == Spec => []TypeOK
BY InitType, NextType, PTL DEF Spec

-----------------------------------------------------------------------------
(* Labels are never ahead of values.                                         *)

\* A payload is in hand only between its read and the creation that uses it.
FetchedInHand ==
    fetched # {} => pc \in {"create_secret", "create_version", "failed"}

\* The value a version id was listed with, or a newer one, is what the
\* manager, the payload in hand, the restores and Swarm hold.
LabelBounds ==
    ~VersionsRestart =>
        /\ \A p \in Paths : /\ external[p].ver <= external[p].val
                            /\ payload.listed[p] <= external[p].val
        /\ \A f \in fetched : payload.listed[f.path] <= f.data
        /\ \A i \in DOMAIN payload.restores :
                payload.restores[i].label <= payload.restores[i].data
        /\ \A secret \in secrets : secret.label <= secret.data

LabelInv == TypeOK /\ FetchedInHand /\ LabelBounds

\* What an error leaves of the restores and of the listing.
LEMMA StepErrorKeeps ==
    ASSUME TypeOK, NEW pl \in Payload, StepError(pl)
    PROVE  /\ payload'.listed = pl.listed
           /\ payload'.restores = pl.restores
           /\ todo' = todo
           /\ fetched' = fetched
           /\ pc \in {"create_secret", "create_version"} => pc' = "failed"
<1>1. CASE attempt < RetriesOf(pc)
    BY <1>1, BoundsAssumption DEF StepError, TypeOK, RetriesOf
<1>2. CASE attempt >= RetriesOf(pc)
    <2>1. payload' = pl \/ payload' = [pl EXCEPT !.result = NoResult]
        BY <1>2, BoundsAssumption DEF StepError, TypeOK, RetriesOf
    <2>2. /\ todo' = todo /\ fetched' = fetched
          /\ pc' = IF pc = "cleanup" THEN "done" ELSE "failed"
        BY <1>2, BoundsAssumption DEF StepError, TypeOK, RetriesOf, Go
    <2>3. QED
        BY <2>1, <2>2 DEF Payload
<1>3. QED
    BY <1>1, <1>2, BoundsAssumption DEF TypeOK, RetriesOf

\* Queueing service tasks touches neither the listing nor the restores.
LEMMA EnqueuedKeeps ==
    ASSUME NEW pl \in Payload, NEW moved, NEW target,
           NEW queued \in Enqueued(pl, moved, target)
    PROVE  /\ queued.listed = pl.listed
           /\ queued.restores = pl.restores
           /\ queued.map = pl.map
           /\ queued.services = pl.services
           /\ queued.removals = pl.removals
BY DEF Enqueued, Payload

\* Nor does counting.
LEMMA CountedKeeps ==
    ASSUME NEW pl \in Payload, NEW counter
    PROVE  /\ Counted(pl, counter).listed = pl.listed
           /\ Counted(pl, counter).restores = pl.restores
           /\ Counted(pl, counter).map = pl.map
           /\ Counted(pl, counter).services = pl.services
           /\ Counted(pl, counter).tasks = pl.tasks
           /\ Counted(pl, counter).removals = pl.removals
BY DEF Counted, Payload

\* A step that changes neither values nor listing nor restores, and takes
\* secrets away at most, keeps the bounds.
LEMMA LabelsFrame ==
    ASSUME LabelInv, TypeOK',
           secrets' \subseteq secrets,
           external' = external,
           payload'.listed = payload.listed,
           \/ payload'.restores = payload.restores
           \/ payload.restores # <<>> /\ payload'.restores = Tail(payload.restores),
           fetched' = fetched,
           pc' = "failed" \/ fetched = {}
    PROVE  LabelInv'
<1>1. FetchedInHand'
    BY DEF LabelInv, FetchedInHand
<1>2. ASSUME ~VersionsRestart
      PROVE  \A i \in DOMAIN payload'.restores :
                payload'.restores[i].label <= payload'.restores[i].data
    <2>1. CASE payload'.restores = payload.restores
        BY <1>2, <2>1 DEF LabelInv, LabelBounds
    <2>2. CASE payload.restores # <<>> /\ payload'.restores = Tail(payload.restores)
        <3>1. payload.restores \in Seq(Restore)
            BY DEF LabelInv, TypeOK, Payload
        <3>2. /\ Tail(payload.restores) \in Seq(Restore)
              /\ \A i \in 1 .. Len(Tail(payload.restores)) :
                    /\ Tail(payload.restores)[i] = payload.restores[i + 1]
                    /\ i + 1 \in DOMAIN payload.restores
            BY <2>2, <3>1, HeadTailProperties
        <3>3. QED
            BY <1>2, <2>2, <3>2 DEF LabelInv, LabelBounds
    <2>3. QED
        BY <2>1, <2>2
<1>3. LabelBounds'
    BY <1>2 DEF LabelInv, LabelBounds
<1>4. QED
    BY <1>1, <1>3 DEF LabelInv

\* A new secret whose label is not ahead keeps the bounds as well.
LEMMA LabelsAfterAdd ==
    ASSUME LabelInv, TypeOK',
           NEW secret \in Secret, AddSecret(secret),
           ~VersionsRestart => secret.label <= secret.data,
           external' = external,
           payload'.listed = payload.listed,
           ~VersionsRestart => \A i \in DOMAIN payload'.restores :
                payload'.restores[i].label <= payload'.restores[i].data,
           fetched' \subseteq fetched,
           pc' = "failed" \/ fetched' = {}
    PROVE  LabelInv'
<1>1. FetchedInHand'
    BY DEF FetchedInHand
<1>2. secrets' = secrets \cup {secret}
    BY DEF AddSecret
<1>3. LabelBounds'
    BY <1>2 DEF LabelInv, LabelBounds
<1>4. QED
    BY <1>1, <1>3 DEF LabelInv

\* An error keeps the payload's labels or empties its result.
LEMMA LabelsAfterError ==
    ASSUME LabelInv, TypeOK', NEW pl \in Payload, StepError(pl),
           pl.listed = payload.listed, pl.restores = payload.restores,
           secrets' \subseteq secrets, external' = external,
           pc \in PC \ {"failed"}
    PROVE  LabelInv'
<1>1. /\ payload'.listed = payload.listed /\ payload'.restores = payload.restores
      /\ fetched' = fetched
      /\ pc \in {"create_secret", "create_version"} => pc' = "failed"
    BY StepErrorKeeps DEF LabelInv
<1>2. pc' = "failed" \/ fetched = {}
    BY <1>1 DEF LabelInv, FetchedInHand
<1>3. QED
    BY <1>1, <1>2, LabelsFrame

\* An empty payload bounds nothing.
LEMMA LabelsForgotten ==
    ASSUME LabelInv, TypeOK', Forget, secrets' = secrets, external' = external
    PROVE  LabelInv'
<1>1. payload' = NewPayload /\ fetched' = {}
    BY DEF Forget
<1>2. /\ \A p \in Paths : payload'.listed[p] = 0
      /\ payload'.restores = <<>>
    BY <1>1 DEF NewPayload
<1>3. FetchedInHand'
    BY <1>1 DEF FetchedInHand
<1>4. \A p \in Paths : external[p].val \in Nat
    BY DEF LabelInv, TypeOK, External
<1>5. LabelBounds'
    BY <1>1, <1>2, <1>4 DEF LabelInv, LabelBounds
<1>6. QED
    BY <1>3, <1>5 DEF LabelInv

\* The listed versions are at most the current ones.
LEMMA LoadLabels ==
    ASSUME LabelInv, TypeOK',
           StartSync \/ ListServices \/ ListSecretsOfSwarm \/ LoadExternalState
    PROVE  LabelInv'
<1>1. CASE StartSync
    <2>1. payload' = NewPayload /\ fetched' = fetched /\ fetched = {}
            /\ UNCHANGED <<secrets, external>>
        BY <1>1 DEF StartSync, LabelInv, FetchedInHand, engineVars
    <2>2. /\ \A p \in Paths : payload'.listed[p] = 0 /\ external[p].val \in Nat
          /\ payload'.restores = <<>>
        BY <2>1 DEF NewPayload, LabelInv, TypeOK, External
    <2>3. QED
        BY <2>1, <2>2 DEF LabelInv, FetchedInHand, LabelBounds
<1>2. CASE ListServices
    <2>1. payload'.listed = payload.listed /\ payload'.restores = payload.restores
            /\ fetched' = fetched /\ fetched = {} /\ UNCHANGED <<secrets, external>>
        BY <1>2 DEF ListServices, LabelInv, FetchedInHand, TypeOK, Payload, engineVars
    <2>2. QED
        BY <2>1, LabelsFrame
<1>3. CASE ListSecretsOfSwarm
    <2>1. payload'.listed = payload.listed /\ payload'.restores = payload.restores
            /\ fetched' = fetched /\ fetched = {} /\ UNCHANGED <<secrets, external>>
        BY <1>3
            DEF ListSecretsOfSwarm, LabelInv, FetchedInHand, TypeOK, Payload, engineVars
    <2>2. QED
        BY <2>1, LabelsFrame
<1>4. CASE LoadExternalState
    <2>1. payload'.listed = ListExternal /\ payload'.restores = payload.restores
            /\ fetched' = fetched /\ fetched = {} /\ UNCHANGED <<secrets, external>>
        BY <1>4
            DEF LoadExternalState, LabelInv, FetchedInHand, TypeOK, Payload, engineVars
    <2>2. ~VersionsRestart =>
            \A p \in Paths : ListExternal[p] <= external[p].val
        BY DEF ListExternal, LabelInv, LabelBounds, TypeOK, External
    <2>3. QED
        BY <2>1, <2>2 DEF LabelInv, FetchedInHand, LabelBounds
<1>5. QED
    BY <1>1, <1>2, <1>3, <1>4

\* A path that is up to date leaves the listing, the restores and the payload
\* in hand.
LEMMA ProcessSameVersionKeeps ==
    ASSUME TypeOK, NEW p \in Paths, ProcessSameVersion(p)
    PROVE  /\ payload'.listed = payload.listed
           /\ payload'.restores = payload.restores
           /\ fetched' = fetched
<1> DEFINE secret == payload.map[p]
           old    == secret.versions \ {secret.id}
           moved  == [s \in Services |-> SameVersionRefs(s, p)]
           parent == [id |-> secret.id, name |-> p]
<1>1. payload \in Payload /\ secret \in ExistingSecret
    BY DEF TypeOK, Payload
<1>2. parent \in [id : Nat \ {0}, name : Name]
    BY <1>1, PathIsName DEF ProcessSameVersion, SameVersion, IsMissing, ExistingSecret
<1>3. moved \in [Services -> SUBSET Nat]
    BY MovedType
<1>4. old \in SUBSET Nat
    BY <1>1 DEF ExistingSecret
<1>5. PICK pl \in Enqueued(payload, moved, parent) :
        payload' = Counted(IF secret.managed /\ old # {}
                            THEN WithRemoval(pl, p, old) ELSE pl, "skipped")
    BY DEF ProcessSameVersion
<1>6. /\ pl \in Payload
      /\ pl.listed = payload.listed /\ pl.restores = payload.restores
    BY <1>1, <1>2, <1>3, <1>5, EnqueuedType, EnqueuedKeeps
<1>7. /\ WithRemoval(pl, p, old) \in Payload
      /\ WithRemoval(pl, p, old).listed = pl.listed
      /\ WithRemoval(pl, p, old).restores = pl.restores
    BY <1>4, <1>6, WithRemovalType DEF WithRemoval, Payload
<1>8. payload'.listed = payload.listed /\ payload'.restores = payload.restores
    BY <1>5, <1>6, <1>7, CountedKeeps
<1>9. fetched' = fetched
    BY DEF ProcessSameVersion
<1>10. QED
    BY <1>8, <1>9

\* The payload that is read is at least as new as the listed version.
LEMMA ProcessLabels ==
    ASSUME LabelInv, TypeOK', NEW p \in Paths,
           ProcessSameVersion(p) \/ GetSecretPayload(p)
    PROVE  LabelInv'
<1> USE DEF LabelInv, FetchedInHand
<1>1. pc = "process" /\ fetched = {} /\ UNCHANGED <<secrets, external>>
    BY DEF ProcessSameVersion, GetSecretPayload, engineVars
<1>2. CASE ProcessSameVersion(p)
    BY <1>1, <1>2, ProcessSameVersionKeeps, LabelsFrame
<1>3. CASE GetSecretPayload(p)
    <2>1. CASE /\ external[p].present /\ payload' = payload
               /\ pc' = IF IsMissing(p) THEN "create_secret" ELSE "create_version"
               /\ fetched' = {[path |-> p, data |-> external[p].val]}
        BY <1>1, <2>1 DEF LabelBounds
    <2>2. CASE StepError(payload)
        BY <1>1, <2>2, LabelsAfterError DEF TypeOK
    <2>3. QED
        BY <1>3, <2>1, <2>2 DEF GetSecretPayload, Go
<1>4. QED
    BY <1>2, <1>3

\* The new parent carries the listed version and the value that was read.
LEMMA CreateMissingLabels ==
    ASSUME LabelInv, TypeOK', CreateMissingSecret
    PROVE  LabelInv'
<1> PICK f \in fetched :
        LET secret == ParentSecret(f.path, payload.listed[f.path], f.data)
        IN \/ /\ AddSecret(secret)
              /\ Go("process")
              /\ todo' = todo \ {f.path}
              /\ fetched' = {}
              /\ payload' = Counted(payload, "created")
              /\ UNCHANGED budget
           \/ /\ NameTaken(NameOf(secret))
              /\ StepError(payload)
              /\ UNCHANGED <<engineVars, budget>>
           \/ AddSecret(secret) /\ Fault /\ StepError(payload)
    BY DEF CreateMissingSecret
<1> DEFINE secret == ParentSecret(f.path, payload.listed[f.path], f.data)
<1>1. f.path \in Paths /\ f.data \in Nat /\ payload.listed[f.path] \in Nat
        /\ payload \in Payload
    BY DEF LabelInv, TypeOK, Fetched, Payload, Listing
<1>2. secret \in Secret /\ (~VersionsRestart => secret.label <= secret.data)
    BY <1>1, NewSecretType DEF LabelInv, LabelBounds, TypeOK, ParentSecret
<1> HIDE DEF secret
<1>3. pc = "create_secret" /\ external' = external
    BY DEF CreateMissingSecret
<1>4. CASE AddSecret(secret) /\ fetched' = {}
            /\ payload' = Counted(payload, "created")
    <2>1. payload'.listed = payload.listed /\ payload'.restores = payload.restores
        BY <1>1, <1>4, CountedKeeps
    <2>2. QED
        BY <1>2, <1>3, <1>4, <2>1, LabelsAfterAdd DEF LabelInv, LabelBounds
<1>5. CASE StepError(payload) /\ UNCHANGED <<engineVars, budget>>
    BY <1>1, <1>3, <1>5, LabelsAfterError DEF engineVars, PC
<1>6. CASE AddSecret(secret) /\ Fault /\ StepError(payload)
    <2>1. /\ payload'.listed = payload.listed
          /\ payload'.restores = payload.restores
          /\ fetched' = fetched /\ pc' = "failed"
        BY <1>1, <1>3, <1>6, StepErrorKeeps DEF LabelInv
    <2>2. QED
        BY <1>2, <1>3, <1>6, <2>1, LabelsAfterAdd DEF LabelInv, LabelBounds
<1>7. QED
    BY <1>4, <1>5, <1>6 DEF secret

\* The restore that a planned update leaves behind carries the value in hand.
LEMMA UpdatePlannedKeeps ==
    ASSUME TypeOK, NEW p \in Paths, NEW data \in Nat,
           NEW pl \in UpdatePlanned(payload, p, data)
    PROVE  /\ pl.listed = payload.listed
           /\ pl.restores = Append(payload.restores,
                [path |-> p, label |-> payload.listed[p], data |-> data])
           /\ pl.map = [payload.map EXCEPT ![p].managed = TRUE]
           /\ pl.services = payload.services
           /\ pl.removals = Append(payload.removals,
                [path |-> p, parent |-> payload.map[p].id,
                 left |-> payload.map[p].versions])
<1> DEFINE moved   == [s \in Services |-> UpdatedRefs(s, p)]
           target  == [id |-> nextId, name |-> VersionName(p)]
           restore == [path |-> p, label |-> payload.listed[p], data |-> data]
           removing == WithRemoval(payload, p, payload.map[p].versions)
           planned == [removing EXCEPT !.map[p].managed = TRUE,
                                       !.restores = Append(@, restore)]
<1>1. /\ payload \in Payload
      /\ payload.listed[p] \in Nat
      /\ payload.map[p].versions \in SUBSET Nat
      /\ nextId \in Nat \ {0}
    BY DEF TypeOK, EngineTypeOK, Payload, ExistingSecret, Listing
<1>2. /\ removing \in Payload
      /\ removing.listed = payload.listed /\ removing.restores = payload.restores
      /\ removing.map = payload.map /\ removing.services = payload.services
      /\ removing.removals = Append(payload.removals,
            [path |-> p, parent |-> payload.map[p].id, left |-> payload.map[p].versions])
    BY <1>1, WithRemovalType DEF WithRemoval, Payload
<1>3. target \in [id : Nat \ {0}, name : Name]
    BY <1>1, GenerateType DEF VersionName
<1>4. Append(removing.restores, restore) \in Seq(Restore)
    <2>1. restore \in Restore
        BY <1>1 DEF Restore
    <2>2. QED
        BY <1>2, <2>1 DEF Payload
<1>5. [removing.map EXCEPT ![p].managed = TRUE] \in [Paths -> ExistingSecret]
    BY <1>2 DEF Payload, ExistingSecret
<1> HIDE DEF removing
<1>6. /\ planned \in Payload
      /\ planned.listed = removing.listed
      /\ planned.restores = Append(removing.restores, restore)
      /\ planned.map = [removing.map EXCEPT ![p].managed = TRUE]
      /\ planned.services = removing.services
      /\ planned.removals = removing.removals
    BY <1>2, <1>4, <1>5 DEF Payload
<1>7. PICK queued \in Enqueued(planned, moved, target) : pl = Counted(queued, "updated")
    BY DEF UpdatePlanned, RestoreOf, VersionName, removing
<1>8. moved \in [Services -> SUBSET Nat]
    BY MovedType
<1> HIDE DEF planned, moved, target
<1>9. /\ queued \in Payload
      /\ queued.listed = planned.listed /\ queued.restores = planned.restores
      /\ queued.map = planned.map /\ queued.services = planned.services
      /\ queued.removals = planned.removals
    BY <1>3, <1>6, <1>7, <1>8, EnqueuedType, EnqueuedKeeps
<1>10. QED
    BY <1>2, <1>6, <1>7, <1>9, CountedKeeps

\* So do the new version and the parent that is to be restored.
LEMMA CreateUpdatedLabels ==
    ASSUME LabelInv, TypeOK', CreateUpdatedVersion
    PROVE  LabelInv'
<1> PICK f \in fetched :
        LET secret == VersionSecret(f.path, payload.listed[f.path], f.data)
        IN \/ /\ AddSecret(secret)
              /\ Go("process")
              /\ todo' = todo \ {f.path}
              /\ fetched' = {}
              /\ payload' \in UpdatePlanned(payload, f.path, f.data)
              /\ UNCHANGED budget
           \/ /\ NameTaken(NameOf(secret))
              /\ StepError(payload)
              /\ UNCHANGED <<engineVars, budget>>
           \/ AddSecret(secret) /\ Fault /\ StepError(payload)
    BY DEF CreateUpdatedVersion
<1> DEFINE secret == VersionSecret(f.path, payload.listed[f.path], f.data)
           restore == [path |-> f.path, label |-> payload.listed[f.path],
                       data |-> f.data]
<1>1. f.path \in Paths /\ f.data \in Nat /\ payload.listed[f.path] \in Nat
        /\ payload \in Payload /\ payload.restores \in Seq(Restore)
    BY DEF LabelInv, TypeOK, Fetched, Payload, Listing
<1>2. /\ secret \in Secret
      /\ ~VersionsRestart => secret.label <= secret.data
      /\ ~VersionsRestart => restore.label <= restore.data
    BY <1>1, NewSecretType DEF LabelInv, LabelBounds, TypeOK, VersionSecret
<1>3. pc = "create_version" /\ external' = external
    BY DEF CreateUpdatedVersion
<1> HIDE DEF secret
<1>4. CASE AddSecret(secret) /\ fetched' = {}
            /\ payload' \in UpdatePlanned(payload, f.path, f.data)
    <2>1. /\ payload'.listed = payload.listed
          /\ payload'.restores = Append(payload.restores, restore)
        BY <1>1, <1>4, UpdatePlannedKeeps DEF LabelInv
    <2>2. restore \in Restore
        BY <1>1 DEF Restore
    <2>3. ASSUME ~VersionsRestart, NEW i \in DOMAIN payload'.restores
          PROVE  payload'.restores[i].label <= payload'.restores[i].data
        <3> HIDE DEF restore
        <3>1. /\ i \in 1 .. Len(payload.restores) + 1
              /\ DOMAIN payload.restores = 1 .. Len(payload.restores)
              /\ i \in 1 .. Len(payload.restores)
                    => payload'.restores[i] = payload.restores[i]
              /\ i = Len(payload.restores) + 1 => payload'.restores[i] = restore
            BY <1>1, <2>1, <2>2, <2>3, AppendProperties
        <3>2. CASE i \in 1 .. Len(payload.restores)
            BY <2>3, <3>1, <3>2 DEF LabelInv, LabelBounds
        <3>3. CASE i = Len(payload.restores) + 1
            BY <1>2, <2>3, <3>1, <3>3
        <3>4. QED
            BY <1>1, <3>1, <3>2, <3>3
    <2>4. QED
        BY <1>2, <1>3, <1>4, <2>1, <2>3, LabelsAfterAdd
<1>5. CASE StepError(payload) /\ UNCHANGED <<engineVars, budget>>
    BY <1>1, <1>3, <1>5, LabelsAfterError DEF engineVars, PC
<1>6. CASE AddSecret(secret) /\ Fault /\ StepError(payload)
    <2>1. /\ payload'.listed = payload.listed
          /\ payload'.restores = payload.restores
          /\ fetched' = fetched /\ pc' = "failed"
        BY <1>1, <1>3, <1>6, StepErrorKeeps DEF LabelInv
    <2>2. QED
        BY <1>2, <1>3, <1>6, <2>1, LabelsAfterAdd DEF LabelInv, LabelBounds
<1>7. QED
    BY <1>4, <1>5, <1>6 DEF secret

\* Service updates touch no secret, and leave the listing and the restores.
LEMMA ApplyKeeps ==
    ASSUME TypeOK, ApplyServiceUpdate
    PROVE  /\ secrets' = secrets /\ nextId' = nextId /\ (budget' = budget \/ Fault)
           /\ \/ /\ payload'.listed = payload.listed
                 /\ payload'.restores = payload.restores
                 /\ payload'.tasks = payload.tasks
                 /\ payload'.removals = payload.removals /\ payload'.map = payload.map
                 /\ fetched' = fetched /\ pc' = pc
              \/ \E pl \in Payload : /\ StepError(pl) /\ pl.listed = payload.listed
                                     /\ pl.restores = payload.restores
                                     /\ pl.tasks = payload.tasks
                                     /\ pl.removals = payload.removals
                                     /\ pl.map = payload.map
<1> DEFINE s         == payload.order[payload.offset + 1]
           rewritten == [payload EXCEPT !.services[s].refs = Rewritten(s)]
           applied   == [rewritten EXCEPT !.offset = @ + 1]
<1>1. payload \in Payload
    BY DEF TypeOK
<1>2. s \in Services /\ Rewritten(s) \in SUBSET Ref
    <2>1. payload.order \in Seq(Services) /\ payload.offset \in Nat
        BY DEF TypeOK, Payload
    <2>2. s \in Services
        BY <2>1, ElementOfSeq DEF ApplyServiceUpdate
    <2>3. QED
        BY <1>1, <2>2, RewrittenType
<1>3. /\ rewritten \in Payload
      /\ rewritten.listed = payload.listed /\ rewritten.restores = payload.restores
      /\ rewritten.tasks = payload.tasks
      /\ rewritten.removals = payload.removals /\ rewritten.map = payload.map
    <2>1. payload.services \in [Services -> Service]
        BY <1>1 DEF Payload
    <2>2. [payload.services[s] EXCEPT !.refs = Rewritten(s)] \in Service
        BY <1>2, <2>1 DEF Service
    <2>3. [payload.services EXCEPT ![s].refs = Rewritten(s)] \in [Services -> Service]
        BY <1>2, <2>1, <2>2
    <2>4. QED
        BY <1>1, <2>3 DEF Payload
<1>4. secrets' = secrets /\ nextId' = nextId /\ (budget' = budget \/ Fault)
    BY DEF ApplyServiceUpdate, UpdateService, engineVars
<1>5. \/ payload' = applied /\ fetched' = fetched /\ pc' = pc
      \/ StepError(rewritten)
    BY DEF ApplyServiceUpdate
<1> HIDE DEF rewritten, s
<1>6. /\ applied.listed = payload.listed /\ applied.restores = payload.restores
      /\ applied.tasks = payload.tasks
      /\ applied.removals = payload.removals /\ applied.map = payload.map
    BY <1>3 DEF Payload
<1>7. QED
    BY <1>3, <1>4, <1>5, <1>6

LEMMA ApplyLabels ==
    ASSUME LabelInv, TypeOK', ApplyServiceUpdate
    PROVE  LabelInv'
<1>1. pc = "apply" /\ fetched = {} /\ external' = external
    BY DEF ApplyServiceUpdate, LabelInv, FetchedInHand
<1>2. QED
    BY <1>1, ApplyKeeps, LabelsFrame, LabelsAfterError DEF LabelInv, PC

\* Removals create no secret, and leave the listing and the restores.
LEMMA RemoveKeeps ==
    ASSUME TypeOK, RemoveOldVersion
    PROVE  /\ secrets' \subseteq secrets
           /\ \/ /\ payload'.listed = payload.listed
                 /\ payload'.restores = payload.restores
                 /\ payload'.tasks = payload.tasks
                 /\ fetched' = fetched /\ pc' = pc
              \/ StepError(payload)
<1>1. payload \in Payload /\ payload.removals # <<>>
    BY DEF RemoveOldVersion, TypeOK
<1>2. PICK id \in NextRemovals(Head(payload.removals)) :
        /\ (RemoveSecret(id) \/ UNCHANGED engineVars)
        /\ \/ /\ payload' = Counted(CrossedOff(payload, id),
                                    IF id = Head(payload.removals).parent
                                        THEN "removedSecrets" ELSE "removedVersions")
              /\ fetched' = fetched /\ pc' = pc
           \/ payload' = CrossedOff(payload, id) /\ fetched' = fetched /\ pc' = pc
           \/ StepError(payload)
    BY DEF RemoveOldVersion
<1>3. secrets' \subseteq secrets
    BY <1>2 DEF RemoveSecret, engineVars
<1>4. /\ CrossedOff(payload, id) \in Payload
      /\ CrossedOff(payload, id).listed = payload.listed
      /\ CrossedOff(payload, id).restores = payload.restores
      /\ CrossedOff(payload, id).tasks = payload.tasks
    BY <1>1, CrossedOffType DEF CrossedOff, Payload
<1>5. QED
    BY <1>2, <1>3, <1>4, CountedKeeps

LEMMA RemoveLabels ==
    ASSUME LabelInv, TypeOK', RemoveOldVersion
    PROVE  LabelInv'
<1>1. /\ pc \in {"remove", "cleanup"} /\ fetched = {} /\ external' = external
      /\ payload \in Payload
    BY DEF RemoveOldVersion, LabelInv, FetchedInHand, TypeOK
<1>2. QED
    BY <1>1, RemoveKeeps, LabelsFrame, LabelsAfterError DEF LabelInv, PC

\* The restored parent carries the label and the value it was queued with.
LEMMA RestoreLabels ==
    ASSUME LabelInv, TypeOK', RestoreParent
    PROVE  LabelInv'
<1> DEFINE restore == Head(payload.restores)
           secret  == ParentSecret(restore.path, restore.label, restore.data)
<1>1. /\ pc = "restore" /\ fetched = {} /\ external' = external
      /\ payload \in Payload /\ payload.restores \in Seq(Restore)
      /\ payload.restores # <<>>
    BY DEF RestoreParent, LabelInv, FetchedInHand, TypeOK, Payload
<1>2. restore \in Restore /\ 1 \in DOMAIN payload.restores
        /\ restore = payload.restores[1]
    BY <1>1, HeadTailProperties
<1>3. secret \in Secret /\ (~VersionsRestart => secret.label <= secret.data)
    <2>1. secret \in Secret
        BY <1>2, NewSecretType DEF LabelInv, TypeOK, Restore
    <2>2. secret.label = restore.label /\ secret.data = restore.data
        BY DEF ParentSecret
    <2>3. QED
        BY <1>2, <2>1, <2>2 DEF LabelInv, LabelBounds
<1>4. \/ /\ AddSecret(secret)
         /\ payload' = [payload EXCEPT !.restores = Tail(@)]
         /\ fetched' = fetched
      \/ StepError(payload) /\ UNCHANGED engineVars
      \/ AddSecret(secret) /\ StepError(payload)
    BY DEF RestoreParent
<1> HIDE DEF restore, secret
<1>5. CASE /\ AddSecret(secret)
           /\ payload' = [payload EXCEPT !.restores = Tail(@)]
           /\ fetched' = fetched
    <2>1. payload'.listed = payload.listed /\ payload'.restores = Tail(payload.restores)
        BY <1>1, <1>5 DEF Payload
    <2>2. ASSUME ~VersionsRestart, NEW i \in DOMAIN payload'.restores
          PROVE  payload'.restores[i].label <= payload'.restores[i].data
        <3>1. /\ payload'.restores[i] = payload.restores[i + 1]
              /\ i + 1 \in DOMAIN payload.restores
            BY <1>1, <2>1, <2>2, HeadTailProperties
        <3>2. QED
            BY <2>2, <3>1 DEF LabelInv, LabelBounds
    <2>3. QED
        BY <1>1, <1>3, <1>5, <2>1, <2>2, LabelsAfterAdd
<1>6. CASE StepError(payload) /\ UNCHANGED engineVars
    BY <1>1, <1>6, LabelsAfterError DEF engineVars, PC
<1>7. CASE AddSecret(secret) /\ StepError(payload)
    <2>1. /\ payload'.listed = payload.listed
          /\ payload'.restores = payload.restores /\ fetched' = fetched
        BY <1>1, <1>7, StepErrorKeeps DEF LabelInv
    <2>2. QED
        BY <1>1, <1>3, <1>7, <2>1, LabelsAfterAdd DEF LabelInv, LabelBounds
<1>8. QED
    BY <1>4, <1>5, <1>6, <1>7

\* The ends of the steps, and the plan of the cleanup.
LEMMA LocalLabels ==
    ASSUME LabelInv, TypeOK',
           \/ FinishProcess \/ FinishApply \/ FinishRemove \/ FinishRestore
           \/ PlanCleanup
    PROVE  LabelInv'
<1>1. /\ fetched = {} /\ fetched' = fetched /\ UNCHANGED <<secrets, external>>
    BY DEF FinishProcess, FinishApply, FinishRemove, FinishRestore, PlanCleanup,
           LabelInv, FetchedInHand, engineVars
<1>2. payload'.listed = payload.listed /\ payload'.restores = payload.restores
    BY DEF FinishProcess, FinishApply, FinishRemove, FinishRestore, PlanCleanup,
           LabelInv, TypeOK, Payload
<1>3. QED
    BY <1>1, <1>2, LabelsFrame

\* Sync returns, fails or dies.
LEMMA StopLabels ==
    ASSUME LabelInv, TypeOK', Return \/ Crash \/ CallFails
    PROVE  LabelInv'
<1>1. CASE Return \/ Crash
    BY <1>1, LabelsForgotten DEF Return, Crash, engineVars
<1>2. CASE CallFails
    BY <1>2, LabelsAfterError DEF CallFails, Calling, engineVars, LabelInv, TypeOK, PC
<1>3. QED
    BY <1>1, <1>2

\* The manager's values only get newer; an operator's secret has label 0.
LEMMA EnvironmentLabels ==
    ASSUME LabelInv, TypeOK', Environment
    PROVE  LabelInv'
<1>1. ASSUME NEW p \in Paths, WriteValue(p) \/ DeleteValue(p)
      PROVE  LabelInv'
    <2>1. /\ UNCHANGED <<secrets, payload, fetched, pc>>
          /\ external' \in [Paths -> External]
        BY <1>1 DEF WriteValue, DeleteValue, engineVars, syncVars, LabelInv, TypeOK
    <2>2. ASSUME ~VersionsRestart, NEW q \in Paths
          PROVE  /\ external'[q].ver <= external'[q].val
                 /\ external[q].val <= external'[q].val
        <3>1. external[q] \in External /\ external[q].ver <= external[q].val
            BY <2>2 DEF LabelInv, LabelBounds, TypeOK
        <3>2. \/ external'[q] = external[q]
              \/ external'[q].ver = external[q].ver /\ external'[q].val = external[q].val
              \/ external'[q].ver = external[q].ver + 1
                    /\ external'[q].val = external[q].val + 1
            BY <1>1, <2>2 DEF WriteValue, DeleteValue, LabelInv, TypeOK, External
        <3>3. QED
            BY <3>1, <3>2 DEF External
    <2>3. \A q \in Paths : /\ payload.listed[q] \in Nat
                           /\ external[q].val \in Nat /\ external'[q].val \in Nat
        BY <2>1 DEF LabelInv, TypeOK, Payload, Listing, External
    <2>4. LabelBounds'
        BY <2>1, <2>2, <2>3 DEF LabelInv, LabelBounds
    <2>5. QED
        BY <2>1, <2>4 DEF LabelInv, FetchedInHand
<1>2. ASSUME NEW p \in Paths, OperatorCreates(p)
      PROVE  LabelInv'
    <2> DEFINE secret == [ParentSecret(p, 0, 0) EXCEPT !.managed = FALSE]
    <2>1. UNCHANGED <<external, payload, fetched, pc>> /\ secrets' = secrets \cup {secret}
        BY <1>2 DEF OperatorCreates, AddSecret, syncVars
    <2>2. secret.label <= secret.data
        BY DEF ParentSecret
    <2>3. QED
        BY <2>1, <2>2 DEF LabelInv, FetchedInHand, LabelBounds
<1>3. ASSUME NEW s \in Services, NEW paths \in SUBSET Paths, Deploy(s, paths)
      PROVE  LabelInv'
    BY <1>3 DEF Deploy, syncVars, LabelInv, FetchedInHand, LabelBounds
<1>4. ASSUME NEW id, OperatorRemoves(id)
      PROVE  LabelInv'
    BY <1>4 DEF OperatorRemoves, RemoveSecret, syncVars, LabelInv, FetchedInHand,
                LabelBounds
<1>5. QED
    BY <1>1, <1>2, <1>3, <1>4 DEF Environment

\* There is no secret yet.
LEMMA InitLabels == Init => LabelInv
<1> SUFFICES ASSUME Init PROVE LabelInv
    OBVIOUS
<1>1. /\ \A p \in Paths : payload.listed[p] = 0
      /\ payload.restores = <<>> /\ fetched = {} /\ secrets = {}
    BY DEF Init, NewPayload
<1>2. \A p \in Paths : external[p].ver <= external[p].val /\ 0 <= external[p].val
    BY DEF Init
<1>3. QED
    BY <1>1, <1>2, InitType DEF LabelInv, FetchedInHand, LabelBounds

\* Every step keeps the invariant.
LEMMA NextLabels == LabelInv /\ [Next]_vars => LabelInv'
<1> SUFFICES ASSUME LabelInv, [Next]_vars PROVE LabelInv'
    OBVIOUS
<1>1. TypeOK'
    BY NextType DEF LabelInv
<1>2. CASE SyncStep
    <2>1. ASSUME NEW p \in Paths, ProcessSameVersion(p) \/ GetSecretPayload(p)
          PROVE  LabelInv'
        BY <1>1, <2>1, ProcessLabels
    <2>2. QED
        BY <1>1, <1>2, <2>1, LoadLabels, CreateMissingLabels,
           CreateUpdatedLabels, ApplyLabels, RemoveLabels, RestoreLabels,
           LocalLabels, StopLabels DEF SyncStep
<1>3. CASE CallFails \/ Crash
    BY <1>1, <1>3, StopLabels
<1>4. CASE Environment
    BY <1>1, <1>4, EnvironmentLabels
<1>5. CASE UNCHANGED vars
    BY <1>5 DEF vars, syncVars, engineVars, LabelInv, TypeOK, EngineTypeOK,
                FetchedInHand, LabelBounds
<1>6. QED
    BY <1>2, <1>3, <1>4, <1>5 DEF Next

\* No secret in Swarm is ever labelled with a version newer than its value:
\* for every interleaving of writes with the list and the reads, every fault
\* and every number of paths.
THEOREM LabelsNeverAhead == Spec => []LabelNeverAhead
<1>1. LabelInv => LabelNeverAhead
    BY DEF LabelInv, LabelBounds, LabelNeverAhead
<1>2. QED
    BY <1>1, InitLabels, NextLabels, PTL DEF Spec

-----------------------------------------------------------------------------
(***************************************************************************)
(* The synchronizer implements SecretRefs, for all paths, services, bounds  *)
(* and numbers of retries.                                                  *)
(*                                                                         *)
(* Ids outlive what they belong to: a reference, a pending update or a      *)
(* secret map may hold the id of a secret that is gone.  The invariant      *)
(* therefore speaks of a function from every id handed out to the path and  *)
(* the name it was given, and says that whoever holds an id agrees with it. *)
(*                                                                         *)
(* A name alone does not tell whose secret it is: when a secret is gone,    *)
(* one of another path may get its name.  What the synchronizer takes for   *)
(* a reference of a path by its name is one only as long as nobody has      *)
(* written the service since it was read; after that, Swarm does not        *)
(* accept the update.                                                       *)
(***************************************************************************)

-----------------------------------------------------------------------------
(* Who agrees with the names of the ids below n.                             *)

\* <<>> for ids that have not been handed out.
Naming == [Nat -> [path : Paths, name : Name] \cup {<<>>}]

OfPathNamed(name, id, path, known) == name[id].path = path /\ name[id].name = known

RefAgrees(name, n, ref) == ref.id < n /\ name[ref.id].name = ref.name

MoveAgrees(name, n, move) ==
    /\ move.id < n
    /\ move.from < n
    /\ name[move.id].name = move.name

EntryAgrees(name, n, p, entry) ==
    /\ \A id \in entry.versions : id < n /\ name[id].path = p
    /\ entry.id # 0 => entry.id < n /\ OfPathNamed(name, entry.id, p, p)

OneEach(refs) == \A r, q \in refs : r.mount = q.mount => r = q

OfItsMount(name, ref) == name[ref.id].path = ref.mount

\* Swarm: no two secrets have a name in common, no reference dangles.
EngineAgrees(name, ss, n, sv) ==
    /\ \A x \in ss : OfPathNamed(name, x.id, x.path, NameOf(x))
    /\ \A x, y \in ss : NameOf(x) = NameOf(y) => x = y
    /\ \A s \in Services : /\ OneEach(sv[s].refs)
                           /\ \A ref \in sv[s].refs :
                                /\ RefAgrees(name, n, ref)
                                /\ OfItsMount(name, ref)
                                /\ \E x \in ss : x.id = ref.id

\* The payload: at most one move for a reference.
PayloadAgrees(name, n, pl) ==
    /\ \A s \in Services : /\ OneEach(pl.services[s].refs)
                           /\ \A ref \in pl.services[s].refs : RefAgrees(name, n, ref)
    /\ \A s \in Services : \A move \in pl.tasks[s] :
            /\ MoveAgrees(name, n, move)
            /\ \A other \in pl.tasks[s] : move.from = other.from => move = other
    /\ \A p \in Paths : EntryAgrees(name, n, p, pl.map[p])

\* The calls after which the map and the tasks are used.
Processing == {"process", "create_secret", "create_version"}

Mapped == {"list_external"} \cup Processing

Tasked == Mapped \cup {"apply"}

\* What is known of the services that nobody has written since they were read:
\* their references are of their mounts, those named like a path with a parent
\* are of that path, and their moves stay within a path.
FreshAgrees(name, call, pl, sv) ==
    /\ call \in {"list_services", "map_secrets"} => \A s \in Services : pl.tasks[s] = {}
    /\ \A s \in Services : pl.services[s].version = sv[s].version =>
        /\ \A ref \in pl.services[s].refs : OfItsMount(name, ref)
        /\ call = "map_secrets" => pl.services[s].refs = sv[s].refs
        /\ call \in Mapped => \A ref \in pl.services[s].refs, p \in Paths :
                ref.name = p /\ pl.map[p].id # 0 => name[ref.id].path = p
        /\ call \in Tasked => \A move \in pl.tasks[s] :
                name[move.from].path = name[move.id].path

Agreed ==
    \E name \in Naming :
        /\ EngineAgrees(name, secrets, nextId, services)
        /\ PayloadAgrees(name, nextId, payload)
        /\ FreshAgrees(name, pc, payload, services)

\* A path that is updated has a parent to replace.
InHandMapped == pc = "create_version" => \A f \in fetched : payload.map[f.path].id # 0

\* The specification that was read has the mounts of the service it was read
\* from, as long as nobody has written the service since.
SameMounts(sv, pv) ==
    \A s \in Services :
        /\ pv[s].version <= sv[s].version
        /\ pv[s].version = sv[s].version => Refs!Mounts(pv[s].refs) = Refs!Mounts(sv[s].refs)
        /\ sv[s].version = 0 => sv[s].refs = {}

\* Every value in Swarm, in hand or to be restored was held by the manager.
DataHeld ==
    /\ \A f \in fetched : f.data <= external[f.path].val
    /\ \A i \in DOMAIN payload.restores :
            payload.restores[i].data <= external[payload.restores[i].path].val
    /\ \A secret \in secrets : secret.data <= external[secret.path].val

RefsInv ==
    /\ TypeOK
    /\ Agreed
    /\ InHandMapped
    /\ SameMounts(services, payload.services)
    /\ DataHeld

-----------------------------------------------------------------------------
(* What most steps do: they leave the services and what the payload knows    *)
(* of ids, and create or remove at most one secret.                          *)

SameCore(pl, new) ==
    /\ new.services = pl.services
    /\ new.tasks = pl.tasks
    /\ \A p \in Paths : /\ new.map[p].id = pl.map[p].id
                        /\ new.map[p].versions = pl.map[p].versions

\* They do not go back in the pipeline.
StageKept ==
    /\ pc' \in {"list_services", "map_secrets"} => pc' = pc
    /\ pc' \in Mapped => pc \in Mapped
    /\ pc' \in Tasked => pc \in Tasked

EngineKept ==
    \/ UNCHANGED engineVars
    \/ \E id \in Nat : RemoveSecret(id)
    \/ \E secret \in Secret : secret.id = nextId /\ AddSecret(secret)

PayloadKept ==
    \/ payload' = NewPayload /\ pc' \in {"idle", "list_services"}
    \/ SameCore(payload, payload') /\ StageKept

\* The error of a step leaves them too.
LEMMA StepErrorCore ==
    ASSUME TypeOK, NEW pl \in Payload, StepError(pl)
    PROVE  SameCore(pl, payload')
<1>1. payload' = pl \/ payload' = [pl EXCEPT !.result = NoResult]
    BY BoundsAssumption DEF StepError, TypeOK, RetriesOf
<1>2. QED
    BY <1>1 DEF SameCore, Payload

LEMMA StepErrorStage ==
    ASSUME TypeOK, NEW pl, StepError(pl)
    PROVE  StageKept
<1>1. \/ pc' \in {"done", "failed", "relist_services"}
      \/ pc' = pc
    BY BoundsAssumption DEF StepError, TypeOK, RetriesOf, StepStart, Go
<1>2. QED
    BY <1>1 DEF StageKept, Mapped, Tasked, Processing

LEMMA StepErrorKept ==
    ASSUME TypeOK, StepError(payload)
    PROVE  PayloadKept
BY StepErrorCore, StepErrorStage DEF PayloadKept, TypeOK

\* A payload that knows the same ids agrees.
LEMMA CoreAgrees ==
    ASSUME NEW name, NEW n, NEW pl, NEW new,
           PayloadAgrees(name, n, pl), SameCore(pl, new)
    PROVE  PayloadAgrees(name, n, new)
BY DEF PayloadAgrees, SameCore, EntryAgrees

LEMMA CoreFresh ==
    ASSUME NEW name, NEW call, NEW pl, NEW new, NEW sv,
           FreshAgrees(name, call, pl, sv), SameCore(pl, new)
    PROVE  FreshAgrees(name, call, new, sv)
BY DEF FreshAgrees, SameCore

\* Further on in the pipeline less is known.
LEMMA StageFresh ==
    ASSUME NEW name, NEW pl, NEW sv, FreshAgrees(name, pc, pl, sv), StageKept
    PROVE  FreshAgrees(name, pc', pl, sv)
BY DEF FreshAgrees, StageKept

\* So does an empty one, and it has seen no version of a service.
LEMMA EmptyAgrees ==
    ASSUME NEW name, NEW n
    PROVE  PayloadAgrees(name, n, NewPayload)
<1>1. /\ \A s \in Services : NewPayload.services[s].refs = {} /\ NewPayload.tasks[s] = {}
      /\ \A p \in Paths : NewPayload.map[p].id = 0 /\ NewPayload.map[p].versions = {}
    BY DEF NewPayload, Unmapped
<1>2. QED
    BY <1>1 DEF PayloadAgrees, OneEach, EntryAgrees

LEMMA EmptyFresh ==
    ASSUME NEW name, NEW call, call # "map_secrets", NEW sv
    PROVE  FreshAgrees(name, call, NewPayload, sv)
<1>1. \A s \in Services : NewPayload.services[s].refs = {} /\ NewPayload.tasks[s] = {}
    BY DEF NewPayload
<1>2. QED
    BY <1>1 DEF FreshAgrees

\* A removal leaves no reference behind.
LEMMA RemoveAgrees ==
    ASSUME NEW name, EngineAgrees(name, secrets, nextId, services),
           NEW id, RemoveSecret(id)
    PROVE  EngineAgrees(name, secrets', nextId', services')
<1>1. /\ secrets' = {secret \in secrets : secret.id # id}
      /\ nextId' = nextId /\ services' = services
      /\ \A s \in Services : \A ref \in services[s].refs : ref.id # id
    BY DEF RemoveSecret, InUse
<1>2. QED
    BY <1>1 DEF EngineAgrees

\* A new secret gives its name to an id that nobody holds.
LEMMA AddAgrees ==
    ASSUME EngineTypeOK, NEW pl \in Payload, NEW call, NEW name \in Naming,
           EngineAgrees(name, secrets, nextId, services),
           PayloadAgrees(name, nextId, pl),
           FreshAgrees(name, call, pl, services),
           NEW secret \in Secret, secret.id = nextId, AddSecret(secret)
    PROVE  \E new \in Naming :
                /\ OfPathNamed(new, nextId, secret.path, NameOf(secret))
                /\ EngineAgrees(new, secrets', nextId', services')
                /\ PayloadAgrees(new, nextId', pl)
                /\ FreshAgrees(new, call, pl, services')
<1> DEFINE given == [path |-> secret.path, name |-> NameOf(secret)]
           new   == [name EXCEPT ![nextId] = given]
<1>1. given \in [path : Paths, name : Name]
    BY NameOfType DEF Secret
<1>0. given.path = secret.path /\ given.name = NameOf(secret)
    OBVIOUS
<1> HIDE DEF given
<1>2. /\ new \in Naming /\ new[nextId] = given
      /\ \A id \in Nat : id < nextId => new[id] = name[id]
    BY <1>1 DEF EngineTypeOK, Naming
<1>3. /\ secrets' = secrets \cup {secret} /\ nextId' = nextId + 1
      /\ services' = services
      /\ \A x \in secrets : NameOf(x) # NameOf(secret)
    BY DEF AddSecret, NameTaken
<1> HIDE DEF new
<1>4. \A x \in secrets : x.id \in Nat /\ x.id < nextId
    BY DEF EngineTypeOK, Secret
<1>5. ASSUME NEW ref \in Ref, RefAgrees(name, nextId, ref)
      PROVE  /\ RefAgrees(new, nextId', ref)
             /\ new[ref.id] = name[ref.id]
    BY <1>2, <1>3, <1>5 DEF RefAgrees, Ref, EngineTypeOK
<1>6. EngineAgrees(new, secrets', nextId', services')
    <2>1. \A x \in secrets' : OfPathNamed(new, x.id, x.path, NameOf(x))
        BY <1>0, <1>2, <1>3, <1>4 DEF EngineAgrees, OfPathNamed
    <2>2. \A x, y \in secrets' : NameOf(x) = NameOf(y) => x = y
        BY <1>3 DEF EngineAgrees
    <2>3. ASSUME NEW s \in Services
          PROVE  /\ OneEach(services'[s].refs)
                 /\ \A ref \in services'[s].refs :
                        /\ RefAgrees(new, nextId', ref) /\ OfItsMount(new, ref)
                        /\ \E x \in secrets' : x.id = ref.id
        <3>1. services[s].refs \subseteq Ref
            BY DEF EngineTypeOK, Service
        <3>2. QED
            BY <1>3, <1>5, <3>1 DEF EngineAgrees, OfItsMount
    <2>4. QED
        BY <2>1, <2>2, <2>3 DEF EngineAgrees
<1>7. \A s \in Services : \A ref \in pl.services[s].refs :
            RefAgrees(new, nextId', ref) /\ new[ref.id] = name[ref.id]
    <2>1. \A s \in Services : pl.services[s].refs \subseteq Ref
        BY DEF Payload, Service
    <2>2. QED
        BY <1>5, <2>1 DEF PayloadAgrees
<1>8. \A s \in Services : \A move \in pl.tasks[s] :
            /\ MoveAgrees(new, nextId', move)
            /\ new[move.id] = name[move.id] /\ new[move.from] = name[move.from]
    <2>1. ASSUME NEW s \in Services, NEW move \in pl.tasks[s]
          PROVE  move \in Move /\ MoveAgrees(name, nextId, move)
        BY DEF Payload, PayloadAgrees
    <2>2. QED
        BY <1>2, <1>3, <2>1 DEF MoveAgrees, Move, EngineTypeOK
<1>9. PayloadAgrees(new, nextId', pl)
    <2>1. ASSUME NEW p \in Paths
          PROVE  EntryAgrees(new, nextId', p, pl.map[p])
        <3>1. pl.map[p] \in ExistingSecret /\ EntryAgrees(name, nextId, p, pl.map[p])
            BY DEF Payload, PayloadAgrees
        <3>2. QED
            BY <1>2, <1>3, <3>1 DEF EntryAgrees, ExistingSecret, EngineTypeOK, OfPathNamed
    <2>2. QED
        BY <1>7, <1>8, <2>1 DEF PayloadAgrees
<1>10. FreshAgrees(new, call, pl, services')
    BY <1>3, <1>7, <1>8 DEF FreshAgrees, OfItsMount
<1>11. QED
    BY <1>0, <1>2, <1>6, <1>9, <1>10 DEF OfPathNamed

\* Most steps keep the agreement ...
LEMMA KeptAgrees ==
    ASSUME TypeOK, Agreed, EngineKept, PayloadKept
    PROVE  Agreed'
<1>1. PICK name \in Naming : /\ EngineAgrees(name, secrets, nextId, services)
                             /\ PayloadAgrees(name, nextId, payload)
                             /\ FreshAgrees(name, pc, payload, services)
    BY DEF Agreed
<1>2. ASSUME NEW other, NEW n, NEW sv, PayloadAgrees(other, n, payload),
             FreshAgrees(other, pc, payload, sv)
      PROVE  PayloadAgrees(other, n, payload') /\ FreshAgrees(other, pc', payload', sv)
    <2>1. CASE payload' = NewPayload /\ pc' \in {"idle", "list_services"}
        BY <2>1, EmptyAgrees, EmptyFresh
    <2>2. CASE SameCore(payload, payload') /\ StageKept
        BY <1>2, <2>2, CoreAgrees, CoreFresh, StageFresh
    <2>3. QED
        BY <2>1, <2>2 DEF PayloadKept
<1>3. CASE UNCHANGED engineVars
    BY <1>1, <1>2, <1>3 DEF Agreed, engineVars
<1>4. CASE \E id \in Nat : RemoveSecret(id)
    <2>1. /\ EngineAgrees(name, secrets', nextId', services')
          /\ nextId' = nextId /\ services' = services
        BY <1>1, <1>4, RemoveAgrees DEF RemoveSecret
    <2>2. QED
        BY <1>1, <1>2, <2>1 DEF Agreed
<1>5. CASE \E secret \in Secret : secret.id = nextId /\ AddSecret(secret)
    <2>1. PICK new \in Naming : /\ EngineAgrees(new, secrets', nextId', services')
                                /\ PayloadAgrees(new, nextId', payload)
                                /\ FreshAgrees(new, pc, payload, services')
        BY <1>1, <1>5, AddAgrees DEF TypeOK
    <2>2. QED
        BY <1>2, <2>1 DEF Agreed
<1>6. QED
    BY <1>3, <1>4, <1>5 DEF EngineKept

\* ... and the mounts.
LEMMA KeptMounts ==
    ASSUME TypeOK, SameMounts(services, payload.services), EngineKept, PayloadKept
    PROVE  SameMounts(services', payload'.services)
<1>1. services' = services
    BY DEF EngineKept, engineVars, RemoveSecret, AddSecret
<1>2. CASE payload' = NewPayload
    <2>1. \A s \in Services : /\ payload'.services[s].version = 0
                              /\ payload'.services[s].refs = {}
                              /\ services[s].version \in Nat
        BY <1>2 DEF NewPayload, TypeOK, EngineTypeOK, Service
    <2>2. ASSUME NEW s \in Services
          PROVE  /\ payload'.services[s].version <= services[s].version
                 /\ services[s].version = 0 => services[s].refs = {}
        BY <2>1 DEF SameMounts
    <2>3. QED
        BY <1>1, <2>1, <2>2 DEF SameMounts
<1>3. CASE SameCore(payload, payload')
    BY <1>1, <1>3 DEF SameMounts, SameCore
<1>4. QED
    BY <1>2, <1>3 DEF PayloadKept

-----------------------------------------------------------------------------
(* The steps that read Swarm, that queue service tasks and that write        *)
(* services.                                                                 *)

\* load_swarm_state: the services as they are, ...
LEMMA ListServicesRefs ==
    ASSUME TypeOK, Agreed, SameMounts(services, payload.services), ListServices
    PROVE  Agreed' /\ SameMounts(services', payload'.services)
<1>1. /\ payload' = [payload EXCEPT !.services = services]
      /\ UNCHANGED engineVars
      /\ \/ pc = "list_services" /\ pc' = "map_secrets"
         \/ pc' = "remap_secrets"
    BY DEF ListServices
<1>2. /\ payload'.services = services /\ payload'.tasks = payload.tasks
      /\ payload'.map = payload.map
      /\ secrets' = secrets /\ nextId' = nextId /\ services' = services
    BY <1>1 DEF TypeOK, Payload, engineVars
<1>3. PICK name \in Naming : /\ EngineAgrees(name, secrets, nextId, services)
                             /\ PayloadAgrees(name, nextId, payload)
                             /\ FreshAgrees(name, pc, payload, services)
    BY DEF Agreed
<1>4. EngineAgrees(name, secrets', nextId', services')
    BY <1>2, <1>3
<1>5. PayloadAgrees(name, nextId', payload')
    BY <1>2, <1>3 DEF EngineAgrees, PayloadAgrees
<1>6. FreshAgrees(name, pc', payload', services')
    BY <1>1, <1>2, <1>3 DEF EngineAgrees, FreshAgrees, Mapped, Tasked, Processing
<1>7. \A s \in Services : services[s].version \in Nat
    BY DEF TypeOK, EngineTypeOK, Service
<1>8. SameMounts(services', payload'.services)
    BY <1>2, <1>7 DEF SameMounts
<1>9. QED
    BY <1>4, <1>5, <1>6, <1>8 DEF Agreed

\* ... and the secrets: MapSecrets files an id under the path of its secret.
LEMMA MapSecretsAgrees ==
    ASSUME TypeOK, NEW name, EngineAgrees(name, secrets, nextId, services),
           NEW p \in Paths
    PROVE  /\ EntryAgrees(name, nextId, p, MapSecrets[p])
           /\ MapSecrets[p].id # 0 =>
                \E parent \in secrets : parent.path = p /\ NameOf(parent) = p
<1>1. \A x \in OfPath(p) : /\ x \in secrets /\ x.id < nextId /\ x.path = p
                           /\ OfPathNamed(name, x.id, x.path, NameOf(x))
    BY DEF OfPath, EngineAgrees, TypeOK, EngineTypeOK
<1>2. CASE ParentsOf(p) = {}
    BY <1>2 DEF MapSecrets, Unmapped, EntryAgrees
<1>3. CASE ParentsOf(p) # {}
    <2>1. /\ MapSecrets[p].id = (CHOOSE x \in ParentsOf(p) : TRUE).id
          /\ MapSecrets[p].versions = {x.id : x \in OfPath(p)}
        BY <1>3 DEF MapSecrets
    <2>2. PICK parent \in OfPath(p) : parent.parent /\ MapSecrets[p].id = parent.id
        BY <1>3, <2>1 DEF ParentsOf
    <2>3. NameOf(parent) = p
        BY <1>1, <2>2 DEF NameOf
    <2>4. QED
        BY <1>1, <2>1, <2>2, <2>3 DEF EntryAgrees, OfPathNamed
<1>4. QED
    BY <1>2, <1>3

LEMMA ListSecretsRefs ==
    ASSUME TypeOK, Agreed, SameMounts(services, payload.services),
           ListSecretsOfSwarm
    PROVE  Agreed' /\ SameMounts(services', payload'.services)
<1>1. /\ payload' = [payload EXCEPT !.map = MapSecrets]
      /\ UNCHANGED engineVars
      /\ \/ pc = "map_secrets" /\ pc' = "list_external"
         \/ pc' = "plan_cleanup"
    BY DEF ListSecretsOfSwarm, Go
<1>2. /\ payload'.services = payload.services /\ payload'.tasks = payload.tasks
      /\ payload'.map = MapSecrets
      /\ secrets' = secrets /\ nextId' = nextId /\ services' = services
    BY <1>1 DEF TypeOK, Payload, engineVars
<1>3. PICK name \in Naming : /\ EngineAgrees(name, secrets, nextId, services)
                             /\ PayloadAgrees(name, nextId, payload)
                             /\ FreshAgrees(name, pc, payload, services)
    BY DEF Agreed
<1>4. PayloadAgrees(name, nextId, payload')
    BY <1>2, <1>3, MapSecretsAgrees DEF PayloadAgrees
<1>5. ASSUME NEW s \in Services, payload.services[s].refs = services[s].refs,
             NEW ref \in payload.services[s].refs, NEW p \in Paths,
             ref.name = p, MapSecrets[p].id # 0
      PROVE  name[ref.id].path = p
    <2>1. PICK x \in secrets : x.id = ref.id
        BY <1>3, <1>5 DEF EngineAgrees
    <2>2. NameOf(x) = p
        BY <1>3, <1>5, <2>1 DEF EngineAgrees, RefAgrees, OfPathNamed
    <2>3. PICK parent \in secrets : parent.path = p /\ NameOf(parent) = p
        BY <1>3, <1>5, MapSecretsAgrees
    <2>4. x = parent
        BY <1>3, <2>2, <2>3 DEF EngineAgrees
    <2>5. QED
        BY <1>3, <2>1, <2>3, <2>4 DEF EngineAgrees, OfPathNamed
<1>6. FreshAgrees(name, pc', payload', services')
    <2>1. CASE pc = "map_secrets" /\ pc' = "list_external"
        <3>1. \A s \in Services : payload'.tasks[s] = {}
            BY <1>2, <1>3, <2>1 DEF FreshAgrees
        <3>2. ASSUME NEW s \in Services, payload'.services[s].version = services'[s].version
              PROVE  /\ payload.services[s].refs = services[s].refs
                     /\ \A ref \in payload.services[s].refs : OfItsMount(name, ref)
            BY <1>2, <1>3, <2>1, <3>2 DEF FreshAgrees
        <3>3. QED
            BY <1>2, <1>5, <2>1, <3>1, <3>2 DEF FreshAgrees
    <2>2. CASE pc' = "plan_cleanup"
        BY <1>2, <1>3, <2>2 DEF FreshAgrees, Mapped, Tasked, Processing
    <2>3. QED
        BY <1>1, <2>1, <2>2
<1>7. QED
    BY <1>2, <1>3, <1>4, <1>6 DEF Agreed

\* The tasks that a processed path queues are about known ids, ...
LEMMA EnqueuedMoves ==
    ASSUME NEW pl \in Payload, NEW moved, NEW target,
           NEW queued \in Enqueued(pl, moved, target), NEW s \in Services
    PROVE  \A move \in queued.tasks[s] :
                \/ move \in pl.tasks[s] /\ move.from \notin moved[s]
                \/ /\ move.from \in moved[s]
                   /\ move = [from |-> move.from, id |-> target.id, name |-> target.name]
<1> DEFINE tasks == [ss \in Services |->
                        {move \in pl.tasks[ss] : move.from \notin moved[ss]} \cup
                        {[from |-> id, id |-> target.id, name |-> target.name] :
                            id \in moved[ss]}]
<1>1. queued.tasks = tasks
    BY DEF Enqueued, Payload
<1>2. QED
    BY <1>1

LEMMA EnqueuedAgrees ==
    ASSUME NEW name, NEW n \in Nat, NEW pl \in Payload, PayloadAgrees(name, n, pl),
           NEW moved, NEW target,
           target.id < n, name[target.id].name = target.name,
           \A s \in Services : \A id \in moved[s] : id < n,
           NEW queued \in Enqueued(pl, moved, target)
    PROVE  PayloadAgrees(name, n, queued)
<1>1. queued.services = pl.services /\ queued.map = pl.map
    BY EnqueuedKeeps
<1>2. ASSUME NEW s \in Services, NEW move \in queued.tasks[s]
      PROVE  /\ MoveAgrees(name, n, move)
             /\ \A other \in queued.tasks[s] : move.from = other.from => move = other
    <2>1. \A m \in queued.tasks[s] :
            \/ m \in pl.tasks[s] /\ m.from \notin moved[s]
            \/ /\ m.from \in moved[s]
               /\ m = [from |-> m.from, id |-> target.id, name |-> target.name]
        BY EnqueuedMoves
    <2>2. MoveAgrees(name, n, move)
        BY <2>1 DEF MoveAgrees, PayloadAgrees
    <2>3. ASSUME NEW other \in queued.tasks[s], move.from = other.from
          PROVE  move = other
        <3>1. CASE move.from \in moved[s]
            BY <2>1, <2>3, <3>1
        <3>2. CASE move.from \notin moved[s]
            <4>1. move \in pl.tasks[s] /\ other \in pl.tasks[s]
                BY <2>1, <2>3, <3>2
            <4>2. QED
                BY <2>3, <4>1 DEF PayloadAgrees
        <3>3. QED
            BY <3>1, <3>2
    <2>4. QED
        BY <2>2, <2>3
<1>3. QED
    BY <1>1, <1>2 DEF PayloadAgrees

\* ... and in a service that nobody has written they move references of the
\* path.
LEMMA EnqueuedFresh ==
    ASSUME NEW name, NEW call \in Processing, NEW sv, NEW pl \in Payload,
           FreshAgrees(name, call, pl, sv), NEW moved, NEW target,
           \A s \in Services : pl.services[s].version = sv[s].version =>
                \A id \in moved[s] : name[id].path = name[target.id].path,
           NEW queued \in Enqueued(pl, moved, target)
    PROVE  FreshAgrees(name, "process", queued, sv)
<1>1. queued.services = pl.services /\ queued.map = pl.map
    BY EnqueuedKeeps
<1>2. ASSUME NEW s \in Services, pl.services[s].version = sv[s].version,
             NEW move \in queued.tasks[s]
      PROVE  name[move.from].path = name[move.id].path
    <2>1. \A m \in pl.tasks[s] : name[m.from].path = name[m.id].path
        BY <1>2 DEF FreshAgrees, Tasked, Mapped
    <2>2. \/ move \in pl.tasks[s]
          \/ move.from \in moved[s] /\ move.id = target.id
        BY EnqueuedMoves
    <2>3. QED
        BY <1>2, <2>1, <2>2
<1>3. QED
    BY <1>1, <1>2 DEF FreshAgrees, Tasked, Mapped, Processing

\* A reference that uses the secret of a path is known, ...
LEMMA UsedIsKnown ==
    ASSUME NEW name, NEW n, PayloadAgrees(name, n, payload),
           NEW s \in Services, NEW ref \in payload.services[s].refs
    PROVE  ref.id < n /\ name[ref.id].name = ref.name
BY DEF PayloadAgrees, RefAgrees

\* ... and one of that path as long as nobody has written the service.
LEMMA UsedIsOfPath ==
    ASSUME NEW name, NEW n, PayloadAgrees(name, n, payload), NEW p \in Paths,
           payload.map[p].id # 0,
           NEW call \in Mapped, NEW sv, FreshAgrees(name, call, payload, sv),
           NEW s \in Services, payload.services[s].version = sv[s].version,
           NEW ref \in payload.services[s].refs, UsesSecret(ref, p)
    PROVE  name[ref.id].path = p
<1>1. CASE ref.name = p
    BY <1>1 DEF FreshAgrees
<1>2. CASE ref.id \in payload.map[p].versions
    BY <1>2 DEF PayloadAgrees, EntryAgrees
<1>3. QED
    BY <1>1, <1>2 DEF UsesSecret

\* What is left to do besides the tasks is about secrets, not references.
LEMMA BesidesTasks ==
    ASSUME NEW pl \in Payload, NEW p \in Paths, NEW left \in SUBSET Nat,
           NEW counter \in {"created", "updated", "skipped",
                            "removedSecrets", "removedVersions"}
    PROVE  SameCore(pl, Counted(pl, counter)) /\ SameCore(pl, WithRemoval(pl, p, left))
BY DEF SameCore, Counted, WithRemoval, Payload

\* The same-version branch queues moves back to the parent ...
BackToParent(p) == [id |-> payload.map[p].id, name |-> p]

LEMMA ProcessSameVersionQueues ==
    ASSUME TypeOK, NEW p \in Paths, ProcessSameVersion(p)
    PROVE  /\ BackToParent(p) \in [id : Nat \ {0}, name : Name]
           /\ \E pl \in Enqueued(payload, [s \in Services |-> SameVersionRefs(s, p)],
                                  BackToParent(p)) :
                    pl \in Payload /\ SameCore(pl, payload')
<1> DEFINE secret == payload.map[p]
           old    == secret.versions \ {secret.id}
           moved  == [s \in Services |-> SameVersionRefs(s, p)]
<1>1. payload \in Payload /\ secret \in ExistingSecret /\ secret.id # 0
    BY DEF TypeOK, Payload, ProcessSameVersion, SameVersion, IsMissing
<1>2. BackToParent(p) \in [id : Nat \ {0}, name : Name]
    BY <1>1, PathIsName DEF ExistingSecret, BackToParent
<1>3. moved \in [Services -> SUBSET Nat] /\ old \in SUBSET Nat
    BY <1>1, MovedType DEF ExistingSecret
<1>4. \E pl \in Enqueued(payload, moved, BackToParent(p)) :
            payload' = Counted(IF secret.managed /\ old # {}
                                THEN WithRemoval(pl, p, old) ELSE pl, "skipped")
    BY DEF ProcessSameVersion, BackToParent
<1> HIDE DEF moved, old, secret
<1>5. PICK pl \in Enqueued(payload, moved, BackToParent(p)) :
            \/ payload' = Counted(pl, "skipped")
            \/ payload' = Counted(WithRemoval(pl, p, old), "skipped")
    BY <1>4
<1>6. pl \in Payload
    BY <1>1, <1>2, <1>3, EnqueuedType
<1>7. /\ WithRemoval(pl, p, old) \in Payload
      /\ SameCore(pl, WithRemoval(pl, p, old))
    BY <1>3, <1>6, WithRemovalType, BesidesTasks
<1>8. SameCore(pl, payload')
    <2>1. CASE payload' = Counted(pl, "skipped")
        BY <1>3, <1>6, <2>1, BesidesTasks
    <2>2. CASE payload' = Counted(WithRemoval(pl, p, old), "skipped")
        <3>1. SameCore(WithRemoval(pl, p, old), payload')
            BY <1>3, <1>7, <2>2, BesidesTasks
        <3>2. QED
            BY <1>7, <3>1 DEF SameCore
    <2>3. QED
        BY <1>5, <2>1, <2>2
<1>9. QED
    BY <1>2, <1>6, <1>8 DEF moved

LEMMA ProcessSameVersionRefs ==
    ASSUME TypeOK, Agreed, SameMounts(services, payload.services),
           NEW p \in Paths, ProcessSameVersion(p)
    PROVE  Agreed' /\ SameMounts(services', payload'.services)
<1> DEFINE moved == [s \in Services |-> SameVersionRefs(s, p)]
           target == BackToParent(p)
<1>1. PICK name \in Naming : /\ EngineAgrees(name, secrets, nextId, services)
                             /\ PayloadAgrees(name, nextId, payload)
                             /\ FreshAgrees(name, pc, payload, services)
    BY DEF Agreed
<1>2. /\ payload \in Payload /\ payload.map[p].id # 0 /\ nextId \in Nat
      /\ pc = "process" /\ pc' = "process" /\ pc \in Mapped /\ pc \in Processing
    BY DEF TypeOK, EngineTypeOK, ProcessSameVersion, SameVersion, IsMissing,
           Mapped, Processing
<1>3. /\ target.id < nextId
      /\ name[target.id].name = target.name
      /\ name[target.id].path = p
    BY <1>1, <1>2 DEF PayloadAgrees, EntryAgrees, BackToParent, OfPathNamed
<1>4. \A s \in Services : \A id \in moved[s] : id < nextId
    BY <1>1, UsedIsKnown DEF SameVersionRefs
<1>5. \A s \in Services : payload.services[s].version = services[s].version =>
            \A id \in moved[s] : name[id].path = name[target.id].path
    <2>1. ASSUME NEW s \in Services, payload.services[s].version = services[s].version,
                 NEW ref \in payload.services[s].refs, UsesSecret(ref, p)
          PROVE  name[ref.id].path = p
        BY <1>1, <1>2, <2>1, UsedIsOfPath
    <2>2. QED
        BY <1>3, <2>1 DEF SameVersionRefs
<1>6. PICK pl \in Enqueued(payload, moved, target) :
            pl \in Payload /\ SameCore(pl, payload')
    BY ProcessSameVersionQueues
<1> HIDE DEF moved, target
<1>7. /\ PayloadAgrees(name, nextId, pl) /\ pl.services = payload.services
      /\ FreshAgrees(name, "process", pl, services)
    BY <1>1, <1>2, <1>3, <1>4, <1>5, <1>6, EnqueuedAgrees, EnqueuedFresh, EnqueuedKeeps
<1>8. /\ PayloadAgrees(name, nextId, payload') /\ payload'.services = payload.services
      /\ FreshAgrees(name, "process", payload', services)
    BY <1>6, <1>7, CoreAgrees, CoreFresh DEF SameCore
<1>9. secrets' = secrets /\ nextId' = nextId /\ services' = services
    BY DEF ProcessSameVersion, engineVars
<1>10. Agreed'
    BY <1>1, <1>2, <1>8, <1>9 DEF Agreed
<1>11. QED
    BY <1>8, <1>9, <1>10 DEF SameMounts

\* ... and the update branch moves on to the new version, ...
NewVersion(p) == [id |-> nextId, name |-> VersionName(p)]

LEMMA UpdatePlannedQueues ==
    ASSUME TypeOK, NEW p \in Paths, NEW data \in Nat,
           NEW pl \in UpdatePlanned(payload, p, data)
    PROVE  /\ NewVersion(p) \in [id : Nat \ {0}, name : Name]
           /\ \E planned \in Payload :
                /\ SameCore(payload, planned)
                /\ \E queued \in Enqueued(planned, [s \in Services |-> UpdatedRefs(s, p)],
                                          NewVersion(p)) :
                        queued \in Payload /\ SameCore(queued, pl)
<1> DEFINE moved   == [s \in Services |-> UpdatedRefs(s, p)]
           restore == [path |-> p, label |-> payload.listed[p], data |-> data]
           removing == WithRemoval(payload, p, payload.map[p].versions)
           planned == [removing EXCEPT !.map[p].managed = TRUE,
                                       !.restores = Append(@, restore)]
<1>1. /\ payload \in Payload /\ payload.listed[p] \in Nat
      /\ payload.map[p].versions \in SUBSET Nat
      /\ nextId \in Nat \ {0}
    BY DEF TypeOK, EngineTypeOK, Payload, ExistingSecret, Listing
<1>2. removing \in Payload /\ SameCore(payload, removing)
    BY <1>1, WithRemovalType, BesidesTasks
<1>3. NewVersion(p) \in [id : Nat \ {0}, name : Name]
    BY <1>1, GenerateType DEF VersionName, NewVersion
<1>4. Append(removing.restores, restore) \in Seq(Restore)
    <2>1. restore \in Restore
        BY <1>1 DEF Restore
    <2>2. QED
        BY <1>2, <2>1 DEF Payload
<1>5. [removing.map EXCEPT ![p].managed = TRUE] \in [Paths -> ExistingSecret]
    BY <1>2 DEF Payload, ExistingSecret
<1>6. \A q \in Paths :
        LET entry == [removing.map EXCEPT ![p].managed = TRUE][q]
        IN entry.id = removing.map[q].id /\ entry.versions = removing.map[q].versions
    BY <1>2 DEF Payload, ExistingSecret
<1> HIDE DEF removing
<1>7. planned \in Payload /\ SameCore(removing, planned)
    BY <1>2, <1>4, <1>5, <1>6 DEF Payload, SameCore
<1>8. PICK queued \in Enqueued(planned, moved, NewVersion(p)) : pl = Counted(queued, "updated")
    BY DEF UpdatePlanned, RestoreOf, NewVersion, VersionName, removing
<1>9. moved \in [Services -> SUBSET Nat]
    BY MovedType
<1>10. SameCore(payload, planned)
    BY <1>2, <1>7 DEF SameCore
<1> HIDE DEF planned, moved
<1>11. queued \in Payload
    BY <1>3, <1>7, <1>8, <1>9, EnqueuedType
<1>12. SameCore(queued, pl)
    BY <1>8, <1>11 DEF SameCore, Counted, Payload
<1>13. QED
    BY <1>3, <1>7, <1>8, <1>10, <1>11, <1>12 DEF moved

\* ... whose path and name are known by then.
LEMMA UpdatePlannedAgrees ==
    ASSUME TypeOK, NEW name, NEW n \in Nat, PayloadAgrees(name, n, payload),
           NEW sv, FreshAgrees(name, "create_version", payload, sv),
           NEW p \in Paths, payload.map[p].id # 0, NEW data \in Nat,
           nextId < n, OfPathNamed(name, nextId, p, VersionName(p)),
           NEW pl \in UpdatePlanned(payload, p, data)
    PROVE  /\ PayloadAgrees(name, n, pl) /\ pl.services = payload.services
           /\ FreshAgrees(name, "process", pl, sv)
<1> DEFINE moved == [s \in Services |-> UpdatedRefs(s, p)]
           target == NewVersion(p)
<1>1. PICK planned \in Payload :
        /\ SameCore(payload, planned)
        /\ \E queued \in Enqueued(planned, moved, target) :
                queued \in Payload /\ SameCore(queued, pl)
    BY UpdatePlannedQueues
<1>2. PICK queued \in Enqueued(planned, moved, target) :
            queued \in Payload /\ SameCore(queued, pl)
    BY <1>1
<1>3. /\ PayloadAgrees(name, n, planned) /\ planned.services = payload.services
      /\ FreshAgrees(name, "create_version", planned, sv)
    BY <1>1, CoreAgrees, CoreFresh DEF SameCore
<1>4. \A s \in Services : \A id \in moved[s] : id < n
    BY UsedIsKnown DEF UpdatedRefs
<1>5. "create_version" \in Mapped /\ "create_version" \in Processing
    BY DEF Mapped, Processing
<1>6. \A s \in Services : planned.services[s].version = sv[s].version =>
            \A id \in moved[s] : name[id].path = name[target.id].path
    <2>1. ASSUME NEW s \in Services, payload.services[s].version = sv[s].version,
                 NEW ref \in payload.services[s].refs, UsesSecret(ref, p)
          PROVE  name[ref.id].path = p
        BY <1>5, <2>1, UsedIsOfPath
    <2>2. QED
        BY <1>3, <2>1 DEF UpdatedRefs, NewVersion, OfPathNamed
<1>7. target.id < n /\ name[target.id].name = target.name
    BY DEF NewVersion, OfPathNamed
<1> HIDE DEF moved, target
<1>8. /\ PayloadAgrees(name, n, queued) /\ queued.services = planned.services
      /\ FreshAgrees(name, "process", queued, sv)
    BY <1>2, <1>3, <1>4, <1>5, <1>6, <1>7, EnqueuedAgrees, EnqueuedFresh, EnqueuedKeeps
<1>9. QED
    BY <1>2, <1>3, <1>8, CoreAgrees, CoreFresh DEF SameCore

\* createUpdatedSecretVersion, with its errors.
LEMMA CreateUpdatedVersionRefs ==
    ASSUME TypeOK, Agreed, InHandMapped, SameMounts(services, payload.services),
           CreateUpdatedVersion
    PROVE  Agreed' /\ SameMounts(services', payload'.services)
<1> PICK f \in fetched :
        LET secret == VersionSecret(f.path, payload.listed[f.path], f.data)
        IN \/ /\ AddSecret(secret) /\ pc' = "process"
              /\ payload' \in UpdatePlanned(payload, f.path, f.data)
           \/ StepError(payload) /\ UNCHANGED engineVars
           \/ AddSecret(secret) /\ StepError(payload)
    BY DEF CreateUpdatedVersion, Go
<1> DEFINE secret == VersionSecret(f.path, payload.listed[f.path], f.data)
<1>1. f.path \in Paths /\ f.data \in Nat /\ payload.listed[f.path] \in Nat
        /\ payload \in Payload /\ nextId \in Nat
    BY DEF TypeOK, EngineTypeOK, Fetched, Payload, Listing
<1>2. /\ secret \in Secret /\ secret.id = nextId /\ secret.path = f.path
      /\ NameOf(secret) = VersionName(f.path)
    BY <1>1, NewSecretType DEF TypeOK, VersionSecret, NameOf, VersionName
<1>3. pc = "create_version" /\ payload.map[f.path].id # 0
    BY DEF CreateUpdatedVersion, InHandMapped
<1> HIDE DEF secret
<1>4. CASE /\ AddSecret(secret) /\ pc' = "process"
           /\ payload' \in UpdatePlanned(payload, f.path, f.data)
    <2>1. PICK name \in Naming : /\ EngineAgrees(name, secrets, nextId, services)
                                 /\ PayloadAgrees(name, nextId, payload)
                                 /\ FreshAgrees(name, pc, payload, services)
        BY DEF Agreed
    <2>2. PICK new \in Naming :
            /\ OfPathNamed(new, nextId, secret.path, NameOf(secret))
            /\ EngineAgrees(new, secrets', nextId', services')
            /\ PayloadAgrees(new, nextId', payload)
            /\ FreshAgrees(new, pc, payload, services')
        BY <1>1, <1>2, <1>4, <2>1, AddAgrees DEF TypeOK
    <2>3. nextId' \in Nat /\ nextId < nextId' /\ services' = services
        BY <1>1, <1>4 DEF AddSecret
    <2>4. /\ PayloadAgrees(new, nextId', payload') /\ payload'.services = payload.services
          /\ FreshAgrees(new, "process", payload', services')
        BY <1>1, <1>2, <1>3, <1>4, <2>2, <2>3, UpdatePlannedAgrees
    <2>5. Agreed'
        BY <1>4, <2>2, <2>4 DEF Agreed
    <2>6. QED
        BY <2>3, <2>4, <2>5 DEF SameMounts
<1>5. CASE StepError(payload) /\ UNCHANGED engineVars
    <2>1. EngineKept /\ PayloadKept
        BY <1>5, StepErrorKept DEF EngineKept
    <2>2. QED
        BY <2>1, KeptAgrees, KeptMounts
<1>6. CASE AddSecret(secret) /\ StepError(payload)
    <2>1. EngineKept /\ PayloadKept
        BY <1>2, <1>6, StepErrorKept DEF EngineKept
    <2>2. QED
        BY <2>1, KeptAgrees, KeptMounts
<1>7. QED
    BY <1>4, <1>5, <1>6 DEF secret

\* Step4's rewrite of a specification keeps its mounts, ...
LEMMA RewrittenAgrees ==
    ASSUME payload \in Payload, NEW name, NEW n, PayloadAgrees(name, n, payload),
           NEW s \in Services
    PROVE  /\ OneEach(Rewritten(s))
           /\ \A ref \in Rewritten(s) : RefAgrees(name, n, ref)
           /\ Refs!Mounts(Rewritten(s)) = Refs!Mounts(payload.services[s].refs)
<1> DEFINE refs == payload.services[s].refs
           By(ref, move) == [ref EXCEPT !.id = move.id, !.name = move.name]
<1>1. /\ refs \subseteq Ref /\ payload.tasks[s] \subseteq Move
      /\ OneEach(refs) /\ \A ref \in refs : RefAgrees(name, n, ref)
      /\ \A move \in payload.tasks[s] :
            /\ MoveAgrees(name, n, move)
            /\ \A other \in payload.tasks[s] : move.from = other.from => move = other
    BY DEF Payload, Service, PayloadAgrees
<1>2. \A new \in Rewritten(s) :
        \/ new \in refs /\ Moves(s, new) = {}
        \/ \E ref \in refs : \E move \in Moves(s, ref) : new = By(ref, move)
    BY DEF Rewritten
<1>3. ASSUME NEW ref \in refs, NEW move \in Moves(s, ref)
      PROVE  /\ By(ref, move) \in Rewritten(s)
             /\ By(ref, move).mount = ref.mount
             /\ RefAgrees(name, n, By(ref, move))
    <2>1. ref \in Ref /\ move \in Move /\ move.from = ref.id /\ move \in payload.tasks[s]
        BY <1>1 DEF Moves
    <2>2. /\ By(ref, move).mount = ref.mount /\ By(ref, move).id = move.id
          /\ By(ref, move).name = move.name
        BY <2>1 DEF Ref
    <2>3. By(ref, move) \in Rewritten(s)
        <3> HIDE DEF By
        <3>1. Rewritten(s) = {r \in refs : Moves(s, r) = {}} \cup
                             UNION {{By(r, m) : m \in Moves(s, r)} : r \in refs}
            BY DEF Rewritten, By
        <3>2. QED
            BY <3>1
    <2>4. QED
        BY <1>1, <2>1, <2>2, <2>3 DEF RefAgrees, MoveAgrees
<1> HIDE DEF By, refs
<1>4. \A new \in Rewritten(s) : \E ref \in refs :
            /\ new.mount = ref.mount
            /\ \/ new = ref /\ Moves(s, ref) = {}
               \/ \E move \in Moves(s, ref) : new = By(ref, move)
    BY <1>2, <1>3
<1>5. \A ref \in refs : \A m, o \in Moves(s, ref) : m = o
    BY <1>1 DEF Moves
<1>6. OneEach(Rewritten(s))
    <2> SUFFICES ASSUME NEW a \in Rewritten(s), NEW b \in Rewritten(s), a.mount = b.mount
                 PROVE  a = b
        BY DEF OneEach
    <2>1. PICK ref \in refs : /\ a.mount = ref.mount
                              /\ \/ a = ref /\ Moves(s, ref) = {}
                                 \/ \E move \in Moves(s, ref) : a = By(ref, move)
        BY <1>4
    <2>2. PICK other \in refs : /\ b.mount = other.mount
                                /\ \/ b = other /\ Moves(s, other) = {}
                                   \/ \E move \in Moves(s, other) : b = By(other, move)
        BY <1>4
    <2>3. ref = other
        BY <1>1, <2>1, <2>2 DEF OneEach
    <2>4. QED
        BY <1>5, <2>1, <2>2, <2>3
<1>7. \A new \in Rewritten(s) : RefAgrees(name, n, new)
    BY <1>1, <1>2, <1>3
<1>8. \A ref \in refs : \E new \in Rewritten(s) : new.mount = ref.mount
    <2> SUFFICES ASSUME NEW ref \in refs
                 PROVE  \E new \in Rewritten(s) : new.mount = ref.mount
        OBVIOUS
    <2>1. CASE Moves(s, ref) = {}
        BY <2>1 DEF Rewritten, refs
    <2>2. CASE Moves(s, ref) # {}
        BY <1>3, <2>2
    <2>3. QED
        BY <2>1, <2>2
<1>9. Refs!Mounts(Rewritten(s)) = Refs!Mounts(refs)
    BY <1>4, <1>8 DEF Refs!Mounts
<1>10. QED
    BY <1>6, <1>7, <1>9 DEF refs

\* ... each with a secret of its path if nobody has written the service.
LEMMA RewrittenFresh ==
    ASSUME payload \in Payload, NEW name, NEW sv,
           FreshAgrees(name, "apply", payload, sv), NEW s \in Services,
           payload.services[s].version = sv[s].version
    PROVE  \A ref \in Rewritten(s) : OfItsMount(name, ref)
<1>1. /\ payload.services[s].refs \subseteq Ref
      /\ \A ref \in payload.services[s].refs : OfItsMount(name, ref)
      /\ \A move \in payload.tasks[s] : name[move.from].path = name[move.id].path
    BY DEF FreshAgrees, Payload, Service, Tasked
<1>2. \A new \in Rewritten(s) :
        \/ new \in payload.services[s].refs
        \/ \E ref \in payload.services[s].refs : \E move \in Moves(s, ref) :
                new = [ref EXCEPT !.id = move.id, !.name = move.name]
    BY DEF Rewritten
<1>3. ASSUME NEW ref \in payload.services[s].refs, NEW move \in Moves(s, ref), NEW new,
             new = [ref EXCEPT !.id = move.id, !.name = move.name]
      PROVE  OfItsMount(name, new)
    <2>1. new.id = move.id /\ new.mount = ref.mount
        BY <1>1, <1>3 DEF Ref
    <2>2. move \in payload.tasks[s] /\ move.from = ref.id
        BY DEF Moves
    <2>3. QED
        BY <1>1, <2>1, <2>2 DEF OfItsMount
<1>4. QED
    BY <1>1, <1>2, <1>3

\* A service whose references agree and are live may take them.
LEMMA UpdateAgrees ==
    ASSUME EngineTypeOK, NEW name, EngineAgrees(name, secrets, nextId, services),
           NEW s \in Services, NEW version, NEW refs, OneEach(refs),
           \A ref \in refs : /\ RefAgrees(name, nextId, ref)
                             /\ OfItsMount(name, ref)
                             /\ Live(ref.id),
           services' = [services EXCEPT ![s] = [version |-> version, refs |-> refs]],
           UNCHANGED <<secrets, nextId>>
    PROVE  EngineAgrees(name, secrets', nextId', services')
<1>1. /\ services'[s].refs = refs
      /\ \A other \in Services \ {s} : services'[other] = services[other]
    BY DEF EngineTypeOK
<1>2. QED
    BY <1>1 DEF EngineAgrees, Live

\* When a service is written, less is known of it, and as much of the others.
LEMMA UpdateFresh ==
    ASSUME TypeOK, SameMounts(services, payload.services), NEW name, NEW call, NEW pl,
           FreshAgrees(name, call, pl, services),
           \A s \in Services : pl.services[s].version = payload.services[s].version,
           NEW s \in Services, NEW refs,
           services' = [services EXCEPT ![s] = [version |-> services[s].version + 1,
                                                refs    |-> refs]]
    PROVE  FreshAgrees(name, call, pl, services')
<1>1. /\ services'[s].version = services[s].version + 1
      /\ \A other \in Services \ {s} : services'[other] = services[other]
    BY DEF TypeOK, EngineTypeOK
<1>2. /\ services[s].version \in Nat /\ payload.services[s].version \in Nat
      /\ payload.services[s].version <= services[s].version
    BY DEF TypeOK, EngineTypeOK, Payload, Service, SameMounts
<1>3. pl.services[s].version # services'[s].version
    BY <1>1, <1>2
<1>4. QED
    BY <1>1, <1>3 DEF FreshAgrees

\* applyServiceUpdates, done or not.
LEMMA ApplyRefs ==
    ASSUME TypeOK, Agreed, SameMounts(services, payload.services),
           ApplyServiceUpdate
    PROVE  Agreed' /\ SameMounts(services', payload'.services)
<1> DEFINE s         == payload.order[payload.offset + 1]
           version   == payload.services[s].version
           refs      == Rewritten(s)
           rewritten == [payload EXCEPT !.services[s].refs = refs]
           applied   == [rewritten EXCEPT !.offset = @ + 1]
<1>1. s \in Services
    <2>1. payload.order \in Seq(Services) /\ payload.offset \in Nat
        BY DEF TypeOK, Payload
    <2>2. QED
        BY <2>1, ElementOfSeq DEF ApplyServiceUpdate
<1>2. payload \in Payload /\ refs \in SUBSET Ref
    BY <1>1, RewrittenType DEF TypeOK
<1>3. PICK name \in Naming : /\ EngineAgrees(name, secrets, nextId, services)
                             /\ PayloadAgrees(name, nextId, payload)
                             /\ FreshAgrees(name, pc, payload, services)
    BY DEF Agreed
<1>4. pc = "apply" /\ pc \notin Mapped /\ pc # "map_secrets"
    BY DEF ApplyServiceUpdate, Mapped, Processing
<1>5. /\ OneEach(refs) /\ \A ref \in refs : RefAgrees(name, nextId, ref)
      /\ Refs!Mounts(refs) = Refs!Mounts(payload.services[s].refs)
    BY <1>1, <1>2, <1>3, RewrittenAgrees
<1>6. version = services[s].version => \A ref \in refs : OfItsMount(name, ref)
    BY <1>1, <1>2, <1>3, <1>4, RewrittenFresh
<1> HIDE DEF refs
<1>7. /\ rewritten \in Payload
      /\ rewritten.services[s].refs = refs
      /\ rewritten.services[s].version = version
      /\ \A other \in Services \ {s} : rewritten.services[other] = payload.services[other]
      /\ rewritten.tasks = payload.tasks /\ rewritten.map = payload.map
    <2>1. payload.services \in [Services -> Service]
        BY <1>2 DEF Payload
    <2>2. [payload.services[s] EXCEPT !.refs = refs] \in Service
        BY <1>1, <1>2, <2>1 DEF Service
    <2>3. [payload.services EXCEPT ![s].refs = refs] \in [Services -> Service]
        BY <1>1, <2>1, <2>2
    <2>4. /\ rewritten \in Payload
          /\ rewritten.services = [payload.services EXCEPT ![s].refs = refs]
          /\ rewritten.tasks = payload.tasks /\ rewritten.map = payload.map
        BY <1>2, <2>3 DEF Payload
    <2>5. QED
        BY <1>1, <2>1, <2>4 DEF Service
<1>8. PayloadAgrees(name, nextId, rewritten)
    BY <1>3, <1>5, <1>7 DEF PayloadAgrees
<1>9. FreshAgrees(name, pc, rewritten, services)
    <2>1. \A other \in Services : rewritten.services[other].version
                                    = payload.services[other].version
        BY <1>7
    <2>2. ASSUME NEW other \in Services,
                 rewritten.services[other].version = services[other].version,
                 NEW ref \in rewritten.services[other].refs
          PROVE  OfItsMount(name, ref)
        <3>1. CASE other = s
            BY <1>6, <1>7, <2>2, <3>1
        <3>2. CASE other # s
            BY <1>3, <1>7, <2>2, <3>2 DEF FreshAgrees
        <3>3. QED
            BY <3>1, <3>2
    <2>3. \A other \in Services :
            payload.services[other].version = services[other].version =>
                \A move \in payload.tasks[other] :
                    name[move.from].path = name[move.id].path
        BY <1>3, <1>4 DEF FreshAgrees, Tasked
    <2>4. QED
        BY <1>4, <1>7, <2>1, <2>2, <2>3 DEF FreshAgrees
<1>10. /\ UpdateService(s, version, refs) \/ UNCHANGED engineVars
       /\ (payload' = applied /\ pc' = pc) \/ StepError(rewritten)
    BY DEF ApplyServiceUpdate, refs
<1> HIDE DEF rewritten
<1>11. SameCore(rewritten, payload') /\ StageKept
    <2>1. CASE payload' = applied /\ pc' = pc
        BY <1>7, <2>1 DEF SameCore, Payload, StageKept
    <2>2. CASE StepError(rewritten)
        BY <1>7, <2>2, StepErrorCore, StepErrorStage
    <2>3. QED
        BY <1>10, <2>1, <2>2
<1>12. PayloadAgrees(name, nextId, payload') /\ payload'.services = rewritten.services
    BY <1>8, <1>11, CoreAgrees DEF SameCore
<1>13. ASSUME NEW sv, FreshAgrees(name, pc, rewritten, sv)
       PROVE  FreshAgrees(name, pc', payload', sv)
    BY <1>11, <1>13, CoreFresh, StageFresh
<1> HIDE DEF s, version
<1>14. CASE UNCHANGED engineVars
    <2>1. SameMounts(services', payload'.services)
        BY <1>1, <1>5, <1>7, <1>12, <1>14 DEF SameMounts, engineVars, version
    <2>2. secrets' = secrets /\ nextId' = nextId /\ services' = services
        BY <1>14 DEF engineVars
    <2>3. QED
        BY <1>3, <1>9, <1>12, <1>13, <2>1, <2>2 DEF Agreed
<1>15. CASE UpdateService(s, version, refs)
    <2>1. /\ services' = [services EXCEPT ![s] = [version |-> version + 1, refs |-> refs]]
          /\ UNCHANGED <<secrets, nextId>>
          /\ services[s].version = version
          /\ \A ref \in refs : Live(ref.id)
        BY <1>15 DEF UpdateService, UpdateAccepted
    <2>2. \A ref \in refs : OfItsMount(name, ref)
        BY <1>6, <2>1 DEF version
    <2>3. EngineAgrees(name, secrets', nextId', services')
        BY <1>1, <1>3, <1>5, <2>1, <2>2, UpdateAgrees DEF TypeOK
    <2>4. /\ services'[s].version = version + 1 /\ version \in Nat
          /\ \A other \in Services \ {s} : services'[other] = services[other]
        BY <1>1, <1>2, <2>1 DEF TypeOK, EngineTypeOK, Payload, Service, version
    <2>5. SameMounts(services', payload'.services)
        BY <1>1, <1>7, <1>12, <2>4 DEF SameMounts
    <2>6. \A other \in Services : rewritten.services[other].version
                                    = payload.services[other].version
        BY <1>7 DEF version
    <2>7. FreshAgrees(name, pc, rewritten, services')
        BY <1>1, <1>9, <2>1, <2>6, UpdateFresh
    <2>8. FreshAgrees(name, pc', payload', services')
        BY <1>13, <2>7
    <2>9. QED
        BY <1>12, <2>1, <2>3, <2>5, <2>8 DEF Agreed
<1>16. QED
    BY <1>10, <1>14, <1>15

\* A stack that is deployed mounts the parents, one for each path.
LEMMA MountingAgrees ==
    ASSUME EngineTypeOK, NEW name, EngineAgrees(name, secrets, nextId, services),
           NEW paths \in SUBSET Paths
    PROVE  /\ OneEach(Mounting(paths))
           /\ \A ref \in Mounting(paths) : /\ RefAgrees(name, nextId, ref)
                                           /\ OfItsMount(name, ref)
                                           /\ Live(ref.id)
<1>1. \A ref \in Mounting(paths) : \E x \in secrets :
            /\ x.parent
            /\ ref = [mount |-> x.path, id |-> x.id, name |-> NameOf(x)]
    BY DEF Mounting
<1>2. \A x \in secrets : /\ x.id < nextId
                         /\ OfPathNamed(name, x.id, x.path, NameOf(x))
                         /\ x.parent => NameOf(x) = x.path
    BY DEF EngineTypeOK, EngineAgrees, NameOf
<1>3. \A x, y \in secrets : x.parent /\ y.parent /\ x.path = y.path => x = y
    BY <1>2 DEF EngineAgrees
<1>4. OneEach(Mounting(paths))
    BY <1>1, <1>3 DEF OneEach
<1>5. QED
    BY <1>1, <1>2, <1>4 DEF RefAgrees, OfItsMount, OfPathNamed, Live

LEMMA DeployRefs ==
    ASSUME TypeOK, Agreed, SameMounts(services, payload.services),
           NEW s \in Services, NEW paths \in SUBSET Paths, Deploy(s, paths)
    PROVE  Agreed' /\ SameMounts(services', payload'.services)
<1>1. PICK name \in Naming : /\ EngineAgrees(name, secrets, nextId, services)
                             /\ PayloadAgrees(name, nextId, payload)
                             /\ FreshAgrees(name, pc, payload, services)
    BY DEF Agreed
<1>2. /\ services' = [services EXCEPT ![s] = [version |-> services[s].version + 1,
                                              refs    |-> Mounting(paths)]]
      /\ UNCHANGED <<secrets, nextId>> /\ payload' = payload /\ pc' = pc
    BY DEF Deploy, syncVars
<1>3. EngineAgrees(name, secrets', nextId', services')
    BY <1>1, <1>2, MountingAgrees, UpdateAgrees DEF TypeOK
<1>4. FreshAgrees(name, pc, payload, services')
    BY <1>1, <1>2, UpdateFresh
<1>5. /\ services'[s].version = services[s].version + 1
      /\ services[s].version \in Nat /\ payload.services[s].version \in Nat
      /\ \A other \in Services \ {s} : services'[other] = services[other]
    BY <1>2 DEF TypeOK, EngineTypeOK, Payload, Service
<1>6. SameMounts(services', payload'.services)
    BY <1>2, <1>5 DEF SameMounts
<1>7. QED
    BY <1>1, <1>2, <1>3, <1>4, <1>6 DEF Agreed

-----------------------------------------------------------------------------
(* All other steps leave the references and what the payload knows of them.  *)

\* The steps without a call of their own, and those that only read.
LEMMA LocalKept ==
    ASSUME TypeOK,
           \/ StartSync \/ LoadExternalState
           \/ \E p \in Paths : GetSecretPayload(p)
           \/ FinishProcess \/ FinishApply \/ FinishRemove \/ FinishRestore
           \/ PlanCleanup \/ Return \/ CallFails \/ Crash
    PROVE  EngineKept /\ PayloadKept
<1>1. payload \in Payload
    BY DEF TypeOK
<1>2. UNCHANGED engineVars
    BY DEF StartSync, LoadExternalState, GetSecretPayload, FinishProcess, FinishApply,
           FinishRemove, FinishRestore, PlanCleanup, Return, CallFails, Crash
<1> SUFFICES PayloadKept
    BY <1>2 DEF EngineKept
<1>3. CASE StartSync \/ Return \/ Crash
    BY <1>3 DEF StartSync, Return, Crash, Forget, Go, PayloadKept
<1>4. CASE LoadExternalState \/ PlanCleanup
    <2>1. SameCore(payload, payload')
        BY <1>1, <1>4 DEF LoadExternalState, PlanCleanup, SameCore, Payload
    <2>2. StageKept
        BY <1>4 DEF LoadExternalState, PlanCleanup, Go, StageKept, Tasked, Mapped,
                    Processing
    <2>3. QED
        BY <2>1, <2>2 DEF PayloadKept
<1>5. CASE FinishProcess \/ FinishApply \/ FinishRemove \/ FinishRestore
    <2>1. SameCore(payload, payload')
        BY <1>5 DEF FinishProcess, FinishApply, FinishRemove, FinishRestore, SameCore
    <2>2. /\ pc' \in {"apply", "remove", "restore", "relist_services", "done"}
          /\ pc' = "apply" => pc = "process"
        BY <1>5 DEF FinishProcess, FinishApply, FinishRemove, FinishRestore, Go,
                    AfterProcess, AfterApply, AfterRemove, AfterRestore
    <2>3. StageKept
        BY <2>2 DEF StageKept, Tasked, Mapped, Processing
    <2>4. QED
        BY <2>1, <2>3 DEF PayloadKept
<1>6. CASE CallFails
    BY <1>6, StepErrorKept DEF CallFails
<1>7. CASE \E p \in Paths : GetSecretPayload(p)
    <2>1. \/ /\ payload' = payload /\ pc = "process"
             /\ pc' \in {"create_secret", "create_version"}
          \/ StepError(payload)
        BY <1>7 DEF GetSecretPayload, Go
    <2>2. CASE /\ payload' = payload /\ pc = "process"
               /\ pc' \in {"create_secret", "create_version"}
        BY <2>2 DEF PayloadKept, SameCore, StageKept, Tasked, Mapped, Processing
    <2>3. QED
        BY <2>1, <2>2, StepErrorKept
<1>8. QED
    BY <1>3, <1>4, <1>5, <1>6, <1>7

\* The steps that create a parent or remove a secret.
LEMMA SecretStepsKept ==
    ASSUME TypeOK, CreateMissingSecret \/ RestoreParent \/ RemoveOldVersion
    PROVE  EngineKept /\ PayloadKept
<1>1. payload \in Payload
    BY DEF TypeOK
<1>2. StepError(payload) => PayloadKept
    BY StepErrorKept
<1>3. CASE CreateMissingSecret
    <2> PICK f \in fetched :
            LET secret == ParentSecret(f.path, payload.listed[f.path], f.data)
            IN \/ /\ AddSecret(secret) /\ payload' = Counted(payload, "created")
                  /\ pc = "create_secret" /\ pc' = "process"
               \/ StepError(payload) /\ UNCHANGED engineVars
               \/ AddSecret(secret) /\ StepError(payload)
        BY <1>3 DEF CreateMissingSecret, Go
    <2> DEFINE secret == ParentSecret(f.path, payload.listed[f.path], f.data)
    <2>1. f.path \in Paths /\ f.data \in Nat /\ payload.listed[f.path] \in Nat
        BY DEF TypeOK, Fetched, Payload, Listing
    <2>2. secret \in Secret /\ secret.id = nextId
        BY <2>1, NewSecretType DEF TypeOK
    <2> HIDE DEF secret
    <2>3. ASSUME payload' = Counted(payload, "created"),
                 pc = "create_secret", pc' = "process"
          PROVE  PayloadKept
        <3>1. SameCore(payload, payload')
            BY <1>1, <2>3 DEF SameCore, Counted, Payload
        <3>2. StageKept
            BY <2>3 DEF StageKept, Tasked, Mapped, Processing
        <3>3. QED
            BY <3>1, <3>2 DEF PayloadKept
    <2>4. \/ AddSecret(secret) /\ PayloadKept
          \/ UNCHANGED engineVars /\ PayloadKept
        BY <1>2, <2>3 DEF secret
    <2>5. QED
        BY <2>2, <2>4 DEF EngineKept
<1>4. CASE RestoreParent
    <2> DEFINE restore == Head(payload.restores)
               secret  == ParentSecret(restore.path, restore.label, restore.data)
    <2>1. restore \in Restore
        <3>1. payload.restores \in Seq(Restore) /\ payload.restores # <<>>
            BY <1>4 DEF RestoreParent, TypeOK, Payload
        <3>2. QED
            BY <3>1, HeadTailProperties
    <2>2. secret \in Secret /\ secret.id = nextId
        BY <2>1, NewSecretType DEF TypeOK, Restore
    <2>3. \/ /\ AddSecret(secret) /\ payload' = [payload EXCEPT !.restores = Tail(@)]
             /\ pc' = pc
          \/ StepError(payload) /\ UNCHANGED engineVars
          \/ AddSecret(secret) /\ StepError(payload)
        BY <1>4 DEF RestoreParent
    <2> HIDE DEF secret, restore
    <2>4. payload' = [payload EXCEPT !.restores = Tail(@)] /\ pc' = pc => PayloadKept
        BY <1>1 DEF PayloadKept, SameCore, Payload, StageKept
    <2>5. QED
        BY <1>2, <2>2, <2>3, <2>4 DEF EngineKept
<1>5. CASE RemoveOldVersion
    <2>1. payload.removals # <<>>
        BY <1>5 DEF RemoveOldVersion
    <2>2. PICK id \in NextRemovals(Head(payload.removals)) :
            /\ RemoveSecret(id) \/ UNCHANGED engineVars
            /\ \/ /\ pc' = pc
                  /\ payload' = Counted(CrossedOff(payload, id),
                                        IF id = Head(payload.removals).parent
                                          THEN "removedSecrets" ELSE "removedVersions")
               \/ payload' = CrossedOff(payload, id) /\ pc' = pc
               \/ StepError(payload)
        BY <1>5 DEF RemoveOldVersion
    <2>3. id \in Nat
        <3>1. Head(payload.removals) \in Removal
            BY <1>1, <2>1, CrossedOffType
        <3>2. QED
            BY <2>2, <3>1 DEF NextRemovals, Removal
    <2>4. CrossedOff(payload, id) \in Payload /\ SameCore(payload, CrossedOff(payload, id))
        BY <1>1, <2>1, CrossedOffType DEF CrossedOff, SameCore, Payload
    <2>5. \A counter : SameCore(CrossedOff(payload, id),
                                Counted(CrossedOff(payload, id), counter))
        BY <2>4 DEF Counted, SameCore, Payload
    <2>6. PayloadKept
        <3>1. CASE StepError(payload)
            BY <1>2, <3>1
        <3>2. CASE SameCore(payload, payload') /\ pc' = pc
            BY <3>2 DEF PayloadKept, StageKept
        <3>3. QED
            BY <2>2, <2>4, <2>5, <3>1, <3>2 DEF SameCore
    <2>7. QED
        BY <2>2, <2>3, <2>6 DEF EngineKept
<1>6. QED
    BY <1>3, <1>4, <1>5

\* Writes in the manager and the operator's commands.
LEMMA EnvironmentKept ==
    ASSUME TypeOK,
           \/ \E p \in Paths : WriteValue(p) \/ DeleteValue(p) \/ OperatorCreates(p)
           \/ \E id \in {secret.id : secret \in secrets} : OperatorRemoves(id)
           \/ UNCHANGED vars
    PROVE  EngineKept /\ PayloadKept
<1>1. payload' = payload /\ pc' = pc
    BY DEF WriteValue, DeleteValue, OperatorCreates, OperatorRemoves, vars, syncVars
<1> SUFFICES EngineKept
    BY <1>1 DEF PayloadKept, SameCore, StageKept
<1>2. CASE \E p \in Paths : WriteValue(p) \/ DeleteValue(p)
    BY <1>2 DEF WriteValue, DeleteValue, EngineKept
<1>3. ASSUME NEW p \in Paths, OperatorCreates(p)
      PROVE  EngineKept
    <2> DEFINE secret == [ParentSecret(p, 0, 0) EXCEPT !.managed = FALSE]
    <2>1. ParentSecret(p, 0, 0) \in Secret /\ ParentSecret(p, 0, 0).id = nextId
        BY NewSecretType DEF TypeOK
    <2>2. secret \in Secret /\ secret.id = nextId
        BY <2>1 DEF Secret
    <2>3. AddSecret(secret)
        BY <1>3 DEF OperatorCreates
    <2> HIDE DEF secret
    <2>4. QED
        BY <2>2, <2>3 DEF EngineKept
<1>4. CASE \E id \in {secret.id : secret \in secrets} : OperatorRemoves(id)
    BY <1>4 DEF OperatorRemoves, EngineKept, TypeOK, EngineTypeOK, Secret
<1>5. CASE UNCHANGED vars
    BY <1>5 DEF vars, EngineKept
<1>6. QED
    BY <1>2, <1>3, <1>4, <1>5

\* Every step keeps agreement and mounts.
LEMMA NextRefs ==
    ASSUME TypeOK, Agreed, InHandMapped, SameMounts(services, payload.services),
           [Next]_vars
    PROVE  Agreed' /\ SameMounts(services', payload'.services)
<1>1. CASE EngineKept /\ PayloadKept
    BY <1>1, KeptAgrees, KeptMounts
<1>2. CASE ListServices \/ ListSecretsOfSwarm
    BY <1>2, ListServicesRefs, ListSecretsRefs
<1>3. CASE CreateUpdatedVersion \/ ApplyServiceUpdate
    BY <1>3, CreateUpdatedVersionRefs, ApplyRefs
<1>4. CASE \E p \in Paths : ProcessSameVersion(p)
    BY <1>4, ProcessSameVersionRefs
<1>5. CASE \E s \in Services, paths \in SUBSET Paths : Deploy(s, paths)
    BY <1>5, DeployRefs
<1>6. CASE \/ StartSync \/ LoadExternalState
           \/ \E p \in Paths : GetSecretPayload(p)
           \/ FinishProcess \/ FinishApply \/ FinishRemove \/ FinishRestore
           \/ PlanCleanup \/ Return \/ CallFails \/ Crash
    BY <1>1, <1>6, LocalKept
<1>7. CASE CreateMissingSecret \/ RestoreParent \/ RemoveOldVersion
    BY <1>1, <1>7, SecretStepsKept
<1>8. CASE \/ \E p \in Paths : WriteValue(p) \/ DeleteValue(p) \/ OperatorCreates(p)
           \/ \E id \in {secret.id : secret \in secrets} : OperatorRemoves(id)
           \/ UNCHANGED vars
    BY <1>1, <1>8, EnvironmentKept
<1>9. QED
    BY <1>2, <1>3, <1>4, <1>5, <1>6, <1>7, <1>8 DEF Next, SyncStep, Environment

\* The payload of a path is read for an update only if the map has the path.
LEMMA NextInHand == TypeOK /\ InHandMapped /\ [Next]_vars => InHandMapped'
<1> SUFFICES ASSUME TypeOK, InHandMapped, [Next]_vars, pc' = "create_version"
             PROVE  \A f \in fetched' : payload'.map[f.path].id # 0
    BY DEF InHandMapped
<1>1. StepError(payload) => FALSE
    BY BoundsAssumption DEF StepError, TypeOK, RetriesOf, StepStart, Go
<1>2. ASSUME NEW p \in Paths, GetSecretPayload(p)
      PROVE  \A f \in fetched' : payload'.map[f.path].id # 0
    BY <1>1, <1>2 DEF GetSecretPayload, Go, IsMissing
<1>3. CASE UNCHANGED <<pc, payload, fetched>>
    BY <1>3 DEF InHandMapped
<1>4. Environment \/ UNCHANGED vars => UNCHANGED <<pc, payload, fetched>>
    BY DEF Environment, WriteValue, DeleteValue, OperatorCreates, Deploy,
           OperatorRemoves, vars, syncVars
<1>5. ~(StartSync \/ ListServices \/ ListSecretsOfSwarm \/ LoadExternalState)
    BY DEF StartSync, ListServices, ListSecretsOfSwarm, LoadExternalState, Go
<1>6. \A p \in Paths : ~ProcessSameVersion(p)
    BY DEF ProcessSameVersion
<1>7. ~(CreateMissingSecret \/ CreateUpdatedVersion \/ RestoreParent \/ CallFails)
    BY <1>1 DEF CreateMissingSecret, CreateUpdatedVersion, RestoreParent, CallFails, Go
<1>8. ~(FinishProcess \/ FinishApply \/ FinishRemove \/ FinishRestore)
    BY DEF FinishProcess, FinishApply, FinishRemove, FinishRestore, Go,
           AfterProcess, AfterApply, AfterRemove, AfterRestore
<1>9. ~(PlanCleanup \/ Return \/ Crash)
    BY DEF PlanCleanup, Return, Crash, Go
<1>10. ~RemoveOldVersion
    BY <1>1 DEF RemoveOldVersion
<1>11. ~ApplyServiceUpdate
    <2>1. \A pl : ~StepError(pl)
        BY BoundsAssumption DEF StepError, TypeOK, RetriesOf, StepStart, Go
    <2>2. QED
        BY <2>1 DEF ApplyServiceUpdate
<1>12. QED
    BY <1>2, <1>3, <1>4, <1>5, <1>6, <1>7, <1>8, <1>9, <1>10, <1>11 DEF Next, SyncStep

\* There is nothing to agree about yet.
LEMMA InitRefs ==
    ASSUME Init
    PROVE  Agreed /\ InHandMapped /\ SameMounts(services, payload.services)
<1>1. /\ secrets = {} /\ payload = NewPayload
      /\ \A s \in Services : services[s].version = 0 /\ services[s].refs = {}
    BY DEF Init
<1>2. ASSUME NEW name \in Naming
      PROVE  /\ EngineAgrees(name, secrets, nextId, services)
             /\ PayloadAgrees(name, nextId, payload)
             /\ FreshAgrees(name, pc, payload, services)
    <2>1. pc = "idle"
        BY DEF Init
    <2>2. QED
        BY <1>1, <2>1, EmptyAgrees, EmptyFresh DEF EngineAgrees, OneEach
<1>3. SameMounts(services, payload.services)
    <2>1. payload.services = services
        BY DEF Init, NewPayload
    <2>2. \A s \in Services : services[s].version = 0
        BY <1>1
    <2>3. QED
        BY <1>1, <2>1, <2>2 DEF SameMounts
<1>4. [id \in Nat |-> <<>>] \in Naming
    BY DEF Naming
<1>5. InHandMapped
    BY DEF Init, InHandMapped
<1>6. QED
    BY <1>2, <1>3, <1>4, <1>5 DEF Agreed

-----------------------------------------------------------------------------
(* Values.                                                                   *)

\* Values stay held: the manager's numbers only grow.
LEMMA HeldFrame ==
    ASSUME TypeOK, TypeOK', DataHeld,
           \A p \in Paths : external[p].val <= external'[p].val,
           \A x \in secrets' \ secrets : x.data <= external[x.path].val,
           \A f \in fetched' \ fetched : f.data <= external[f.path].val,
           \A i \in DOMAIN payload'.restores :
                payload'.restores[i].data <= external[payload'.restores[i].path].val
    PROVE  DataHeld'
<1>1. \A p \in Paths : external[p].val \in Nat /\ external'[p].val \in Nat
    BY DEF TypeOK, External
<1>2. \A p \in Paths, data \in Nat :
            data <= external[p].val => data <= external'[p].val
    BY <1>1
<1>3. \A x \in secrets' : x.path \in Paths /\ x.data \in Nat
                          /\ x.data <= external[x.path].val
    BY DEF TypeOK, EngineTypeOK, Secret, DataHeld
<1>4. \A f \in fetched' : f.path \in Paths /\ f.data \in Nat
                          /\ f.data <= external[f.path].val
    BY DEF TypeOK, Fetched, DataHeld
<1>5. \A i \in DOMAIN payload'.restores : /\ payload'.restores[i].path \in Paths
                                          /\ payload'.restores[i].data \in Nat
    <2>1. payload'.restores \in Seq(Restore)
        BY DEF TypeOK, Payload
    <2>2. \A i \in DOMAIN payload'.restores : payload'.restores[i] \in Restore
        BY <2>1
    <2>3. QED
        BY <2>2 DEF Restore
<1>6. QED
    BY <1>2, <1>3, <1>4, <1>5 DEF DataHeld

\* Most steps create no value.
LEMMA HeldQuiet ==
    ASSUME TypeOK, TypeOK', DataHeld,
           external' = external, secrets' \subseteq secrets,
           fetched' \subseteq fetched,
           payload'.restores = payload.restores \/ payload'.restores = <<>>
    PROVE  DataHeld'
<1>1. \A p \in Paths : external[p].val <= external'[p].val
    BY DEF TypeOK, External
<1>2. \A i \in DOMAIN payload'.restores :
            payload'.restores[i].data <= external[payload'.restores[i].path].val
    BY DEF DataHeld
<1>3. QED
    BY <1>1, <1>2, HeldFrame

\* Nor does an error.
LEMMA HeldError ==
    ASSUME TypeOK, TypeOK', DataHeld, external' = external,
           \A x \in secrets' \ secrets : x.data <= external[x.path].val,
           NEW pl \in Payload, StepError(pl), pl.restores = payload.restores
    PROVE  DataHeld'
<1>1. payload'.restores = payload.restores /\ fetched' = fetched
    BY StepErrorKeeps
<1>2. \A p \in Paths : external[p].val <= external'[p].val
    BY DEF TypeOK, External
<1>3. \A i \in DOMAIN payload'.restores :
            payload'.restores[i].data <= external[payload'.restores[i].path].val
    BY <1>1 DEF DataHeld
<1>4. QED
    BY <1>1, <1>2, <1>3, HeldFrame

\* A created secret and a planned restore carry the payload in hand.
LEMMA CreateHeld ==
    ASSUME TypeOK, TypeOK', DataHeld, CreateMissingSecret \/ CreateUpdatedVersion
    PROVE  DataHeld'
<1>1. external' = external /\ payload \in Payload
    BY DEF CreateMissingSecret, CreateUpdatedVersion, TypeOK
<1>2. PICK f \in fetched, secret \in Secret :
        /\ secret.path = f.path /\ secret.data = f.data
        /\ \/ /\ AddSecret(secret) /\ fetched' = {}
              /\ \/ payload' = Counted(payload, "created")
                 \/ payload' \in UpdatePlanned(payload, f.path, f.data)
           \/ StepError(payload) /\ UNCHANGED engineVars
           \/ StepError(payload) /\ AddSecret(secret)
    <2>1. \A f \in fetched :
            f.path \in Paths /\ f.data \in Nat /\ payload.listed[f.path] \in Nat
        BY DEF TypeOK, Fetched, Payload, Listing
    <2>2. \A f \in fetched :
            LET label == payload.listed[f.path]
            IN /\ ParentSecret(f.path, label, f.data) \in Secret
               /\ ParentSecret(f.path, label, f.data).path = f.path
               /\ ParentSecret(f.path, label, f.data).data = f.data
               /\ VersionSecret(f.path, label, f.data) \in Secret
               /\ VersionSecret(f.path, label, f.data).path = f.path
               /\ VersionSecret(f.path, label, f.data).data = f.data
        BY <2>1, NewSecretType DEF TypeOK, ParentSecret, VersionSecret
    <2>3. CASE CreateMissingSecret
        BY <2>2, <2>3 DEF CreateMissingSecret
    <2>4. CASE CreateUpdatedVersion
        BY <2>2, <2>4 DEF CreateUpdatedVersion
    <2>5. QED
        BY <2>3, <2>4
<1>3. f.path \in Paths /\ f.data \in Nat /\ payload.listed[f.path] \in Nat
    BY DEF TypeOK, Fetched, Payload, Listing
<1>4. AddSecret(secret) => \A x \in secrets' \ secrets : x.data <= external[x.path].val
    BY <1>2 DEF AddSecret, DataHeld
<1>5. CASE StepError(payload)
    BY <1>1, <1>2, <1>4, <1>5, HeldError DEF engineVars
<1>6. CASE AddSecret(secret) /\ fetched' = {}
           /\ payload' = Counted(payload, "created")
    <2>1. payload'.restores = payload.restores
        BY <1>1, <1>6, CountedKeeps
    <2>2. \A p \in Paths : external[p].val <= external'[p].val
        BY <1>1 DEF TypeOK, External
    <2>3. QED
        BY <1>4, <1>6, <2>1, <2>2, HeldFrame DEF DataHeld
<1>7. CASE AddSecret(secret) /\ fetched' = {}
           /\ payload' \in UpdatePlanned(payload, f.path, f.data)
    <2> DEFINE restore == [path |-> f.path, label |-> payload.listed[f.path],
                           data |-> f.data]
    <2>1. payload'.restores = Append(payload.restores, restore)
        BY <1>3, <1>7, UpdatePlannedKeeps
    <2>2. payload.restores \in Seq(Restore) /\ restore \in Restore
        BY <1>1, <1>3 DEF Payload, Restore
    <2>3. restore.data <= external[restore.path].val
        BY DEF DataHeld
    <2> HIDE DEF restore
    <2>4. ASSUME NEW i \in DOMAIN payload'.restores
          PROVE  payload'.restores[i].data <= external[payload'.restores[i].path].val
        <3>1. /\ i \in 1 .. Len(payload.restores) + 1
              /\ DOMAIN payload.restores = 1 .. Len(payload.restores)
              /\ i \in 1 .. Len(payload.restores)
                    => payload'.restores[i] = payload.restores[i]
              /\ i = Len(payload.restores) + 1 => payload'.restores[i] = restore
              /\ Len(payload.restores) \in Nat
            BY <2>1, <2>2, AppendProperties
        <3>2. CASE i \in 1 .. Len(payload.restores)
            BY <3>1, <3>2 DEF DataHeld
        <3>3. CASE i = Len(payload.restores) + 1
            BY <2>3, <3>1, <3>3
        <3>4. QED
            BY <3>1, <3>2, <3>3
    <2>5. \A p \in Paths : external[p].val <= external'[p].val
        BY <1>1 DEF TypeOK, External
    <2>6. QED
        BY <1>4, <1>7, <2>4, <2>5, HeldFrame
<1>8. QED
    BY <1>2, <1>5, <1>6, <1>7

\* A restored parent carries the value that was queued.
LEMMA RestoreHeld ==
    ASSUME TypeOK, TypeOK', DataHeld, RestoreParent
    PROVE  DataHeld'
<1> DEFINE restore == Head(payload.restores)
           secret  == ParentSecret(restore.path, restore.label, restore.data)
<1>1. /\ external' = external /\ payload \in Payload
      /\ payload.restores \in Seq(Restore) /\ payload.restores # <<>>
    BY DEF RestoreParent, TypeOK, Payload
<1>2. restore \in Restore /\ 1 \in DOMAIN payload.restores
        /\ restore = payload.restores[1]
    BY <1>1, HeadTailProperties
<1>3. secret.path = restore.path /\ secret.data = restore.data
    BY DEF ParentSecret
<1>4. AddSecret(secret) => \A x \in secrets' \ secrets : x.data <= external[x.path].val
    BY <1>2, <1>3 DEF AddSecret, DataHeld
<1>5. \/ AddSecret(secret) /\ payload' = [payload EXCEPT !.restores = Tail(@)]
            /\ fetched' = fetched
      \/ StepError(payload) /\ (UNCHANGED engineVars \/ AddSecret(secret))
    BY DEF RestoreParent
<1> HIDE DEF restore, secret
<1>6. CASE StepError(payload)
    BY <1>1, <1>4, <1>5, <1>6, HeldError DEF AddSecret, engineVars, RestoreParent
<1>7. CASE AddSecret(secret) /\ payload' = [payload EXCEPT !.restores = Tail(@)]
            /\ fetched' = fetched
    <2>1. payload'.restores = Tail(payload.restores)
        BY <1>1, <1>7 DEF Payload
    <2>2. ASSUME NEW i \in DOMAIN payload'.restores
          PROVE  payload'.restores[i].data <= external[payload'.restores[i].path].val
        <3>1. /\ payload'.restores[i] = payload.restores[i + 1]
              /\ i + 1 \in DOMAIN payload.restores
            BY <1>1, <2>1, <2>2, HeadTailProperties
        <3>2. QED
            BY <3>1 DEF DataHeld
    <2>3. \A p \in Paths : external[p].val <= external'[p].val
        BY <1>1 DEF TypeOK, External
    <2>4. QED
        BY <1>4, <1>7, <2>2, <2>3, HeldFrame
<1>8. QED
    BY <1>5, <1>6, <1>7

\* The other steps of the pipeline create no value; what is read is the
\* manager's current value.
LEMMA PipelineHeld ==
    ASSUME TypeOK, TypeOK', DataHeld,
           \/ StartSync \/ ListServices \/ ListSecretsOfSwarm \/ LoadExternalState
           \/ \E p \in Paths : ProcessSameVersion(p) \/ GetSecretPayload(p)
           \/ FinishProcess \/ FinishApply \/ FinishRemove \/ FinishRestore
           \/ PlanCleanup \/ Return \/ CallFails \/ Crash
    PROVE  DataHeld'
<1>1. /\ external' = external /\ secrets' = secrets /\ payload \in Payload
    BY DEF StartSync, ListServices, ListSecretsOfSwarm, LoadExternalState,
           ProcessSameVersion, GetSecretPayload, FinishProcess, FinishApply,
           FinishRemove, FinishRestore, PlanCleanup, Return, CallFails, Crash,
           engineVars, TypeOK
<1>2. CASE StartSync \/ Return \/ Crash
    BY <1>1, <1>2, HeldQuiet DEF StartSync, Return, Crash, Forget, NewPayload
<1>3. CASE ListServices \/ ListSecretsOfSwarm \/ LoadExternalState \/ PlanCleanup
    <2>1. payload'.restores = payload.restores /\ fetched' = fetched
        BY <1>1, <1>3 DEF ListServices, ListSecretsOfSwarm, LoadExternalState,
                          PlanCleanup, Payload
    <2>2. QED
        BY <1>1, <2>1, HeldQuiet
<1>4. CASE FinishProcess \/ FinishApply \/ FinishRemove \/ FinishRestore
    BY <1>1, <1>4, HeldQuiet
        DEF FinishProcess, FinishApply, FinishRemove, FinishRestore
<1>5. CASE CallFails
    BY <1>1, <1>5, HeldError DEF CallFails
<1>6. ASSUME NEW p \in Paths, ProcessSameVersion(p)
      PROVE  DataHeld'
    BY <1>1, <1>6, ProcessSameVersionKeeps, HeldQuiet
<1>7. ASSUME NEW p \in Paths, GetSecretPayload(p)
      PROVE  DataHeld'
    <2>1. CASE payload' = payload /\ fetched' = {[path |-> p, data |-> external[p].val]}
        <3>1. /\ \A q \in Paths : external[q].val <= external'[q].val
              /\ \A f \in fetched' : f.data <= external[f.path].val
            BY <1>1, <2>1 DEF TypeOK, External
        <3>2. QED
            BY <1>1, <2>1, <3>1, HeldFrame DEF DataHeld
    <2>2. CASE StepError(payload)
        BY <1>1, <2>2, HeldError
    <2>3. QED
        BY <1>7, <2>1, <2>2 DEF GetSecretPayload
<1>8. QED
    BY <1>2, <1>3, <1>4, <1>5, <1>6, <1>7

\* A write makes a number the current one; an operator's secret has none.
LEMMA EnvironmentHeld ==
    ASSUME TypeOK, TypeOK', DataHeld, Environment
    PROVE  DataHeld'
<1>1. payload' = payload /\ fetched' = fetched
    BY DEF Environment, WriteValue, DeleteValue, OperatorCreates, Deploy,
           OperatorRemoves, syncVars
<1>2. \A p \in Paths : external[p].val <= external'[p].val
    <2>1. ASSUME NEW p \in Paths, WriteValue(p) \/ DeleteValue(p), NEW q \in Paths
          PROVE  external[q].val <= external'[q].val
        <3>1. external[q] \in External
            BY DEF TypeOK
        <3>2. external'[q].val = external[q].val \/ external'[q].val = external[q].val + 1
            BY <2>1, <3>1 DEF WriteValue, DeleteValue, TypeOK, External
        <3>3. QED
            BY <3>1, <3>2 DEF External
    <2>2. CASE external' = external
        BY <2>2 DEF TypeOK, External
    <2>3. QED
        BY <2>1, <2>2 DEF Environment, OperatorCreates, Deploy, OperatorRemoves
<1>3. \A x \in secrets' \ secrets : x.data <= external[x.path].val
    <2>1. ASSUME NEW p \in Paths, OperatorCreates(p)
          PROVE  \A x \in secrets' \ secrets : x.data <= external[x.path].val
        <3> DEFINE secret == [ParentSecret(p, 0, 0) EXCEPT !.managed = FALSE]
        <3>1. secrets' = secrets \cup {secret}
            BY <2>1 DEF OperatorCreates, AddSecret
        <3>2. secret.data = 0 /\ secret.path = p
            BY DEF ParentSecret
        <3> HIDE DEF secret
        <3>3. QED
            BY <3>1, <3>2 DEF TypeOK, External
    <2>2. CASE secrets' \subseteq secrets
        BY <2>2
    <2>3. QED
        BY <2>1, <2>2 DEF Environment, WriteValue, DeleteValue, Deploy,
                          OperatorRemoves, RemoveSecret, engineVars
<1>4. QED
    BY <1>1, <1>2, <1>3, HeldFrame DEF DataHeld

-----------------------------------------------------------------------------
(* The refinement.                                                           *)

LEMMA InitRefsInv == Init => RefsInv
<1>1. Init => DataHeld
    BY DEF Init, NewPayload, DataHeld
<1>2. QED
    BY <1>1, InitType, InitRefs DEF RefsInv

LEMMA NextRefsInv == RefsInv /\ [Next]_vars => RefsInv'
<1> SUFFICES ASSUME RefsInv, [Next]_vars PROVE RefsInv'
    OBVIOUS
<1> USE DEF RefsInv
<1>1. TypeOK'
    BY NextType
<1>2. Agreed' /\ InHandMapped' /\ SameMounts(services', payload'.services)
    BY NextRefs, NextInHand
<1>3. DataHeld'
    <2>1. CASE CreateMissingSecret \/ CreateUpdatedVersion
        BY <1>1, <2>1, CreateHeld
    <2>2. CASE RestoreParent
        BY <1>1, <2>2, RestoreHeld
    <2>3. CASE ApplyServiceUpdate
        BY <1>1, <2>3, ApplyKeeps, HeldQuiet, HeldError DEF ApplyServiceUpdate
    <2>4. CASE RemoveOldVersion
        BY <1>1, <2>4, RemoveKeeps, HeldQuiet, HeldError DEF RemoveOldVersion, TypeOK
    <2>5. CASE Environment
        BY <1>1, <2>5, EnvironmentHeld
    <2>6. CASE UNCHANGED vars
        BY <2>6 DEF vars, syncVars, engineVars, DataHeld
    <2>7. CASE \/ StartSync \/ ListServices \/ ListSecretsOfSwarm \/ LoadExternalState
               \/ \E p \in Paths : ProcessSameVersion(p) \/ GetSecretPayload(p)
               \/ FinishProcess \/ FinishApply \/ FinishRemove \/ FinishRestore
               \/ PlanCleanup \/ Return \/ CallFails \/ Crash
        BY <1>1, <2>7, PipelineHeld
    <2>8. QED
        BY <2>1, <2>2, <2>3, <2>4, <2>5, <2>6, <2>7 DEF Next, SyncStep
<1>4. QED
    BY <1>1, <1>2, <1>3

\* What a service reads is a value of the mount's own path.
ShownFaithful ==
    \A s \in Services : /\ Refs!Faithful(Shown(s))
                        /\ Refs!Mounts(Shown(s)) = Refs!Mounts(services[s].refs)

LEMMA ShownIsFaithful == RefsInv => ShownFaithful
<1> SUFFICES ASSUME RefsInv, NEW s \in Services
             PROVE  /\ Refs!Faithful(Shown(s))
                    /\ Refs!Mounts(Shown(s)) = Refs!Mounts(services[s].refs)
    BY DEF ShownFaithful
<1>1. PICK name \in Naming : EngineAgrees(name, secrets, nextId, services)
    BY DEF RefsInv, Agreed
<1>2. \A ref \in services[s].refs, secret \in secrets : secret.id = ref.id =>
            NameOf(secret) = ref.name /\ secret.path = ref.mount
    BY <1>1 DEF EngineAgrees, RefAgrees, OfItsMount, OfPathNamed
<1>3. \A ref \in services[s].refs : \E secret \in secrets : secret.id = ref.id
    BY <1>1 DEF EngineAgrees
<1>4. \A x \in Shown(s) : \E ref \in services[s].refs, secret \in secrets :
            /\ secret.id = ref.id
            /\ x = [mount |-> ref.mount, path |-> secret.path, value |-> secret.data]
    BY DEF Shown
<1>5. ASSUME NEW ref \in services[s].refs
      PROVE  \E x \in Shown(s) : x.mount = ref.mount
    <2>1. PICK secret \in secrets : secret.id = ref.id
        BY <1>3
    <2>2. [mount |-> ref.mount, path |-> secret.path, value |-> secret.data] \in
            {[mount |-> ref.mount, path |-> x.path, value |-> x.data] :
                x \in {y \in secrets : y.id = ref.id}}
        BY <2>1
    <2>3. [mount |-> ref.mount, path |-> secret.path, value |-> secret.data] \in Shown(s)
        BY <2>2 DEF Shown
    <2>4. QED
        BY <2>3
<1>6. \A x \in Shown(s) : x.path = x.mount /\ x.value <= external[x.mount].val
    BY <1>2, <1>4 DEF RefsInv, DataHeld
<1>7. \A x, y \in secrets : x.id = y.id => x = y
    BY <1>1 DEF EngineAgrees, OfPathNamed
<1>8. \A x, y \in Shown(s) : x.mount = y.mount => x = y
    BY <1>1, <1>4, <1>7 DEF EngineAgrees, OneEach
<1>9. Refs!Mounts(Shown(s)) = Refs!Mounts(services[s].refs)
    BY <1>4, <1>5 DEF Refs!Mounts
<1>10. \A x \in Shown(s) : x.mount \in Paths
    BY <1>4 DEF RefsInv, TypeOK, EngineTypeOK, Service, Ref
<1>11. QED
    BY <1>6, <1>8, <1>9, <1>10 DEF Refs!Faithful

\* A secret that is created or removed shows in no service.
LEMMA KeptShown ==
    ASSUME RefsInv, EngineKept
    PROVE  \A s \in Services : Shown(s)' = Shown(s)
<1> TAKE s \in Services
<1>1. \A ref \in services[s].refs :
        /\ \E x \in secrets : x.id = ref.id
        /\ ref.id < nextId /\ ref.id \in Nat
    BY DEF RefsInv, Agreed, EngineAgrees, RefAgrees, TypeOK, EngineTypeOK, Service, Ref
<1>2. services' = services
    BY DEF EngineKept, engineVars, RemoveSecret, AddSecret
<1>3. ASSUME NEW ref \in services[s].refs
      PROVE  {x \in secrets' : x.id = ref.id} = {x \in secrets : x.id = ref.id}
    <2>1. CASE UNCHANGED engineVars
        BY <2>1 DEF engineVars
    <2>2. CASE \E id \in Nat : RemoveSecret(id)
        BY <2>2 DEF RemoveSecret, InUse
    <2>3. CASE \E secret \in Secret : secret.id = nextId /\ AddSecret(secret)
        BY <1>1, <2>3 DEF AddSecret
    <2>4. QED
        BY <2>1, <2>2, <2>3 DEF EngineKept
<1>4. QED
    BY <1>2, <1>3 DEF Shown

\* A service's update shows in no other service.
LEMMA UpdateShown ==
    ASSUME EngineTypeOK, NEW s \in Services, NEW value,
           services' = [services EXCEPT ![s] = value], secrets' = secrets
    PROVE  \A other \in Services \ {s} : Shown(other)' = Shown(other)
<1>1. \A other \in Services \ {s} : services'[other] = services[other]
    BY DEF EngineTypeOK
<1>2. QED
    BY <1>1 DEF Shown

\* Every step is a step of SecretRefs, or shows nothing.
LEMMA StepRefines == RefsInv /\ RefsInv' /\ [Next]_vars => [Refs!Next]_Refs!vars
<1> SUFFICES ASSUME RefsInv, ShownFaithful, ShownFaithful', [Next]_vars
             PROVE  [Refs!Next]_Refs!vars
    BY ShownIsFaithful, PTL
<1>1. TypeOK /\ EngineTypeOK /\ payload \in Payload /\ budget.deploys \in Nat
    BY DEF RefsInv, TypeOK, Budget
<1> DEFINE written == [p \in Paths |-> external[p].val]
           shown   == [s \in Services |-> Shown(s)]
<1>2. ASSUME EngineKept, external' = external, budget'.deploys = budget.deploys
      PROVE  UNCHANGED Refs!vars
    BY <1>2, KeptShown DEF Refs!vars
<1>3. ASSUME NEW s \in Services, NEW refs, NEW version,
             services' = [services EXCEPT ![s] = [version |-> version, refs |-> refs]],
             UNCHANGED <<secrets, external>>
      PROVE  Refs!OnlyOf(s) /\ Refs!Faithful(shown'[s])
             /\ Refs!Mounts(shown'[s]) = Refs!Mounts(refs)
             /\ Refs!Mounts(shown[s]) = Refs!Mounts(services[s].refs)
    <2>1. \A other \in Services \ {s} : Shown(other)' = Shown(other)
        BY <1>1, <1>3, UpdateShown
    <2>2. services'[s].refs = refs
        BY <1>1, <1>3 DEF EngineTypeOK
    <2>3. written' = written
        BY <1>3
    <2>4. Refs!OnlyOf(s)
        BY <2>1, <2>3 DEF Refs!OnlyOf
    <2>5. Refs!Faithful(shown'[s])
        BY <1>3 DEF ShownFaithful, Refs!Faithful
    <2>6. QED
        BY <2>2, <2>4, <2>5 DEF ShownFaithful
<1>4. ASSUME Fault \/ UNCHANGED budget \/ Spend("writes") \/ Spend("operator")
      PROVE  budget'.deploys = budget.deploys
    BY <1>4 DEF Fault, Spend, RefsInv, TypeOK, Budget
<1>5. CASE ApplyServiceUpdate
    <2> DEFINE s       == payload.order[payload.offset + 1]
               version == payload.services[s].version
    <2>1. s \in Services
        <3>1. payload.order \in Seq(Services) /\ payload.offset \in Nat
            BY <1>1 DEF Payload
        <3>2. QED
            BY <1>5, <3>1, ElementOfSeq DEF ApplyServiceUpdate
    <2>2. /\ external' = external /\ (Fault \/ UNCHANGED budget)
          /\ UpdateService(s, version, Rewritten(s)) \/ UNCHANGED engineVars
        BY <1>5 DEF ApplyServiceUpdate
    <2> HIDE DEF s
    <2>3. CASE UNCHANGED engineVars
        BY <1>2, <1>4, <2>2, <2>3 DEF EngineKept
    <2>4. CASE UpdateService(s, version, Rewritten(s))
        <3>1. /\ services[s].version = version
              /\ services' = [services EXCEPT ![s] = [version |-> version + 1,
                                                    refs    |-> Rewritten(s)]]
              /\ UNCHANGED secrets
            BY <2>4 DEF UpdateService, UpdateAccepted
        <3>2. Refs!Mounts(Rewritten(s)) = Refs!Mounts(payload.services[s].refs)
            BY <1>1, <2>1, RewrittenAgrees DEF RefsInv, Agreed
        <3>3. Refs!Mounts(payload.services[s].refs) = Refs!Mounts(services[s].refs)
            BY <2>1, <3>1 DEF RefsInv, SameMounts
        <3>4. Refs!Refresh(s)
            BY <1>3, <1>4, <2>1, <2>2, <3>1, <3>2, <3>3 DEF Refs!Refresh
        <3>5. QED
            BY <2>1, <3>4 DEF Refs!Next
    <2>5. QED
        BY <2>2, <2>3, <2>4
<1>6. ASSUME NEW s \in Services, NEW paths \in SUBSET Paths, Deploy(s, paths)
      PROVE  Refs!Next
    <2>1. /\ services' = [services EXCEPT ![s] = [version |-> services[s].version + 1,
                                                refs    |-> Mounting(paths)]]
          /\ UNCHANGED <<secrets, external>>
        BY <1>6 DEF Deploy
    <2>2. budget.deploys > 0 /\ budget'.deploys = budget.deploys - 1
        BY <1>6 DEF Deploy, Spend, RefsInv, TypeOK, Budget
    <2>3. Refs!Deploy(s)
        BY <1>3, <2>1, <2>2 DEF Refs!Deploy
    <2>4. QED
        BY <2>3 DEF Refs!Next
<1>7. ASSUME NEW p \in Paths, WriteValue(p)
      PROVE  Refs!Next
    <2>1. shown' = shown /\ budget'.deploys = budget.deploys
        BY <1>4, <1>7, KeptShown DEF WriteValue, EngineKept
    <2>2. /\ external'[p].val = external[p].val + 1
          /\ \A q \in Paths \ {p} : external'[q] = external[q]
        BY <1>1, <1>7 DEF WriteValue, TypeOK, External
    <2>3. written' = [written EXCEPT ![p] = @ + 1]
        BY <2>2
    <2>4. Refs!Write(p)
        BY <2>1, <2>3 DEF Refs!Write
    <2>5. QED
        BY <2>4 DEF Refs!Next
<1>8. ASSUME NEW p \in Paths, DeleteValue(p)
      PROVE  UNCHANGED Refs!vars
    <2>1. shown' = shown /\ budget'.deploys = budget.deploys
        BY <1>4, <1>8, KeptShown DEF DeleteValue, EngineKept
    <2>2. \A q \in Paths : external'[q].val = external[q].val
        BY <1>1, <1>8 DEF DeleteValue, TypeOK, External
    <2>3. QED
        BY <2>1, <2>2 DEF Refs!vars
<1>9. CASE CreateUpdatedVersion
    <2>1. EngineKept
        <3>1. ASSUME NEW f \in fetched
              PROVE  VersionSecret(f.path, payload.listed[f.path], f.data) \in Secret
            BY <1>1, NewSecretType DEF TypeOK, Fetched, Payload, Listing
        <3>2. \A f \in fetched :
                VersionSecret(f.path, payload.listed[f.path], f.data).id = nextId
            BY DEF VersionSecret
        <3>3. QED
            BY <1>9, <3>1, <3>2 DEF CreateUpdatedVersion, EngineKept
    <2>2. external' = external /\ (Fault \/ UNCHANGED budget)
        BY <1>9 DEF CreateUpdatedVersion
    <2>3. QED
        BY <1>2, <1>4, <2>1, <2>2
<1>10. CASE ListServices \/ ListSecretsOfSwarm \/ \E p \in Paths : ProcessSameVersion(p)
    BY <1>2, <1>4, <1>10
        DEF ListServices, ListSecretsOfSwarm, ProcessSameVersion, EngineKept
<1>11. CASE \/ StartSync \/ LoadExternalState
            \/ \E p \in Paths : GetSecretPayload(p)
            \/ FinishProcess \/ FinishApply \/ FinishRemove \/ FinishRestore
            \/ PlanCleanup \/ Return \/ CallFails \/ Crash
    <2>1. external' = external /\ (Fault \/ UNCHANGED budget)
        BY <1>11 DEF StartSync, LoadExternalState, GetSecretPayload, FinishProcess,
                     FinishApply, FinishRemove, FinishRestore, PlanCleanup, Return,
                     CallFails, Crash
    <2>2. QED
        BY <1>1, <1>2, <1>4, <1>11, <2>1, LocalKept
<1>12. CASE CreateMissingSecret \/ RestoreParent \/ RemoveOldVersion
    <2>1. external' = external /\ (Fault \/ UNCHANGED budget)
        BY <1>12 DEF CreateMissingSecret, RestoreParent, RemoveOldVersion
    <2>2. QED
        BY <1>1, <1>2, <1>4, <1>12, <2>1, SecretStepsKept
<1>13. CASE \/ \E p \in Paths : OperatorCreates(p)
            \/ \E id \in {secret.id : secret \in secrets} : OperatorRemoves(id)
            \/ UNCHANGED vars
    <2>1. external' = external /\ (Spend("operator") \/ UNCHANGED budget)
        BY <1>13 DEF OperatorCreates, OperatorRemoves, vars
    <2>2. QED
        BY <1>1, <1>2, <1>4, <1>13, <2>1, EnvironmentKept
<1>14. QED
    BY <1>5, <1>6, <1>7, <1>8, <1>9, <1>10, <1>11, <1>12, <1>13
        DEF Next, SyncStep, Environment

\* At the start nothing is shown.
LEMMA InitRefines == Init => Refs!Init
<1> SUFFICES ASSUME Init PROVE Refs!Init
    OBVIOUS
<1>1. [p \in Paths |-> external[p].val] \in [Paths -> Nat]
    BY DEF Init
<1>2. \A s \in Services : Shown(s) = {}
    BY DEF Init, Shown
<1>3. budget.deploys \in Nat
    BY BoundsAssumption DEF Init
<1>4. QED
    BY <1>1, <1>2, <1>3 DEF Refs!Init

\* Whatever is created, rewritten, removed and restored, and whatever fails in
\* between, a service reads at each of its mounts a value of the mount's own
\* path, and only its owner changes which mounts it has.
THEOREM SynchronizerRefines == Spec => ImplementsSecretRefs
<1>1. RefsInv /\ [Next]_vars => RefsInv' /\ [Refs!Next]_Refs!vars
    BY NextRefsInv, StepRefines
<1>2. QED
    BY <1>1, InitRefsInv, InitRefines, PTL DEF Spec, ImplementsSecretRefs, Refs!Spec

LEMMA ConsistentRefs ==
    ASSUME RefsInv
    PROVE  RefsConsistent
<1>1. PICK name \in Naming : EngineAgrees(name, secrets, nextId, services)
    BY DEF RefsInv, Agreed
<1>2. QED
    BY <1>1 DEF RefsConsistent, EngineAgrees, RefAgrees, OfItsMount, OfPathNamed

\* No reference dangles or belongs to another path, and each has the name of
\* its secret.
THEOREM RefsStayConsistent == Spec => []RefsConsistent
<1>1. RefsInv => RefsConsistent
    BY ConsistentRefs
<1>2. QED
    BY <1>1, InitRefsInv, NextRefsInv, PTL DEF Spec

-----------------------------------------------------------------------------
(* Rewriting again what a failed attempt has rewritten changes nothing.      *)

\* A reference that the visit of a path finds in a service, and the moves that
\* it queues: to the parent, or to a new secret that nothing refers to yet.
Finds(pl, ref, p) == ref.name = p \/ ref.id \in pl.map[p].versions

Unseen(pl, s, id) ==
    /\ \A ref \in pl.services[s].refs : ref.id # id
    /\ \A p \in Paths : id \notin pl.map[p].versions

MoveOf(pl, s, move, p) ==
    /\ \E ref \in pl.services[s].refs : ref.id = move.from /\ Finds(pl, ref, p)
    /\ \/ pl.map[p].id # 0 /\ move.id = pl.map[p].id
       \/ Unseen(pl, s, move.id)

\* A path has its moves when it has been visited, so those of one path come
\* from one visit, and those of another path are about other ids.
TasksApart ==
    /\ pc \in {"idle", "list_services", "map_secrets", "list_external"} =>
            \A s \in Services : payload.tasks[s] = {}
    /\ pc \in Processing =>
            \A s \in Services : \A move \in payload.tasks[s] :
                \E p \in Paths : p \notin todo /\ MoveOf(payload, s, move, p)
    /\ pc \in {"create_secret", "create_version"} => \A f \in fetched : f.path \in todo
    /\ RewriteIsIdempotent

LEMMA CoreMoves ==
    ASSUME NEW pl, NEW new, SameCore(pl, new), NEW s \in Services, NEW move,
           NEW p \in Paths, MoveOf(pl, s, move, p)
    PROVE  MoveOf(new, s, move, p)
BY DEF SameCore, MoveOf, Finds, Unseen

\* Whoever has the id of a parent is found under no other path.
LEMMA ParentFound ==
    ASSUME Agreed, NEW p \in Paths, NEW q \in Paths, payload.map[q].id # 0,
           NEW s \in Services, NEW ref \in payload.services[s].refs,
           Finds(payload, ref, p), ref.id = payload.map[q].id
    PROVE  p = q
<1>1. PICK name \in Naming : PayloadAgrees(name, nextId, payload)
    BY DEF Agreed
<1>2. name[ref.id].path = q /\ name[ref.id].name = q
    BY <1>1 DEF PayloadAgrees, EntryAgrees, OfPathNamed
<1>3. CASE ref.name = p
    BY <1>1, <1>2, <1>3 DEF PayloadAgrees, RefAgrees
<1>4. CASE ref.id \in payload.map[p].versions
    BY <1>1, <1>2, <1>4 DEF PayloadAgrees, EntryAgrees
<1>5. QED
    BY <1>3, <1>4 DEF Finds

\* No move of a queued path leads to an id that another one replaces.
LEMMA EnqueuedApart ==
    ASSUME Agreed, NEW pl \in Payload, SameCore(payload, pl),
           NEW moved, NEW target, NEW p \in Paths,
           \/ payload.map[p].id # 0 /\ target.id = payload.map[p].id
           \/ \A s \in Services : Unseen(payload, s, target.id),
           \A s \in Services : \A id \in moved[s] :
                /\ id # target.id
                /\ \E ref \in payload.services[s].refs : ref.id = id /\ Finds(payload, ref, p),
           \A s \in Services : \A move \in payload.tasks[s] :
                \E q \in Paths : q # p /\ MoveOf(payload, s, move, q),
           RewriteIsIdempotent,
           NEW queued \in Enqueued(pl, moved, target)
    PROVE  \A s \in Services : \A move \in queued.tasks[s] :
                /\ move \in payload.tasks[s] \/ MoveOf(payload, s, move, p)
                /\ \A other \in queued.tasks[s] : move.id # other.from
<1> SUFFICES ASSUME NEW s \in Services, NEW move \in queued.tasks[s],
                    NEW other \in queued.tasks[s]
             PROVE  /\ move \in payload.tasks[s] \/ MoveOf(payload, s, move, p)
                    /\ move.id # other.from
    OBVIOUS
<1>1. \A m \in queued.tasks[s] :
        \/ m \in payload.tasks[s]
        \/ m.from \in moved[s] /\ m.id = target.id
    BY EnqueuedMoves DEF SameCore
<1>2. move \in payload.tasks[s] \/ MoveOf(payload, s, move, p)
    BY <1>1 DEF MoveOf
<1>3. CASE move \in payload.tasks[s] /\ other \in payload.tasks[s]
    BY <1>3 DEF RewriteIsIdempotent
<1>4. CASE move.id = target.id /\ other.from \in moved[s]
    BY <1>2, <1>4
<1>5. CASE move \in payload.tasks[s] /\ other.from \in moved[s]
    <2>1. PICK q \in Paths : q # p /\ MoveOf(payload, s, move, q)
        BY <1>5
    <2>2. PICK ref \in payload.services[s].refs :
                ref.id = other.from /\ Finds(payload, ref, p)
        BY <1>5
    <2>3. CASE payload.map[q].id # 0 /\ move.id = payload.map[q].id
        BY <1>2, <2>1, <2>2, <2>3, ParentFound
    <2>4. CASE Unseen(payload, s, move.id)
        BY <1>2, <2>2, <2>4 DEF Unseen
    <2>5. QED
        BY <2>1, <2>3, <2>4 DEF MoveOf
<1>6. CASE move.id = target.id /\ other \in payload.tasks[s]
    <2>1. PICK q \in Paths : q # p /\ MoveOf(payload, s, other, q)
        BY <1>6
    <2>2. PICK ref \in payload.services[s].refs :
                ref.id = other.from /\ Finds(payload, ref, q)
        BY <2>1 DEF MoveOf
    <2>3. CASE payload.map[p].id # 0 /\ target.id = payload.map[p].id
        BY <1>2, <1>6, <2>1, <2>2, <2>3, ParentFound
    <2>4. CASE Unseen(payload, s, target.id)
        BY <1>2, <1>6, <2>2, <2>4 DEF Unseen
    <2>5. QED
        BY <2>3, <2>4
<1>7. QED
    BY <1>1, <1>2, <1>3, <1>4, <1>5, <1>6

\* Steps that queue nothing, and after which no path is left to be visited or
\* fewer are.
LEMMA ApartQuiet ==
    ASSUME TasksApart,
           \/ \A s \in Services : payload'.tasks[s] = {}
           \/ payload'.tasks = payload.tasks,
           pc' \in {"idle", "list_services", "map_secrets", "list_external"} =>
                \A s \in Services : payload'.tasks[s] = {},
           pc' \in Processing =>
                \/ \A s \in Services : payload'.tasks[s] = {}
                \/ /\ pc \in Processing /\ SameCore(payload, payload')
                   /\ todo' \subseteq todo,
           pc' \in {"create_secret", "create_version"} =>
                \A f \in fetched' : f.path \in todo'
    PROVE  TasksApart'
<1>1. RewriteIsIdempotent'
    BY DEF TasksApart, RewriteIsIdempotent
<1>2. ASSUME pc' \in Processing, NEW s \in Services, NEW move \in payload'.tasks[s]
      PROVE  \E p \in Paths : p \notin todo' /\ MoveOf(payload', s, move, p)
    <2>1. /\ pc \in Processing /\ SameCore(payload, payload')
          /\ todo' \subseteq todo /\ move \in payload.tasks[s]
        BY <1>2 DEF SameCore
    <2>2. PICK p \in Paths : p \notin todo /\ MoveOf(payload, s, move, p)
        BY <2>1 DEF TasksApart
    <2>3. QED
        BY <2>1, <2>2, CoreMoves
<1>3. QED
    BY <1>1, <1>2 DEF TasksApart

\* An error ends the visits.
LEMMA ApartError ==
    ASSUME TypeOK, TasksApart, NEW pl \in Payload, StepError(pl),
           pl.tasks = payload.tasks
    PROVE  TasksApart'
<1>1. payload'.tasks = payload.tasks /\ todo' = todo /\ fetched' = fetched
    BY StepErrorCore, StepErrorKeeps DEF SameCore
<1>2. \/ pc' \in {"done", "failed", "apply", "relist_services"}
      \/ pc = "list_external" /\ pc' = "list_external"
    BY BoundsAssumption DEF StepError, TypeOK, RetriesOf, StepStart, Go
<1>3. QED
    BY <1>1, <1>2, ApartQuiet DEF TasksApart, Processing

\* A visited path is visited no more.
LEMMA ApartVisited ==
    ASSUME Agreed, TasksApart, pc \in Processing,
           NEW p \in todo, p \in Paths, todo' = todo \ {p}, pc' = "process",
           NEW pl \in Payload, SameCore(payload, pl), NEW moved, NEW target,
           \/ payload.map[p].id # 0 /\ target.id = payload.map[p].id
           \/ \A s \in Services : Unseen(payload, s, target.id),
           \A s \in Services : \A id \in moved[s] :
                /\ id # target.id
                /\ \E ref \in payload.services[s].refs : ref.id = id /\ Finds(payload, ref, p),
           NEW queued \in Enqueued(pl, moved, target), SameCore(queued, payload')
    PROVE  TasksApart'
<1>1. \A s \in Services : \A move \in payload.tasks[s] :
        \E q \in Paths : q \notin todo /\ q # p /\ MoveOf(payload, s, move, q)
    BY DEF TasksApart
<1>2. \A s \in Services : \A move \in queued.tasks[s] :
        /\ move \in payload.tasks[s] \/ MoveOf(payload, s, move, p)
        /\ \A other \in queued.tasks[s] : move.id # other.from
    BY <1>1, EnqueuedApart DEF TasksApart
<1>3. payload'.tasks = queued.tasks
    BY DEF SameCore
<1>4. \A s \in Services : \A move \in payload'.tasks[s] :
        \E q \in Paths : q \notin todo' /\ MoveOf(payload, s, move, q)
    BY <1>1, <1>2, <1>3
<1>5. queued.services = pl.services /\ queued.map = pl.map
    BY EnqueuedKeeps
<1>6. \A move : \A s \in Services, q \in Paths :
        MoveOf(payload, s, move, q) => MoveOf(payload', s, move, q)
    BY <1>5 DEF MoveOf, Finds, Unseen, SameCore
<1>7. RewriteIsIdempotent'
    BY <1>2, <1>3 DEF RewriteIsIdempotent
<1>8. QED
    BY <1>4, <1>6, <1>7 DEF TasksApart

LEMMA ProcessSameVersionApart ==
    ASSUME TypeOK, Agreed, TasksApart, NEW p \in Paths, ProcessSameVersion(p)
    PROVE  TasksApart'
<1> DEFINE moved == [s \in Services |-> SameVersionRefs(s, p)]
           target == BackToParent(p)
<1>1. /\ payload \in Payload /\ SameCore(payload, payload)
      /\ payload.map[p].id # 0 /\ target.id = payload.map[p].id
      /\ pc = "process" /\ pc' = "process" /\ p \in todo /\ todo' = todo \ {p}
    BY DEF TypeOK, ProcessSameVersion, SameVersion, IsMissing, BackToParent, SameCore
<1>2. \A s \in Services : \A id \in moved[s] :
        /\ id # target.id
        /\ \E ref \in payload.services[s].refs : ref.id = id /\ Finds(payload, ref, p)
    BY DEF SameVersionRefs, BackToParent, UsesSecret, Finds
<1>3. PICK queued \in Enqueued(payload, moved, target) : SameCore(queued, payload')
    BY ProcessSameVersionQueues
<1> HIDE DEF moved, target
<1>4. pc \in Processing
    BY <1>1 DEF Processing
<1>5. QED
    BY <1>1, <1>2, <1>3, <1>4, ApartVisited

\* The id of a new secret is not one that was read.
LEMMA NextUnseen ==
    ASSUME TypeOK, Agreed, NEW s \in Services
    PROVE  Unseen(payload, s, nextId)
<1>1. PICK name \in Naming : PayloadAgrees(name, nextId, payload)
    BY DEF Agreed
<1>2. \A ref \in payload.services[s].refs : ref.id \in Nat /\ ref.id < nextId
    BY <1>1 DEF PayloadAgrees, RefAgrees, TypeOK, Payload, Service, Ref
<1>3. \A p \in Paths : \A id \in payload.map[p].versions : id \in Nat /\ id < nextId
    BY <1>1 DEF PayloadAgrees, EntryAgrees, TypeOK, Payload, ExistingSecret
<1>4. nextId \in Nat /\ ~(nextId < nextId)
    BY DEF TypeOK, EngineTypeOK
<1>5. QED
    BY <1>2, <1>3, <1>4 DEF Unseen

LEMMA CreateUpdatedVersionApart ==
    ASSUME TypeOK, Agreed, TasksApart, CreateUpdatedVersion
    PROVE  TasksApart'
<1> PICK f \in fetched :
        \/ /\ payload' \in UpdatePlanned(payload, f.path, f.data)
           /\ pc' = "process" /\ todo' = todo \ {f.path}
        \/ StepError(payload)
    BY DEF CreateUpdatedVersion, Go
<1> DEFINE p == f.path
           moved  == [s \in Services |-> UpdatedRefs(s, p)]
           target == NewVersion(p)
<1>1. /\ p \in Paths /\ f.data \in Nat
      /\ payload \in Payload /\ pc = "create_version" /\ p \in todo /\ pc \in Processing
    BY DEF TypeOK, Fetched, TasksApart, CreateUpdatedVersion, Processing
<1>2. CASE /\ payload' \in UpdatePlanned(payload, p, f.data)
           /\ pc' = "process" /\ todo' = todo \ {p}
    <2>1. \A s \in Services : Unseen(payload, s, target.id)
        BY NextUnseen DEF NewVersion
    <2>2. \A s \in Services : \A id \in moved[s] :
            \E ref \in payload.services[s].refs : ref.id = id /\ Finds(payload, ref, p)
        BY DEF UpdatedRefs, UsesSecret, Finds
    <2>3. \A s \in Services : \A id \in moved[s] : id # target.id
        BY <2>1, <2>2 DEF Unseen
    <2>4. PICK planned \in Payload :
            /\ SameCore(payload, planned)
            /\ \E queued \in Enqueued(planned, moved, target) :
                    queued \in Payload /\ SameCore(queued, payload')
        BY <1>1, <1>2, UpdatePlannedQueues
    <2>5. PICK queued \in Enqueued(planned, moved, target) :
            SameCore(queued, payload')
        BY <2>4
    <2> HIDE DEF p, moved, target
    <2>6. QED
        BY <1>1, <1>2, <2>1, <2>2, <2>3, <2>4, <2>5, ApartVisited
<1>3. CASE StepError(payload)
    BY <1>1, <1>3, ApartError
<1>4. QED
    BY <1>2, <1>3

\* The rest of the pipeline.
LEMMA PipelineApart ==
    ASSUME TypeOK, TasksApart,
           \/ StartSync \/ ListServices \/ ListSecretsOfSwarm \/ LoadExternalState
           \/ \E p \in Paths : GetSecretPayload(p)
           \/ CreateMissingSecret \/ ApplyServiceUpdate \/ RestoreParent
           \/ RemoveOldVersion \/ FinishProcess \/ FinishApply \/ FinishRemove
           \/ FinishRestore \/ PlanCleanup \/ Return \/ CallFails \/ Crash
    PROVE  TasksApart'
<1>1. payload \in Payload
    BY DEF TypeOK
<1>2. CASE StartSync \/ Return \/ Crash
    <2>1. \A s \in Services : payload'.tasks[s] = {}
        BY <1>2 DEF StartSync, Return, Crash, Forget, NewPayload
    <2>2. pc' \in {"idle", "list_services"}
        BY <1>2 DEF StartSync, Return, Crash, Go
    <2>3. QED
        BY <2>1, <2>2, ApartQuiet DEF Processing
<1>3. CASE ListServices \/ ListSecretsOfSwarm \/ LoadExternalState
    <2>1. payload'.tasks = payload.tasks
        BY <1>1, <1>3 DEF ListServices, ListSecretsOfSwarm, LoadExternalState, Payload
    <2>2. \/ pc \in {"list_services", "map_secrets", "list_external"}
            /\ pc' \in {"map_secrets", "list_external", "process"}
          \/ pc' \in {"remap_secrets", "plan_cleanup"}
        BY <1>3 DEF ListServices, ListSecretsOfSwarm, LoadExternalState, Go
    <2>3. QED
        BY <2>1, <2>2, ApartQuiet DEF TasksApart, Processing
<1>4. ASSUME NEW p \in Paths, GetSecretPayload(p)
      PROVE  TasksApart'
    <2>1. CASE /\ payload' = payload /\ todo' = todo /\ pc' \in {"create_secret", "create_version"}
               /\ fetched' = {[path |-> p, data |-> external[p].val]}
        <3>1. pc = "process" /\ p \in todo
            BY <1>4 DEF GetSecretPayload
        <3>2. QED
            BY <2>1, <3>1, ApartQuiet DEF SameCore, Processing
    <2>2. CASE StepError(payload)
        BY <1>1, <2>2, ApartError
    <2>3. QED
        BY <1>4, <2>1, <2>2 DEF GetSecretPayload, Go
<1>5. CASE CreateMissingSecret
    <2>1. CASE payload' = Counted(payload, "created") /\ pc' = "process" /\ todo' \subseteq todo
        <3>1. pc = "create_secret"
            BY <1>5 DEF CreateMissingSecret
        <3>2. SameCore(payload, payload')
            BY <1>1, <2>1 DEF SameCore, Counted, Payload
        <3>3. QED
            BY <2>1, <3>1, <3>2, ApartQuiet DEF SameCore, Processing
    <2>2. CASE StepError(payload)
        BY <1>1, <2>2, ApartError
    <2>3. QED
        BY <1>5, <2>1, <2>2 DEF CreateMissingSecret, Go
<1>6. CASE CallFails
    BY <1>1, <1>6, ApartError DEF CallFails
<1>7. CASE ApplyServiceUpdate
    <2>1. pc = "apply"
        BY <1>7 DEF ApplyServiceUpdate
    <2>2. CASE payload'.tasks = payload.tasks /\ pc' = pc
        BY <2>1, <2>2, ApartQuiet DEF Processing
    <2>3. QED
        BY <1>7, <2>2, ApplyKeeps, ApartError
<1>8. CASE RemoveOldVersion
    <2>1. pc \in {"remove", "cleanup"}
        BY <1>8 DEF RemoveOldVersion
    <2>2. CASE payload'.tasks = payload.tasks /\ pc' = pc
        BY <2>1, <2>2, ApartQuiet DEF Processing
    <2>3. QED
        BY <1>1, <1>8, <2>2, RemoveKeeps, ApartError
<1>9. CASE RestoreParent
    <2>1. CASE payload' = [payload EXCEPT !.restores = Tail(@)] /\ pc' = pc
        <3>1. payload'.tasks = payload.tasks
            BY <1>1, <2>1 DEF Payload
        <3>2. QED
            BY <1>9, <2>1, <3>1, ApartQuiet DEF RestoreParent, Processing
    <2>2. CASE StepError(payload)
        BY <1>1, <2>2, ApartError
    <2>3. QED
        BY <1>9, <2>1, <2>2 DEF RestoreParent
<1>10. CASE FinishProcess \/ FinishApply \/ FinishRemove \/ FinishRestore \/ PlanCleanup
    <2>1. pc' \in {"apply", "remove", "restore", "relist_services", "cleanup", "done"}
        BY <1>10 DEF FinishProcess, FinishApply, FinishRemove, FinishRestore, PlanCleanup,
                     Go, AfterProcess, AfterApply, AfterRemove, AfterRestore
    <2>2. payload'.tasks = payload.tasks
        BY <1>1, <1>10 DEF FinishProcess, FinishApply, FinishRemove, FinishRestore,
                           PlanCleanup, Payload
    <2>3. QED
        BY <2>1, <2>2, ApartQuiet DEF Processing
<1>11. QED
    BY <1>2, <1>3, <1>4, <1>5, <1>6, <1>7, <1>8, <1>9, <1>10

LEMMA InitApart == Init => TasksApart
BY DEF Init, NewPayload, TasksApart, RewriteIsIdempotent

LEMMA NextApart == TypeOK /\ Agreed /\ TasksApart /\ [Next]_vars => TasksApart'
<1> SUFFICES ASSUME TypeOK, Agreed, TasksApart, [Next]_vars
             PROVE  TasksApart'
    OBVIOUS
<1>1. ASSUME NEW p \in Paths, ProcessSameVersion(p)
      PROVE  TasksApart'
    BY <1>1, ProcessSameVersionApart
<1>2. CASE CreateUpdatedVersion
    BY <1>2, CreateUpdatedVersionApart
<1>3. CASE Environment \/ UNCHANGED vars
    <2>1. UNCHANGED <<pc, payload, todo, fetched>>
        BY <1>3 DEF Environment, WriteValue, DeleteValue, OperatorCreates, Deploy,
                    OperatorRemoves, vars, syncVars
    <2>2. QED
        BY <2>1, ApartQuiet DEF TasksApart, SameCore
<1>4. CASE \/ StartSync \/ ListServices \/ ListSecretsOfSwarm \/ LoadExternalState
           \/ \E p \in Paths : GetSecretPayload(p)
           \/ CreateMissingSecret \/ ApplyServiceUpdate \/ RestoreParent
           \/ RemoveOldVersion \/ FinishProcess \/ FinishApply \/ FinishRemove
           \/ FinishRestore \/ PlanCleanup \/ Return \/ CallFails \/ Crash
    BY <1>4, PipelineApart
<1>5. QED
    BY <1>1, <1>2, <1>3, <1>4 DEF Next, SyncStep

\* A retry of apply_service_updates starts from references that the failed
\* attempt may have rewritten, and rewrites none of them again.
THEOREM RetriesRewriteOnce == Spec => []RewriteIsIdempotent
<1> DEFINE Inv == RefsInv /\ TasksApart
<1>1. Init => Inv
    BY InitRefsInv, InitApart
<1>2. Inv /\ [Next]_vars => Inv'
    BY NextRefsInv, NextApart DEF RefsInv
<1>3. Inv => RewriteIsIdempotent
    BY DEF TasksApart
<1>4. QED
    BY <1>1, <1>2, <1>3, PTL DEF Spec

=============================================================================
