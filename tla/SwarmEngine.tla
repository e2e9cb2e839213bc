----------------------------- MODULE SwarmEngine -----------------------------
(***************************************************************************)
(* The Docker Swarm objects that cloud-secrets manages and the operations   *)
(* of engine.Client (src/internal/engine) on them.                          *)
(*                                                                         *)
(* What Docker itself does (unique names, refusing to remove a secret that  *)
(* a service uses, optimistic service versions) is not under src/: it is    *)
(* modelled from how the client uses it and marked external in the map.     *)
(* What the client computes (the labels of a secret, MapSecrets) is         *)
(* translated from docker.go.                                               *)
(*                                                                         *)
(* Abstractions.  A name is the sequence of its parts between delimiters,    *)
(* and a part may be a number: "db-2" is <<db, 2>>, the logical path of one  *)
(* secret and the name of version 2 of another.  Time stamps are the ids,   *)
(* which Docker hands out in creation order (cloud-secrets never updates a  *)
(* secret in place).  A payload is the number of the external write that    *)
(* produced it.                                                             *)
(***************************************************************************)
EXTENDS Naturals, Sequences

CONSTANTS
    Words,      \* the parts of names that are not numbers
    Paths,      \* logical secret paths, folded: the manager has one secret for each
    TooLong,    \* path and version: the name would have more than MaxLength characters
    Services    \* Swarm services

ASSUME NamesAssumption ==
    /\ 0 \notin Words
    /\ Paths \subseteq Seq(Words \cup (Nat \ {0})) \ {<<>>}
    /\ TooLong \subseteq Paths \X Nat

VARIABLES
    secrets,    \* the live Docker secrets, a set of Secret records
    nextId,     \* the id the next Docker secret gets
    services    \* service -> its version and its secret references

engineVars == <<secrets, nextId, services>>

Name == Seq(Words \cup Nat)

\* label = 0: the label external_version_id is missing.
Secret == [id      : Nat \ {0},
           path    : Paths,      \* label logical_path
           parent  : BOOLEAN,    \* the name is the logical path itself
           label   : Nat,        \* label external_version_id
           data    : Nat,        \* the payload
           managed : BOOLEAN]    \* label cloud-secrets.secret.managed

\* mount is the target the service reads the secret at: one per logical path.
Ref == [mount : Paths, id : Nat, name : Name]

Service == [version : Nat, refs : SUBSET Ref]

\* Every id in use has been handed out.
EngineTypeOK ==
    /\ secrets \subseteq Secret
    /\ nextId \in Nat \ {0}
    /\ \A secret \in secrets : secret.id < nextId
    /\ services \in [Services -> Service]

\* secretname.Generate: the folded path and the version, or a random name that
\* nothing else has, for which the id of its secret stands.
Generate(path, version, id) ==
    IF <<path, version>> \in TooLong THEN <<0, id>> ELSE Append(path, version)

NameOf(secret) ==
    IF secret.parent THEN secret.path
    ELSE Generate(secret.path, secret.label, secret.id)

Live(id) == \E secret \in secrets : secret.id = id

InUse(id) == \E s \in Services : \E ref \in services[s].refs : ref.id = id

NameTaken(name) == \E secret \in secrets : NameOf(secret) = name

-----------------------------------------------------------------------------
(* Mutating calls: each is the effect of an accepted request; its guard is   *)
(* what Docker requires to accept it.                                        *)

\* SecretCreate.  Both constructors below set the managed label.
AddSecret(secret) ==
    /\ ~NameTaken(NameOf(secret))
    /\ secrets' = secrets \cup {secret}
    /\ nextId' = nextId + 1
    /\ UNCHANGED services

\* CreateSecret: name and logical_path are the spec's path.
ParentSecret(path, label, data) ==
    [id |-> nextId, path |-> path, parent |-> TRUE,
     label |-> label, data |-> data, managed |-> TRUE]

\* CreateSecretVersion: a name of its own, logical_path of its parent.
VersionSecret(path, label, data) ==
    [id |-> nextId, path |-> path, parent |-> FALSE,
     label |-> label, data |-> data, managed |-> TRUE]

\* RemoveSecret, when the secret is there and no service refers to it.
RemoveSecret(id) ==
    /\ Live(id)
    /\ ~InUse(id)
    /\ secrets' = {secret \in secrets : secret.id # id}
    /\ UNCHANGED <<nextId, services>>

\* UpdateService: version is the one the caller read with the specification.
UpdateAccepted(s, version, refs) ==
    /\ services[s].version = version
    /\ \A ref \in refs : Live(ref.id)

UpdateService(s, version, refs) ==
    /\ UpdateAccepted(s, version, refs)
    /\ services' = [services EXCEPT ![s] = [version |-> version + 1,
                                            refs    |-> refs]]
    /\ UNCHANGED <<secrets, nextId>>

-----------------------------------------------------------------------------
(* MapSecrets: the secrets grouped by logical path.                          *)

\* id = 0: the map has no entry for the path.
ExistingSecret == [id       : Nat,
                   managed  : BOOLEAN,
                   versions : SUBSET Nat,   \* ids, the parent's among them
                   latest   : Nat]          \* ExternalID of LatestVersion()

Unmapped == [id |-> 0, managed |-> FALSE, versions |-> {}, latest |-> 0]

OfPath(path) == {secret \in secrets : secret.path = path}

ParentsOf(path) == {secret \in OfPath(path) : secret.parent}

\* Mutant of Latest: updatedAt compared the wrong way round.
Earliest(path) == CHOOSE secret \in OfPath(path) :
                      \A other \in OfPath(path) : secret.id <= other.id

\* The most recently created secret of the path, parent or version.
Latest(path) == CHOOSE secret \in OfPath(path) :
                    \A other \in OfPath(path) : other.id <= secret.id

\* The second pass drops the versions of a path that has no parent.
MapSecrets ==
    [path \in Paths |->
        IF ParentsOf(path) = {} THEN Unmapped
        ELSE [id       |-> (CHOOSE secret \in ParentsOf(path) : TRUE).id,
              managed  |-> \E secret \in OfPath(path) : secret.managed,
              versions |-> {secret.id : secret \in OfPath(path)},
              latest   |-> Latest(path).label]]

=============================================================================
