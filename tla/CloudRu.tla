------------------------------- MODULE CloudRu -------------------------------
(***************************************************************************)
(* The Cloud.ru provider (src/internal/providers/cloudru/secret.go): paths  *)
(* go from requests to the manager and back through the configured root     *)
(* folder, while other clients of the manager change the same secrets.      *)
(*                                                                         *)
(* A path is the sequence of its segments: "/a//b" is <<"", "a", "", "b">>, *)
(* so that trimming, splitting and prefixes are those of the code.  Cloud.ru *)
(* itself is external: a secret is the sequence of its versions, each       *)
(* enabled or not; Search shows a folder at one instant with the newest     *)
(* version first, Access answers with the newest enabled one.  A payload is *)
(* known by its secret and version.                                         *)
(***************************************************************************)
EXTENDS Naturals, Sequences, FiniteSetsExt, SequencesExt

CONSTANTS
    Roots,          \* values of CLOUDRU_ROOT_FOLDER, trimmed as on reading
    Places,         \* full paths at which the project may have a secret
    Requests,       \* paths that Create is called with
    MaxVersions,    \* bound: versions of a secret
    MaxWrites,      \* bound: changes by other clients
    MaxCreates,     \* bound: calls of Create
    MaxFaults       \* bound: failed requests and lost replies

ASSUME CloudRuAssumption ==
    /\ {MaxVersions, MaxWrites, MaxCreates, MaxFaults} \subseteq Nat
    /\ Roots \cup Places \cup Requests \subseteq Seq(STRING)
    /\ \A root \in Roots \ {<<>>} : root[1] # "" /\ root[Len(root)] # ""
    /\ \A place \in Places : place # <<>> /\ "" \notin {place[i] : i \in DOMAIN place}

VARIABLES
    config,     \* root and omit: the configuration of the process
    store,      \* full path -> the versions, oldest first; <<>>: no secret
    pc,         \* the reader: a synchronization
    listed,     \* what ListSecrets returned to it
    got,        \* the payload it has just read, at most one
    since,      \* what others did to a secret since that list
    created,    \* the creation acknowledged last, at most one
    budget

vars == <<config, store, pc, listed, got, since, created, budget>>

\* contracts.Secret
Secret == [path : Seq(STRING), full : Places, ver : Nat]

Spend(kind) == budget[kind] > 0 /\ budget' = [budget EXCEPT ![kind] = @ - 1]

-----------------------------------------------------------------------------
(* Paths.                                                                    *)

\* strings.Trim(path, "/")
Trim(path) ==
    LET named == {i \in DOMAIN path : path[i] # ""}
    IN IF named = {} THEN <<>> ELSE SubSeq(path, Min(named), Max(named))

Scoped == config.omit /\ config.root # <<>>

Inside(path) == IsStrictPrefix(config.root, path)

\* Mutant of resolveSecretPath: the root is not added.
resolveSecretPathAsIs(path) == path

\* The full path of a logical one.  One that starts with the root is taken
\* for a full path.
resolveSecretPath(path) ==
    LET trimmed == Trim(path)
    IN IF ~Scoped THEN path
       ELSE IF trimmed = config.root \/ Inside(trimmed) THEN trimmed
       ELSE config.root \o trimmed

\* Mutant of scopeSecretPath: the root's name is cut out wherever it is.
scopeSecretPathAll(path) ==
    {SelectSeq(Trim(path), LAMBDA segment :
        ~Scoped \/ \A i \in DOMAIN config.root : segment # config.root[i])}

\* The logical path of a full one, as a set: empty if there is none.
scopeSecretPath(path) ==
    LET trimmed == Trim(path)
    IN IF ~Scoped THEN {trimmed}
       ELSE IF Inside(trimmed)
            THEN {SubSeq(trimmed, Len(config.root) + 1, Len(trimmed))}
            ELSE {}

\* Mutant of Allowed: the root folder itself is let through.
AllowedRoot(path) ==
    config.root # <<>> /\ ~config.omit => IsPrefix(config.root, path)

\* Without omission a request names the root itself.
Allowed(path) == config.root # <<>> /\ ~config.omit => Inside(path)

\* Where Create puts a secret, and the path it answers with; empty if the
\* request is refused.
createSecretPath(value) ==
    LET normalized == Trim(value)
        full       == resolveSecretPath(normalized)
    IN IF \/ normalized = <<>>
          \/ \E i \in DOMAIN normalized : normalized[i] \in {"", ".", ".."}
          \/ ~Allowed(normalized)
       THEN {}
       ELSE {[path |-> path, full |-> full] : path \in scopeSecretPath(full)}

-----------------------------------------------------------------------------
(* Cloud.ru.                                                                 *)

\* Search: the secrets inside the root folder, at any depth.
Found == {place \in Places : store[place] # <<>> /\ Inside(place)}

Enabled(place) == {i \in DOMAIN store[place] : store[place][i]}

\* The ids as Search lists them.
Versions(place) == Reverse([i \in DOMAIN store[place] |-> i])

\* Access: the version that it answers with.
Accessed(place) == Max(Enabled(place))

Accessible(place) == place \in Places /\ Enabled(place) # {}

-----------------------------------------------------------------------------
(* ListSecrets and GetSecretPayload.                                         *)

\* Where an enabled version is listed.
EnabledAt(place) ==
    {i \in DOMAIN Versions(place) : store[place][Versions(place)[i]]}

\* Mutant of secretLatestVersionID: the list is read from its end.
secretLatestVersionIDOldest(place) == Versions(place)[Max(EnabledAt(place))]

\* The first enabled one of the list.
secretLatestVersionID(place) == Versions(place)[Min(EnabledAt(place))]

mapSecret(place) ==
    {[path |-> path, full |-> place, ver |-> secretLatestVersionID(place)] :
        path \in scopeSecretPath(place)}

\* One secret without an enabled version fails the whole list.
ListSecrets ==
    /\ pc = "idle"
    /\ \/ /\ \A place \in Found : Enabled(place) # {}
          /\ pc' = "listed"
          /\ listed' = UNION {mapSecret(place) : place \in Found}
          /\ created' = {[c EXCEPT !.listed = TRUE] : c \in created}
       \/ /\ \E place \in Found : Enabled(place) = {}
          /\ pc' = "failed"
          /\ UNCHANGED <<listed, created>>
    /\ since' = [place \in Places |-> "nothing"]
    /\ UNCHANGED <<config, store, got, budget>>

\* processExternalSecrets asks by the logical path.
GetSecretPayload(secret) ==
    LET place == resolveSecretPath(secret.path)
    IN /\ pc = "listed"
       /\ \/ /\ Accessible(place)
             /\ got' = {[secret |-> secret, full |-> place, ver |-> Accessed(place)]}
             /\ UNCHANGED pc
          \/ ~Accessible(place) /\ pc' = "failed" /\ UNCHANGED got
       /\ UNCHANGED <<config, store, listed, since, created, budget>>

RequestFails ==
    /\ pc \in {"idle", "listed"}
    /\ Spend("faults")
    /\ pc' = "failed"
    /\ UNCHANGED <<config, store, listed, got, since, created>>

Return ==
    /\ pc \in {"listed", "failed"}
    /\ pc' = "idle"
    /\ listed' = {}
    /\ got' = {}
    /\ UNCHANGED <<config, store, since, created, budget>>

-----------------------------------------------------------------------------
(* CreateSecret, a handler of its own.  What it refuses changes nothing.     *)
(* A secret may have been created although the reply is lost.                *)

\* How a change of a secret looks to the reader.
Seen(place, change) ==
    since' = [since EXCEPT ![place] = IF @ = "lost" THEN @ ELSE change]

CreateSecret(request) ==
    \E target \in createSecretPath(request) :
        /\ target.full \in Places
        /\ store[target.full] = <<>>
        /\ store' = [store EXCEPT ![target.full] = <<TRUE>>]
        /\ \/ /\ Spend("creates")
              /\ created' = {[path   |-> target.path, full |-> target.full,
                              listed |-> FALSE]}
           \/ Spend("faults") /\ UNCHANGED created
        /\ Seen(target.full, "written")
        /\ UNCHANGED <<config, pc, listed, got>>

\* A secret that is there is not touched, whoever made it: a retry after a
\* lost reply is told so too.
CreateExisting(request) ==
    \E target \in createSecretPath(request) :
        /\ target.full \in Places
        /\ store[target.full] # <<>>
        /\ Spend("creates")
        /\ UNCHANGED <<config, store, pc, listed, got, since, created>>

-----------------------------------------------------------------------------
(* Other clients of the manager.                                             *)

AddVersion(place) ==
    /\ Len(store[place]) < MaxVersions
    /\ Spend("writes")
    /\ store' = [store EXCEPT ![place] = Append(@, TRUE)]
    /\ Seen(place, "written")
    /\ UNCHANGED <<config, pc, listed, got, created>>

Enable(place, i) ==
    /\ ~store[place][i]
    /\ Spend("writes")
    /\ store' = [store EXCEPT ![place][i] = TRUE]
    /\ Seen(place, "written")
    /\ UNCHANGED <<config, pc, listed, got, created>>

Disable(place, i) ==
    /\ store[place][i]
    /\ Spend("writes")
    /\ store' = [store EXCEPT ![place][i] = FALSE]
    /\ Seen(place, "lost")
    /\ created' = {c \in created : c.full # place}
    /\ UNCHANGED <<config, pc, listed, got>>

Delete(place) ==
    /\ store[place] # <<>>
    /\ Spend("writes")
    /\ store' = [store EXCEPT ![place] = <<>>]
    /\ Seen(place, "lost")
    /\ created' = {c \in created : c.full # place}
    /\ UNCHANGED <<config, pc, listed, got>>

-----------------------------------------------------------------------------

\* Validate: nothing can be omitted without a root.
Valid(c) == c.omit => c.root # <<>>

Init ==
    /\ config \in {c \in [root : Roots, omit : BOOLEAN] : Valid(c)}
    /\ store \in [Places -> {<<>>, <<TRUE>>}]
    /\ pc = "idle"
    /\ listed = {}
    /\ got = {}
    /\ since = [place \in Places |-> "nothing"]
    /\ created = {}
    /\ budget = [writes |-> MaxWrites, creates |-> MaxCreates, faults |-> MaxFaults]

Provider ==
    \/ ListSecrets
    \/ \E secret \in listed : GetSecretPayload(secret)
    \/ RequestFails \/ Return
    \/ \E request \in Requests : CreateSecret(request) \/ CreateExisting(request)

Others ==
    \E place \in Places :
        \/ AddVersion(place) \/ Delete(place)
        \/ \E i \in DOMAIN store[place] : Enable(place, i) \/ Disable(place, i)

Next == Provider \/ Others

Spec == Init /\ [][Next]_vars

-----------------------------------------------------------------------------
(* Properties.                                                               *)

\* Every variable has its type, and no two listed secrets have one path.
TypeOK ==
    /\ Valid(config) /\ config \in [root : Roots, omit : BOOLEAN]
    /\ store \in [Places -> Seq(BOOLEAN)]
    /\ pc \in {"idle", "listed", "failed"}
    /\ listed \subseteq Secret
    /\ \A secret, other \in listed : secret.path = other.path => secret = other
    /\ got \subseteq [secret : listed, full : Places, ver : Nat]
    /\ since \in [Places -> {"nothing", "written", "lost"}]
    /\ created \subseteq [path : Seq(STRING), full : Places, listed : BOOLEAN]
    /\ budget \in [writes : Nat, creates : Nat, faults : Nat]

\* A logical path that is taken for a full one: inside the root there is a
\* folder with the root's name.
Ambiguous(path) == Scoped /\ IsPrefix(config.root, path)

\* The payload read for a listed secret is that secret's, and of the listed
\* version or, if there has been one since, a newer one.  Excepted are
\* versions that were disabled or deleted in between, and a folder inside the
\* root that repeats the root's name: its secrets are delivered the payload of
\* another one.
PayloadIsOfListed ==
    \A read \in got :
        ~Ambiguous(read.secret.path) =>
            /\ read.full = read.secret.full
            /\ since[read.full] = "nothing" => read.ver = read.secret.ver
            /\ since[read.full] = "written" => read.ver >= read.secret.ver

\* Create only makes secrets inside the configured scope, whatever the request
\* looks like: strictly below the root, with no empty or relative segment after
\* it.  The segments of the root itself are the operator's.
CreatedInScope ==
    \A c \in created :
        /\ Inside(c.full)
        /\ \A i \in DOMAIN c.full :
                i > Len(config.root) => c.full[i] \notin {"", ".", ".."}

\* The path that Create answers with is the one the secret is listed under
\* from then on, and the one that leads to it when it is read or created
\* again, with the exception above.
CreatedIsListed ==
    \A c \in created :
        /\ pc = "listed" /\ c.listed =>
                \E secret \in listed : secret.path = c.path /\ secret.full = c.full
        /\ ~Ambiguous(c.path) =>
                /\ resolveSecretPath(c.path) = c.full
                /\ \A target \in createSecretPath(c.path) : target.full = c.full

=============================================================================
