------------------------------ MODULE VaultWalk ------------------------------
(***************************************************************************)
(* Provider.ListSecrets (src/internal/providers/vault): a walk over the     *)
(* folders of a Vault KV v2 engine with one request for every folder and    *)
(* every document, while others write, delete and remove documents.         *)
(*                                                                         *)
(* A path is the sequence of its segments: what joinPath puts together and  *)
(* parseSecretPath takes apart again.  A name can be that of a document and *)
(* that of a folder.  Vault is modelled from how the client uses it: a      *)
(* folder is listed as long as there is a document under it, a document as  *)
(* long as its metadata is there, also if its current version is deleted    *)
(* (it then reads as a document without keys) or if it never had one (it    *)
(* then reads as not found).                                                *)
(***************************************************************************)
EXTENDS Naturals, Sequences, FiniteSets

CONSTANTS
    Documents,      \* paths of the documents that there can be
    Keys,           \* keys of a document
    Unsupported,    \* the keys that are empty or contain a slash
    MaxFaults,      \* bound: requests that fail
    MaxWrites       \* bound: changes of the engine

ASSUME WalkAssumption ==
    /\ Documents \subseteq Seq(STRING) \ {<< >>}
    /\ Keys \subseteq STRING
    /\ Unsupported \subseteq Keys
    /\ {MaxFaults, MaxWrites} \subseteq Nat

VARIABLES
    docs,           \* the engine
    pc,             \* the request that is next, or how the walk ended
    pathsToScan,    \* folders that are still to be listed
    seenPaths,      \* folders that were
    pending,        \* documents of the last of them that are still to be read
    secrets,        \* the version of each secret listed, 0: it is not
    err,            \* the error of a walk that failed
    was,            \* what each document has been since the walk began
    budget          \* what the environment may still do

walkVars == <<pc, pathsToScan, seenPaths, pending, secrets, err>>
vars == <<docs, walkVars, was, budget>>

PC == {"idle", "list", "get", "done", "failed"}
Errors == {"none", "not_found", "unsupported", "call"}
State == [exists : BOOLEAN, version : Nat, keys : SUBSET Keys]
Absent == [exists |-> FALSE, version |-> 0, keys |-> {}]

Root == << >>

\* Mutant of JoinPath: the parent is forgotten.
JoinPathChildOnly(parent, child) == <<child>>

JoinPath(parent, child) == Append(parent, child)

SecretPaths == {JoinPath(d, k) : d \in Documents, k \in Keys}
Nothing == [p \in SecretPaths |-> 0]

\* The first n segments of a path; those before the last are its folders.
Prefix(p, n) == SubSeq(p, 1, n)
Folders ==
    {Root} \cup UNION {{Prefix(d, n) : n \in 0 .. Len(d) - 1} : d \in Documents}

-----------------------------------------------------------------------------
(* What Vault answers.                                                       *)

Under(folder) ==
    {d \in Documents : docs[d].exists /\ Len(d) > Len(folder)
                       /\ Prefix(d, Len(folder)) = folder}

DocumentKeys(folder) ==
    {d[Len(d)] : d \in {e \in Under(folder) : Len(e) = Len(folder) + 1}}

\* Mutant of FolderKeys: a document hides the folder of the same name.
FolderKeysNotDocuments(folder) ==
    {d[Len(folder) + 1] : d \in {e \in Under(folder) : Len(e) > Len(folder) + 1}}
        \ DocumentKeys(folder)

\* The keys with a slash at the end.
FolderKeys(folder) ==
    {d[Len(folder) + 1] : d \in {e \in Under(folder) : Len(e) > Len(folder) + 1}}

\* Mutant of Found: a deleted version is not found either.
FoundUndeleted(d) == docs[d].version > 0 /\ docs[d].keys # {}

Found(d) == docs[d].version > 0

Supported(d) == docs[d].keys \cap Unsupported = {}

-----------------------------------------------------------------------------
(* The walk.                                                                 *)

\* What the loops of ListSecrets do next: the folder's documents, the next
\* folder, or return.
Continue(documents, paths) ==
    IF documents # {} THEN "get" ELSE IF paths # {} THEN "list" ELSE "done"

ListSecrets ==
    /\ pc = "idle"
    /\ pc' = "list"
    /\ pathsToScan' = {Root}
    /\ seenPaths' = {}
    /\ pending' = {}
    /\ secrets' = Nothing
    /\ err' = "none"
    /\ was' = [d \in Documents |-> {docs[d]}]
    /\ UNCHANGED <<docs, budget>>

\* Folders are taken in any order, the code's among them.
ListKeys(path) ==
    /\ pc = "list"
    /\ path \in pathsToScan
    /\ seenPaths' = seenPaths \cup {path}
    /\ pathsToScan' =
            (pathsToScan \cup {JoinPath(path, key) : key \in FolderKeys(path)})
                \ seenPaths'
    /\ pending' = {JoinPath(path, key) : key \in DocumentKeys(path)}
    /\ pc' = Continue(pending', pathsToScan')
    /\ UNCHANGED <<docs, secrets, err, was, budget>>

\* Every error ends the walk; what was listed is dropped.
Fail(error) ==
    /\ pc' = "failed"
    /\ err' = error
    /\ secrets' = Nothing
    /\ pathsToScan' = {} /\ seenPaths' = {} /\ pending' = {}

\* Mutant of GetSecret: a request for every key, with the version it finds.
GetSecretByKey(d) ==
    /\ pc = "get"
    /\ d \in pending
    /\ Found(d)
    /\ Supported(d)
    /\ LET left == {k \in docs[d].keys : secrets[JoinPath(d, k)] = 0}
       IN  IF left = {}
            THEN pending' = pending \ {d} /\ UNCHANGED secrets
            ELSE /\ \E k \in left :
                        secrets' = [secrets EXCEPT ![JoinPath(d, k)] = docs[d].version]
                 /\ UNCHANGED pending
    /\ pc' = Continue(pending', pathsToScan)
    /\ UNCHANGED <<docs, pathsToScan, seenPaths, err, was, budget>>

GetSecret(d) ==
    /\ pc = "get"
    /\ d \in pending
    /\ Found(d)
    /\ Supported(d)
    /\ secrets' = [p \in SecretPaths |->
            IF p \in {JoinPath(d, k) : k \in docs[d].keys}
                THEN docs[d].version ELSE secrets[p]]
    /\ pending' = pending \ {d}
    /\ pc' = Continue(pending', pathsToScan)
    /\ UNCHANGED <<docs, pathsToScan, seenPaths, err, was, budget>>

GetNotFound(d) ==
    /\ pc = "get"
    /\ d \in pending
    /\ ~Found(d)
    /\ Fail("not_found")
    /\ UNCHANGED <<docs, was, budget>>

GetUnsupported(d) ==
    /\ pc = "get"
    /\ d \in pending
    /\ Found(d)
    /\ ~Supported(d)
    /\ Fail("unsupported")
    /\ UNCHANGED <<docs, was, budget>>

Spend(kind) == budget[kind] > 0 /\ budget' = [budget EXCEPT ![kind] = @ - 1]

CallFails ==
    /\ pc \in {"list", "get"}
    /\ Spend("faults")
    /\ Fail("call")
    /\ UNCHANGED <<docs, was>>

\* The caller has the list, or the error.
Return ==
    /\ pc \in {"done", "failed"}
    /\ pc' = "idle"
    /\ pathsToScan' = {} /\ seenPaths' = {} /\ pending' = {}
    /\ secrets' = Nothing
    /\ err' = "none"
    /\ was' = [d \in Documents |-> {}]
    /\ UNCHANGED <<docs, budget>>

-----------------------------------------------------------------------------
(* Everyone else.                                                            *)

Becomes(d, state) ==
    /\ Spend("writes")
    /\ docs' = [docs EXCEPT ![d] = state]
    /\ was' = IF pc = "idle" THEN was ELSE [was EXCEPT ![d] = @ \cup {state}]
    /\ UNCHANGED walkVars

WriteDocument(d, keys) ==
    Becomes(d, [exists |-> TRUE, version |-> docs[d].version + 1, keys |-> keys])

DeleteVersion(d) ==
    docs[d].version > 0 /\ Becomes(d, [docs[d] EXCEPT !.keys = {}])

\* Metadata can be written for a document that has no version.
PutMetadata(d) ==
    ~docs[d].exists /\ Becomes(d, [Absent EXCEPT !.exists = TRUE])

DeleteMetadata(d) ==
    docs[d].exists /\ Becomes(d, Absent)

-----------------------------------------------------------------------------

Init ==
    /\ docs \in [Documents -> {Absent, [Absent EXCEPT !.exists = TRUE]} \cup
                    [exists : {TRUE}, version : {1}, keys : SUBSET Keys]]
    /\ pc = "idle"
    /\ pathsToScan = {} /\ seenPaths = {} /\ pending = {}
    /\ secrets = Nothing
    /\ err = "none"
    /\ was = [d \in Documents |-> {}]
    /\ budget = [faults |-> MaxFaults, writes |-> MaxWrites]

Walk ==
    \/ ListSecrets
    \/ \E path \in pathsToScan : ListKeys(path)
    \/ \E d \in pending : GetSecret(d) \/ GetNotFound(d) \/ GetUnsupported(d)
    \/ CallFails
    \/ Return

Environment ==
    \E d \in Documents :
        \/ \E keys \in SUBSET Keys : WriteDocument(d, keys)
        \/ DeleteVersion(d)
        \/ PutMetadata(d)
        \/ DeleteMetadata(d)

Next == Walk \/ Environment

Spec == Init /\ [][Next]_vars

-----------------------------------------------------------------------------

TypeOK ==
    /\ docs \in [Documents -> State]
    /\ pc \in PC
    /\ pathsToScan \subseteq Folders
    /\ seenPaths \subseteq Folders
    /\ pending \subseteq Documents
    /\ secrets \in [SecretPaths -> Nat]
    /\ err \in Errors
    /\ was \in [Documents -> SUBSET State]
    /\ budget \in [faults : Nat, writes : Nat]

\* What of a document is in the list.
Listed(d) == {k \in Keys : secrets[JoinPath(d, k)] # 0}

\* Whatever happens during the walk, the part of a list that comes from one
\* document is what that document was at some instant of the walk: all its
\* keys of then, no others, and its version of then.  A list never mixes two
\* versions of a document, though it may mix instants of two documents.
ListedAsItWas ==
    \A d \in Documents : Listed(d) # {} =>
        \E w \in was[d] :
            /\ Listed(d) = w.keys
            /\ \A k \in w.keys : secrets[JoinPath(d, k)] = w.version

\* A secret that was there all the time is in the list: what is not in the list
\* of an uninterrupted walk was really gone for at least an instant, which is
\* what the cleanup of orphans takes it for.
SteadyIsListed ==
    pc = "done" =>
        \A d \in Documents, k \in Keys :
            (\A w \in was[d] : k \in w.keys) => k \in Listed(d)

\* The documents alone fail a walk only if one of them had no version at some
\* instant of the walk although it was there at another: it was removed after
\* its folder was listed, or it only has metadata.  A deleted version is no
\* reason.
NotFoundForAReason ==
    err = "not_found" =>
        \E d \in Documents :
            /\ \E w \in was[d] : w.version = 0
            /\ \E w \in was[d] : w.exists

=============================================================================
