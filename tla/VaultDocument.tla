---------------------------- MODULE VaultDocument ----------------------------
(***************************************************************************)
(* One document of a Vault KV v2 engine, and the gRPC handlers that create  *)
(* keys in it: Service.Create (src/internal/api), Provider.CreateSecret and *)
(* HttpClient.CreateSecretKey (src/internal/providers/vault), while others  *)
(* write the document or delete its current version.                        *)
(*                                                                         *)
(* Vault is modelled from how the client uses it: a write with check-and-   *)
(* set is accepted if it names the current version, and deleting a version  *)
(* does not change its number.  Removing a document altogether, after which *)
(* its versions start again at 1, is left out.  A key's value is who wrote  *)
(* it.                                                                      *)
(***************************************************************************)
EXTENDS Naturals, FiniteSets

CONSTANTS
    Callers,        \* gRPC handler goroutines
    Other,          \* everyone else who writes the document
    None,           \* the key is not there
    Keys,           \* keys of the document
    Attempts,       \* createSecretKeyAttempts (3 in the code)
    MaxFaults,      \* bound: lost requests and replies
    MaxWrites,      \* bound: writes and deletions by others
    MaxCalls        \* bound: calls of each handler

ASSUME DocumentAssumption ==
    /\ Other \notin Callers
    /\ None \notin Callers \cup {Other}
    /\ Attempts \in Nat \ {0}
    /\ {MaxFaults, MaxWrites, MaxCalls} \subseteq Nat

VARIABLES
    version,    \* the current version, 0: there is no such document
    data,       \* the document's keys, all None after its version is deleted
    pc,         \* where a handler is
    request,    \* the key a handler is to create, None between calls
    attempt,    \* attempts that a check-and-set conflict has used up
    read,       \* the version and keys that a handler has read
    result,     \* what its caller was told last, and about which key
    calls,      \* calls a handler has answered
    budget      \* what the environment may still do

docVars == <<version, data>>
handlerVars == <<pc, request, attempt, read, result, calls>>
vars == <<docVars, handlerVars, budget>>

Document == [Keys -> Callers \cup {Other, None}]
Empty == [k \in Keys |-> None]

PC == {"idle", "get", "put"}
Status == {"none", "ok", "exists", "conflict", "error"}
NoRead == [version |-> 0, data |-> Empty]

-----------------------------------------------------------------------------

Create(c, key) ==
    /\ pc[c] = "idle"
    /\ calls[c] < MaxCalls
    /\ pc' = [pc EXCEPT ![c] = "get"]
    /\ request' = [request EXCEPT ![c] = key]
    /\ attempt' = [attempt EXCEPT ![c] = 0]
    /\ UNCHANGED <<docVars, read, result, calls, budget>>

\* createSecretError: the status a caller sees.  What it has read is gone.
Answer(c, status) ==
    /\ pc' = [pc EXCEPT ![c] = "idle"]
    /\ result' = [result EXCEPT ![c] = [status |-> status, key |-> request[c]]]
    /\ calls' = [calls EXCEPT ![c] = @ + 1]
    /\ read' = [read EXCEPT ![c] = NoRead]
    /\ request' = [request EXCEPT ![c] = None]

\* secretDataForCreate.  A missing document reads as version 0 without keys.
Get(c) ==
    /\ pc[c] = "get"
    /\ IF data[request[c]] # None
        THEN Answer(c, "exists")
        ELSE /\ pc' = [pc EXCEPT ![c] = "put"]
             /\ read' = [read EXCEPT ![c] = [version |-> version, data |-> data]]
             /\ UNCHANGED <<request, result, calls>>
    /\ UNCHANGED <<docVars, attempt, budget>>

\* The document as the handler wants it: what it has read, and the new key.
Merged(c) == [read[c].data EXCEPT ![request[c]] = c]

\* Vault's check.
CasAccepted(cas) == version = cas

Write(document) == version' = version + 1 /\ data' = document

\* Mutant of Put: without WithCheckAndSet.
PutUnchecked(c) ==
    /\ pc[c] = "put"
    /\ Write(Merged(c))
    /\ Answer(c, "ok")
    /\ UNCHANGED <<attempt, budget>>

Put(c) ==
    /\ pc[c] = "put"
    /\ CasAccepted(read[c].version)
    /\ Write(Merged(c))
    /\ Answer(c, "ok")
    /\ UNCHANGED <<attempt, budget>>

\* Mutants of Conflict: one attempt too many, and the same write again.
ConflictTooOften(c) ==
    /\ attempt' = [attempt EXCEPT ![c] = @ + 1]
    /\ IF attempt[c] <= Attempts
        THEN /\ pc' = [pc EXCEPT ![c] = "get"]
             /\ read' = [read EXCEPT ![c] = NoRead]
             /\ UNCHANGED <<request, result, calls>>
        ELSE Answer(c, "conflict")

ConflictUnread(c) ==
    /\ attempt' = [attempt EXCEPT ![c] = @ + 1]
    /\ IF attempt'[c] < Attempts
        THEN UNCHANGED <<pc, read, request, result, calls>>
        ELSE Answer(c, "conflict")

\* The loop of CreateSecretKey reads the document again, or gives up.
Conflict(c) ==
    /\ attempt' = [attempt EXCEPT ![c] = @ + 1]
    /\ IF attempt'[c] < Attempts
        THEN /\ pc' = [pc EXCEPT ![c] = "get"]
             /\ read' = [read EXCEPT ![c] = NoRead]
             /\ UNCHANGED <<request, result, calls>>
        ELSE Answer(c, "conflict")

PutConflict(c) ==
    /\ pc[c] = "put"
    /\ ~CasAccepted(read[c].version)
    /\ Conflict(c)
    /\ UNCHANGED <<docVars, budget>>

Spend(kind) == budget[kind] > 0 /\ budget' = [budget EXCEPT ![kind] = @ - 1]

\* Vault does the write, its reply is lost, and the Vault client library (its
\* default configuration retries) sends it again: it conflicts with itself.
PutResent(c) ==
    /\ pc[c] = "put"
    /\ CasAccepted(read[c].version)
    /\ Spend("faults")
    /\ Write(Merged(c))
    /\ Conflict(c)

\* Any other error ends the call, whether or not Vault has done the write.
CallFails(c) ==
    /\ pc[c] \in {"get", "put"}
    /\ Spend("faults")
    /\ \/ UNCHANGED docVars
       \/ pc[c] = "put" /\ CasAccepted(read[c].version) /\ Write(Merged(c))
    /\ Answer(c, "error")
    /\ UNCHANGED attempt

-----------------------------------------------------------------------------
(* Everyone else.                                                            *)

\* A key is written, or taken out of a document that has others left.
WriteKey(key, value) ==
    /\ Spend("writes")
    /\ value # data[key]
    /\ Write([data EXCEPT ![key] = value])
    /\ UNCHANGED handlerVars

\* Deleting the current version leaves its number.
DeleteVersion ==
    /\ Spend("writes")
    /\ version > 0
    /\ data' = Empty
    /\ UNCHANGED <<version, handlerVars>>

-----------------------------------------------------------------------------

Init ==
    /\ \/ version = 0 /\ data = Empty
       \/ version = 1 /\ data \in [Keys -> {Other, None}] \ {Empty}
    /\ pc = [c \in Callers |-> "idle"]
    /\ request = [c \in Callers |-> None]
    /\ attempt = [c \in Callers |-> 0]
    /\ read = [c \in Callers |-> NoRead]
    /\ result = [c \in Callers |-> [status |-> "none", key |-> None]]
    /\ calls = [c \in Callers |-> 0]
    /\ budget = [faults |-> MaxFaults, writes |-> MaxWrites]

Next ==
    \/ \E c \in Callers :
        \/ \E key \in Keys : Create(c, key)
        \/ Get(c) \/ Put(c) \/ PutConflict(c) \/ PutResent(c) \/ CallFails(c)
    \/ \E key \in Keys, value \in {Other, None} : WriteKey(key, value)
    \/ DeleteVersion

Spec == Init /\ [][Next]_vars

-----------------------------------------------------------------------------

TypeOK ==
    /\ version \in Nat
    /\ data \in Document
    /\ pc \in [Callers -> PC]
    /\ request \in [Callers -> Keys \cup {None}]
    /\ attempt \in [Callers -> 0 .. Attempts]
    /\ read \in [Callers -> [version : Nat, data : Document]]
    /\ result \in [Callers -> [status : Status, key : Keys \cup {None}]]
    /\ calls \in [Callers -> Nat]
    /\ budget \in [faults : Nat, writes : Nat]

\* The step is a handler's write.
Writes(c) == pc[c] = "put" /\ pc'[c] # "put" /\ docVars' # docVars

\* Whatever others wrote since a handler read the document, its write replaces
\* no value and loses no key, also where it is done without being answered.
LosesNothing ==
    [][\A c \in Callers : Writes(c) =>
            /\ data[request[c]] = None
            /\ \A k \in Keys : data[k] # None => data'[k] = data[k]]_vars

\* As long as nobody else writes the document, a key whose creation was
\* acknowledged is there with the value of the caller it was acknowledged to:
\* of two callers that want the same key one is told so, and no failed call
\* of a third takes the key away.
AckedIsKept ==
    budget.writes = MaxWrites =>
        \A c \in Callers :
            result[c].status = "ok" => data[result[c].key] = c

\* A handler loses an attempt only to a write that was done: a call that ends
\* in ErrCASConflict has met one more write for each of its attempts, which
\* may be its own if the reply was lost.
ConflictsAreProgress ==
    \A c \in Callers : attempt[c] <= version

=============================================================================
