------------------------- MODULE VaultDocumentProofs -------------------------
(***************************************************************************)
(* What the check-and-set loop of CreateSecretKey gives for any number of   *)
(* handlers, keys and attempts.                                             *)
(*                                                                         *)
(* The invariant behind it: what a handler has read is either out of date   *)
(* by its version number, or still holds every key that the document holds. *)
(***************************************************************************)
EXTENDS VaultDocument, Integers, TLAPS

\* A call in progress has a key to create and an attempt left.
InProgress ==
    \A c \in Callers :
        pc[c] # "idle" => request[c] \in Keys /\ attempt[c] < Attempts

\* What a handler has read is no newer than the document, lacks the key to
\* create, and covers the document as long as the version has not moved.
Snapshot ==
    \A c \in Callers : pc[c] = "put" =>
        /\ read[c].version <= version
        /\ read[c].data[request[c]] = None
        /\ read[c].version = version =>
                \A k \in Keys : data[k] # None => data[k] = read[c].data[k]

\* Each lost attempt was lost to a version, and the document was read after it.
Progress ==
    \A c \in Callers :
        /\ attempt[c] <= version
        /\ pc[c] = "put" => attempt[c] <= read[c].version

DocumentInv == TypeOK /\ InProgress /\ Snapshot /\ Progress

-----------------------------------------------------------------------------

\* The initial states satisfy the invariant.
LEMMA InitInv == Init => DocumentInv
<1> SUFFICES ASSUME Init PROVE DocumentInv
    OBVIOUS
<1>1. data \in Document
    BY DocumentAssumption DEF Init, Document, Empty
<1>2. TypeOK
    BY <1>1, DocumentAssumption
        DEF Init, TypeOK, PC, Status, NoRead, Document, Empty
<1>3. InProgress /\ Snapshot /\ Progress
    BY <1>2 DEF Init, TypeOK, InProgress, Snapshot, Progress
<1>4. QED
    BY <1>2, <1>3 DEF DocumentInv

\* What an answered handler leaves behind.
LEMMA AnswerFacts ==
    ASSUME DocumentInv, NEW c \in Callers, NEW status \in Status,
           Answer(c, status), attempt' \in [Callers -> 0 .. Attempts]
    PROVE  /\ pc' = [pc EXCEPT ![c] = "idle"]
           /\ read' = [read EXCEPT ![c] = NoRead]
           /\ request' = [request EXCEPT ![c] = None]
           /\ pc' \in [Callers -> PC]
           /\ request' \in [Callers -> Keys \cup {None}]
           /\ read' \in [Callers -> [version : Nat, data : Document]]
           /\ result' \in [Callers -> [status : Status, key : Keys \cup {None}]]
           /\ calls' \in [Callers -> Nat]
<1>1. NoRead \in [version : Nat, data : Document]
    BY DEF NoRead, Document, Empty
<1>2. QED
    BY <1>1 DEF DocumentInv, TypeOK, Answer, PC

\* A handler that does not write leaves the document, and so what the others
\* know of it.  Its own part of the invariant is what remains to be shown.
LEMMA HandlerKeeps ==
    ASSUME DocumentInv, NEW c \in Callers, TypeOK', UNCHANGED docVars,
           \A d \in Callers \ {c} : /\ pc'[d] = pc[d] /\ request'[d] = request[d]
                                    /\ attempt'[d] = attempt[d] /\ read'[d] = read[d],
           pc'[c] # "idle" => request'[c] \in Keys /\ attempt'[c] < Attempts,
           attempt'[c] <= version,
           pc'[c] = "put" => /\ read'[c].version <= version
                             /\ attempt'[c] <= read'[c].version
                             /\ read'[c].data[request'[c]] = None
                             /\ read'[c].version = version =>
                                    \A k \in Keys : data[k] # None =>
                                                        data[k] = read'[c].data[k]
    PROVE  DocumentInv'
<1>1. InProgress'
    BY DEF DocumentInv, InProgress
<1>2. Snapshot'
    BY DEF DocumentInv, Snapshot, docVars
<1>3. Progress'
    BY DEF DocumentInv, Progress, docVars
<1>4. QED
    BY <1>1, <1>2, <1>3 DEF DocumentInv

\* A write makes a new version: nobody's reading is current any more.  The
\* writer, if it is a handler, is not about to write again.
LEMMA WriteKeeps ==
    ASSUME DocumentInv, TypeOK', version' = version + 1,
           InProgress',
           \A d \in Callers :
                \/ pc'[d] = pc[d] /\ request'[d] = request[d]
                   /\ attempt'[d] = attempt[d] /\ read'[d] = read[d]
                \/ pc'[d] # "put" /\ attempt'[d] <= version + 1
    PROVE  DocumentInv'
<1>1. \A d \in Callers : pc[d] = "put" => read[d].version \in Nat
    BY DEF DocumentInv, TypeOK
<1>2. version \in Nat /\ attempt \in [Callers -> Nat]
    BY DocumentAssumption DEF DocumentInv, TypeOK
<1>3. Snapshot'
    BY <1>1, <1>2 DEF DocumentInv, Snapshot
<1>4. Progress'
    BY <1>1, <1>2 DEF DocumentInv, Progress
<1>5. QED
    BY <1>3, <1>4 DEF DocumentInv

\* The merged document has the right type, and so has the next state after
\* a handler's write.
LEMMA MergedType ==
    ASSUME DocumentInv, NEW c \in Callers, pc[c] = "put"
    PROVE  Merged(c) \in Document
BY DEF DocumentInv, TypeOK, Merged, Document

-----------------------------------------------------------------------------
(* One lemma per action.                                                     *)

\* A call begins.
LEMMA CreateStep ==
    ASSUME DocumentInv, NEW c \in Callers, NEW key \in Keys, Create(c, key)
    PROVE  DocumentInv'
<1>1. TypeOK'
    BY DocumentAssumption DEF DocumentInv, TypeOK, Create, docVars, PC
<1>2. /\ pc'[c] = "get" /\ request'[c] = key /\ attempt'[c] = 0
      /\ version \in Nat
    BY DEF DocumentInv, TypeOK, Create
<1>3. QED
    BY <1>1, <1>2, DocumentAssumption, HandlerKeeps
        DEF Create, DocumentInv, TypeOK

\* secretDataForCreate remembers the document as it is.
LEMMA GetStep ==
    ASSUME DocumentInv, NEW c \in Callers, Get(c)
    PROVE  DocumentInv'
<1>1. /\ request[c] \in Keys /\ attempt[c] < Attempts
      /\ attempt[c] <= version /\ attempt' = attempt
    BY DEF DocumentInv, InProgress, Progress, Get
<1>2. CASE data[request[c]] # None
    <2>1. Answer(c, "exists") /\ UNCHANGED <<docVars, budget>>
        BY <1>2 DEF Get
    <2>2. TypeOK' /\ pc'[c] = "idle"
        BY <1>1, <2>1, AnswerFacts DEF DocumentInv, TypeOK, docVars, Status
    <2>3. /\ pc' = [pc EXCEPT ![c] = "idle"]
          /\ read' = [read EXCEPT ![c] = NoRead]
          /\ request' = [request EXCEPT ![c] = None]
        BY <1>1, <2>1, AnswerFacts DEF DocumentInv, TypeOK, Status
    <2>4. QED
        BY <1>1, <2>1, <2>2, <2>3, HandlerKeeps DEF DocumentInv, TypeOK
<1>3. CASE data[request[c]] = None
    <2>1. /\ pc' = [pc EXCEPT ![c] = "put"]
          /\ read' = [read EXCEPT ![c] = [version |-> version, data |-> data]]
          /\ UNCHANGED <<request, result, calls, docVars, budget>>
        BY <1>3 DEF Get
    <2>2. TypeOK'
        BY <1>1, <2>1 DEF DocumentInv, TypeOK, docVars, PC
    <2>3. read'[c] = [version |-> version, data |-> data] /\ pc'[c] = "put"
        BY <2>1 DEF DocumentInv, TypeOK
    <2>4. version \in Nat
        BY DEF DocumentInv, TypeOK
    <2>5. \A d \in Callers \ {c} : /\ pc'[d] = pc[d] /\ request'[d] = request[d]
                                  /\ attempt'[d] = attempt[d] /\ read'[d] = read[d]
        BY <1>1, <2>1 DEF DocumentInv, TypeOK
    <2>6. /\ read'[c].version = version /\ read'[c].data = data
          /\ request'[c] = request[c] /\ attempt'[c] = attempt[c]
        BY <1>1, <2>1, <2>3
    <2>7. QED
        BY <1>1, <1>3, <2>1, <2>2, <2>3, <2>4, <2>5, <2>6, HandlerKeeps
<1>4. QED
    BY <1>2, <1>3

\* An accepted write adds the requested key to the current document.
LEMMA PutStep ==
    ASSUME DocumentInv, NEW c \in Callers, Put(c)
    PROVE  DocumentInv'
<1>1. /\ Answer(c, "ok") /\ attempt' = attempt /\ budget' = budget
      /\ version' = version + 1 /\ data' = Merged(c)
      /\ pc[c] = "put" /\ attempt[c] <= version
    BY DEF Put, Write, DocumentInv, Progress
<1>2. TypeOK'
    BY <1>1, AnswerFacts, MergedType DEF DocumentInv, TypeOK, Status
<1>3. /\ pc' = [pc EXCEPT ![c] = "idle"] /\ read' = [read EXCEPT ![c] = NoRead]
      /\ request' = [request EXCEPT ![c] = None]
    BY <1>1, AnswerFacts DEF Status, DocumentInv, TypeOK
<1>4. InProgress'
    BY <1>1, <1>3 DEF DocumentInv, TypeOK, InProgress
<1>5. QED
    BY <1>1, <1>2, <1>3, <1>4, WriteKeeps DEF DocumentInv, TypeOK

\* The loop either reads again or gives up; the document is not touched.
LEMMA ConflictFacts ==
    ASSUME DocumentInv, NEW c \in Callers, pc[c] = "put", Conflict(c)
    PROVE  /\ attempt' = [attempt EXCEPT ![c] = @ + 1]
           /\ attempt' \in [Callers -> 0 .. Attempts]
           /\ pc' \in [Callers -> PC] /\ pc'[c] # "put"
           /\ pc'[c] # "idle" => request'[c] \in Keys /\ attempt'[c] < Attempts
           /\ request' \in [Callers -> Keys \cup {None}]
           /\ read' \in [Callers -> [version : Nat, data : Document]]
           /\ result' \in [Callers -> [status : Status, key : Keys \cup {None}]]
           /\ calls' \in [Callers -> Nat]
           /\ \A d \in Callers \ {c} : /\ pc'[d] = pc[d]
                                       /\ request'[d] = request[d]
                                       /\ attempt'[d] = attempt[d]
                                       /\ read'[d] = read[d]
<1>1. NoRead \in [version : Nat, data : Document]
    BY DEF NoRead, Document, Empty
<1>2. /\ attempt' = [attempt EXCEPT ![c] = @ + 1]
      /\ attempt'[c] = attempt[c] + 1 /\ attempt[c] \in 0 .. Attempts
    BY DEF Conflict, DocumentInv, TypeOK
<1>3. CASE attempt[c] + 1 < Attempts
    <2>1. /\ pc' = [pc EXCEPT ![c] = "get"]
          /\ read' = [read EXCEPT ![c] = NoRead]
          /\ UNCHANGED <<request, result, calls>>
        BY <1>2, <1>3 DEF Conflict
    <2>2. request[c] \in Keys
        BY DEF DocumentInv, InProgress
    <2>3. attempt' \in [Callers -> 0 .. Attempts]
        BY <1>2, <1>3, DocumentAssumption DEF DocumentInv, TypeOK
    <2>4. QED
        BY <1>1, <1>2, <1>3, <2>1, <2>2, <2>3 DEF DocumentInv, TypeOK, PC
<1>4. CASE ~(attempt[c] + 1 < Attempts) /\ attempt[c] < Attempts
    <2>1. Answer(c, "conflict")
        BY <1>2, <1>4 DEF Conflict
    <2>2. attempt' \in [Callers -> 0 .. Attempts]
        BY <1>2, <1>4, DocumentAssumption DEF DocumentInv, TypeOK
    <2>3. /\ pc' = [pc EXCEPT ![c] = "idle"]
          /\ read' = [read EXCEPT ![c] = NoRead]
          /\ request' = [request EXCEPT ![c] = None]
        BY <2>1, <2>2, AnswerFacts DEF Status
    <2>4. /\ pc' \in [Callers -> PC] /\ pc'[c] = "idle"
          /\ request' \in [Callers -> Keys \cup {None}]
          /\ read' \in [Callers -> [version : Nat, data : Document]]
        BY <1>1, <2>3 DEF DocumentInv, TypeOK, PC
    <2>5. /\ result' \in [Callers -> [status : Status, key : Keys \cup {None}]]
          /\ calls' \in [Callers -> Nat]
        BY <2>1, <2>2, AnswerFacts DEF Status
    <2>6. \A d \in Callers \ {c} : /\ pc'[d] = pc[d]
                                  /\ request'[d] = request[d]
                                  /\ attempt'[d] = attempt[d]
                                  /\ read'[d] = read[d]
        BY <1>2, <2>3 DEF DocumentInv, TypeOK
    <2>7. QED
        BY <1>2, <2>2, <2>4, <2>5, <2>6
<1>5. attempt[c] < Attempts
    BY DEF DocumentInv, InProgress
<1>6. QED
    BY <1>3, <1>4, <1>5

\* A refused write: someone else's was accepted since the read.
LEMMA PutConflictStep ==
    ASSUME DocumentInv, NEW c \in Callers, PutConflict(c)
    PROVE  DocumentInv'
<1>1. /\ pc[c] = "put" /\ Conflict(c) /\ UNCHANGED <<docVars, budget>>
      /\ read[c].version # version
    BY DEF PutConflict, CasAccepted
<1>2. TypeOK'
    BY <1>1, ConflictFacts DEF DocumentInv, TypeOK, docVars
<1>3. attempt[c] + 1 <= version
    <2>1. attempt[c] <= read[c].version /\ read[c].version <= version
        BY <1>1 DEF DocumentInv, Snapshot, Progress
    <2>2. attempt[c] \in Int /\ version \in Int /\ read[c].version \in Int
        BY DocumentAssumption DEF DocumentInv, TypeOK
    <2>3. QED
        BY <1>1, <2>1, <2>2
<1>4. attempt'[c] = attempt[c] + 1
    BY <1>1, ConflictFacts DEF DocumentInv, TypeOK
<1>5. QED
    BY <1>1, <1>2, <1>3, <1>4, ConflictFacts, HandlerKeeps

\* The write that was done counts for the attempt that it costs.
LEMMA PutResentStep ==
    ASSUME DocumentInv, NEW c \in Callers, PutResent(c)
    PROVE  DocumentInv'
<1>1. /\ pc[c] = "put" /\ Conflict(c)
      /\ version' = version + 1 /\ data' = Merged(c)
      /\ budget' = [budget EXCEPT !["faults"] = @ - 1] /\ budget["faults"] > 0
    BY DEF PutResent, Write, Spend
<1>2. budget' \in [faults : Nat, writes : Nat]
    BY <1>1 DEF DocumentInv, TypeOK
<1>3. TypeOK'
    BY <1>1, <1>2, ConflictFacts, MergedType DEF DocumentInv, TypeOK
<1>4. attempt'[c] <= version + 1
    BY <1>1, ConflictFacts, DocumentAssumption DEF DocumentInv, TypeOK, Progress
<1>5. InProgress'
    BY <1>1, ConflictFacts DEF DocumentInv, InProgress
<1>6. QED
    BY <1>1, <1>3, <1>4, <1>5, ConflictFacts, WriteKeeps

\* An error ends the call, with or without its write.
LEMMA CallFailsStep ==
    ASSUME DocumentInv, NEW c \in Callers, CallFails(c)
    PROVE  DocumentInv'
<1>1. /\ Answer(c, "error") /\ attempt' = attempt
      /\ budget' = [budget EXCEPT !["faults"] = @ - 1] /\ budget["faults"] > 0
      /\ \/ UNCHANGED docVars
         \/ pc[c] = "put" /\ version' = version + 1 /\ data' = Merged(c)
    BY DEF CallFails, Spend, Write
<1>2. budget' \in [faults : Nat, writes : Nat]
    BY <1>1 DEF DocumentInv, TypeOK
<1>3. TypeOK'
    BY <1>1, <1>2, AnswerFacts, MergedType DEF DocumentInv, TypeOK, Status, docVars
<1>4. /\ pc' = [pc EXCEPT ![c] = "idle"] /\ read' = [read EXCEPT ![c] = NoRead]
      /\ request' = [request EXCEPT ![c] = None]
    BY <1>1, AnswerFacts DEF Status, DocumentInv, TypeOK
<1>5. InProgress'
    BY <1>1, <1>4 DEF DocumentInv, TypeOK, InProgress
<1>6. attempt[c] <= version /\ version \in Nat /\ attempt[c] \in Nat
    BY DocumentAssumption DEF DocumentInv, TypeOK, Progress
<1>7. CASE UNCHANGED docVars
    BY <1>1, <1>3, <1>4, <1>6, <1>7, HandlerKeeps DEF DocumentInv, TypeOK
<1>8. CASE version' = version + 1
    BY <1>1, <1>3, <1>4, <1>5, <1>6, <1>8, WriteKeeps DEF DocumentInv, TypeOK
<1>9. QED
    BY <1>1, <1>7, <1>8

\* The writes and deletions of everyone else.
LEMMA OtherStep ==
    ASSUME DocumentInv,
           \/ \E key \in Keys, value \in {Other, None} : WriteKey(key, value)
           \/ DeleteVersion
    PROVE  DocumentInv'
<1>1. /\ UNCHANGED handlerVars
      /\ budget' = [budget EXCEPT !["writes"] = @ - 1] /\ budget["writes"] > 0
    BY DEF WriteKey, DeleteVersion, Spend
<1>2. budget' \in [faults : Nat, writes : Nat]
    BY <1>1 DEF DocumentInv, TypeOK
<1>3. CASE \E key \in Keys, value \in {Other, None} : WriteKey(key, value)
    <2>1. version' = version + 1 /\ data' \in Document
        BY <1>3 DEF WriteKey, Write, DocumentInv, TypeOK, Document
    <2>2. TypeOK' /\ InProgress'
        BY <1>1, <1>2, <2>1 DEF DocumentInv, TypeOK, InProgress, handlerVars
    <2>3. QED
        BY <1>1, <2>1, <2>2, WriteKeeps DEF handlerVars
<1>4. CASE DeleteVersion
    <2>1. version' = version /\ data' = Empty /\ data' \in Document
        BY <1>4 DEF DeleteVersion, Document, Empty
    <2>2. TypeOK' /\ InProgress' /\ Progress'
        BY <1>1, <1>2, <2>1
            DEF DocumentInv, TypeOK, InProgress, Progress, handlerVars
    <2>3. \A k \in Keys : data'[k] = None
        BY <2>1 DEF Empty
    <2>4. Snapshot'
        BY <1>1, <2>1, <2>3 DEF DocumentInv, Snapshot, handlerVars
    <2>5. QED
        BY <2>2, <2>4 DEF DocumentInv
<1>5. QED
    BY <1>3, <1>4

-----------------------------------------------------------------------------

\* Every step keeps the invariant.
LEMMA StepInv == DocumentInv /\ [Next]_vars => DocumentInv'
<1> SUFFICES ASSUME DocumentInv, [Next]_vars PROVE DocumentInv'
    OBVIOUS
<1>1. ASSUME NEW c \in Callers,
             \/ \E key \in Keys : Create(c, key)
             \/ Get(c) \/ Put(c) \/ PutConflict(c) \/ PutResent(c) \/ CallFails(c)
      PROVE  DocumentInv'
    BY <1>1, CreateStep, GetStep, PutStep, PutConflictStep, PutResentStep,
       CallFailsStep
<1>2. CASE UNCHANGED vars
    BY <1>2 DEF vars, docVars, handlerVars, DocumentInv, TypeOK, InProgress,
                Snapshot, Progress
<1>3. QED
    BY <1>1, <1>2, OtherStep DEF Next

\* The invariant holds throughout.
THEOREM DocumentInvariant == Spec => []DocumentInv
<1>1. QED
    BY InitInv, StepInv, PTL DEF Spec

\* Every variable keeps its type, in particular no call makes more attempts
\* than createSecretKeyAttempts.
THEOREM DocumentTypeCorrect == Spec => []TypeOK
<1>1. DocumentInv => TypeOK
    BY DEF DocumentInv
<1>2. QED
    BY <1>1, DocumentInvariant, PTL

\* CreateSecretKey gives up only after as many writes as it made attempts:
\* handlers that conflict do not starve each other without anyone writing.
THEOREM ConflictsProgress == Spec => []ConflictsAreProgress
<1>1. DocumentInv => ConflictsAreProgress
    BY DEF DocumentInv, Progress, ConflictsAreProgress
<1>2. QED
    BY <1>1, DocumentInvariant, PTL

\* No write of CreateSecretKey replaces a value or loses a key, for any number
\* of concurrent handlers, writes by others and deleted versions.
THEOREM CreateLosesNothing == Spec => LosesNothing
<1> DEFINE Kept(c) == /\ data[request[c]] = None
                      /\ \A k \in Keys : data[k] # None => data'[k] = data[k]
<1>1. ASSUME DocumentInv, [Next]_vars, NEW c \in Callers, Writes(c)
      PROVE  Kept(c)
    <2>1. \/ Put(c) \/ PutResent(c) \/ CallFails(c)
        <3>1. /\ pc[c] = "put" /\ pc'[c] # pc[c] /\ docVars' # docVars
            BY <1>1 DEF Writes
        <3>2. ASSUME NEW d \in Callers, d # c,
                     \/ \E key \in Keys : Create(d, key)
                     \/ Get(d) \/ Put(d) \/ PutConflict(d) \/ PutResent(d)
                     \/ CallFails(d)
              PROVE  pc'[c] = pc[c]
            BY <1>1, <3>2 DEF DocumentInv, TypeOK, Create, Get, Put, PutConflict,
                PutResent, CallFails, Conflict, Answer
        <3>3. Next
            BY <1>1, <3>1 DEF vars, docVars
        <3>4. ~(\E key \in Keys : Create(c, key)) /\ ~Get(c) /\ ~PutConflict(c)
            BY <3>1 DEF Create, Get, PutConflict
        <3>5. ~(\E key \in Keys, value \in {Other, None} : WriteKey(key, value))
              /\ ~DeleteVersion
            BY <3>1 DEF WriteKey, DeleteVersion, handlerVars
        <3>6. QED
            BY <3>1, <3>2, <3>3, <3>4, <3>5 DEF Next
    <2>2. /\ pc[c] = "put" /\ version = read[c].version /\ data' = Merged(c)
        BY <1>1, <2>1 DEF Put, PutResent, CallFails, CasAccepted, Write, Writes
    <2>3. request[c] \in Keys /\ read[c].data \in Document
        BY <1>1, <2>2 DEF DocumentInv, TypeOK, InProgress
    <2>4. /\ read[c].data[request[c]] = None
          /\ \A k \in Keys : data[k] # None => data[k] = read[c].data[k]
        BY <1>1, <2>2 DEF DocumentInv, Snapshot
    <2>5. data[request[c]] = None
        BY <2>3, <2>4
    <2>6. \A k \in Keys \ {request[c]} : data'[k] = read[c].data[k]
        BY <2>2, <2>3 DEF Merged, Document
    <2>7. QED
        BY <2>4, <2>5, <2>6
<1>2. DocumentInv /\ [Next]_vars => [\A c \in Callers : Writes(c) => Kept(c)]_vars
    BY <1>1
<1>3. QED
    BY <1>2, DocumentInvariant, PTL DEF Spec, LosesNothing

-----------------------------------------------------------------------------
(* An acknowledged key.                                                      *)

\* With the handlers' invariant: what is acknowledged is about a key, and the
\* writes of others are never more than they were.
AckInv ==
    /\ budget.writes <= MaxWrites
    /\ \A c \in Callers : result[c].status = "ok" => result[c].key \in Keys
    /\ AckedIsKept

\* What a handler's accepted write leaves of the document.
LEMMA MergedKeeps ==
    ASSUME DocumentInv, NEW c \in Callers, pc[c] = "put",
           CasAccepted(read[c].version)
    PROVE  /\ request[c] \in Keys
           /\ Merged(c)[request[c]] = c
           /\ \A k \in Keys : data[k] # None => Merged(c)[k] = data[k]
<1>1. request[c] \in Keys /\ read[c].data \in Document
    BY DEF DocumentInv, TypeOK, InProgress
<1>2. /\ read[c].data[request[c]] = None
      /\ \A k \in Keys : data[k] # None => data[k] = read[c].data[k]
    BY DEF DocumentInv, Snapshot, CasAccepted, TypeOK
<1>3. Merged(c)[request[c]] = c
    BY <1>1 DEF Merged, Document
<1>4. \A k \in Keys \ {request[c]} : Merged(c)[k] = read[c].data[k]
    BY <1>1 DEF Merged, Document
<1>5. \A k \in Keys : data[k] # None => k # request[c]
    BY <1>2
<1>6. QED
    BY <1>1, <1>2, <1>3, <1>4, <1>5

\* A step that keeps every key of the document keeps AckInv, if a caller is
\* told of a success only where its key is there.
LEMMA KeptAck ==
    ASSUME DocumentInv, AckInv, budget'.writes = budget.writes,
           \A k \in Keys : data[k] # None => data'[k] = data[k],
           \A d \in Callers :
                \/ result'[d] = result[d]
                \/ result'[d].status # "ok"
                \/ result'[d].key \in Keys /\ data'[result'[d].key] = d
    PROVE  AckInv'
<1>1. \A d \in Callers : d # None
    BY DocumentAssumption
<1>2. QED
    BY <1>1 DEF AckInv, AckedIsKept

\* What an answer does to the results.
LEMMA AnswerResult ==
    ASSUME DocumentInv, NEW c \in Callers, NEW status \in Status, Answer(c, status)
    PROVE  /\ result'[c].status = status /\ result'[c].key = request[c]
           /\ \A d \in Callers \ {c} : result'[d] = result[d]
BY DEF DocumentInv, TypeOK, Answer

\* A conflict acknowledges nothing.
LEMMA ConflictResult ==
    ASSUME DocumentInv, NEW c \in Callers, Conflict(c)
    PROVE  \A d \in Callers : result'[d] = result[d] \/ result'[d].status # "ok"
<1>1. CASE Answer(c, "conflict")
    <2>1. "conflict" \in Status
        BY DEF Status
    <2>2. QED
        BY <1>1, <2>1, AnswerResult
<1>2. CASE UNCHANGED result
    BY <1>2
<1>3. QED
    BY <1>1, <1>2 DEF Conflict

\* A spent fault leaves the writes of others.
LEMMA FaultSpent ==
    ASSUME DocumentInv, Spend("faults")
    PROVE  budget'.writes = budget.writes
BY DEF DocumentInv, TypeOK, Spend

\* The steps of a handler.
LEMMA HandlerAck ==
    ASSUME DocumentInv, AckInv, NEW c \in Callers,
           \/ \E key \in Keys : Create(c, key)
           \/ Get(c) \/ Put(c) \/ PutConflict(c) \/ PutResent(c) \/ CallFails(c)
    PROVE  AckInv'
<1>1. CASE \E key \in Keys : Create(c, key)
    BY <1>1, KeptAck DEF Create, docVars
<1>2. CASE Get(c)
    <2>1. \A d \in Callers : result'[d] = result[d] \/ result'[d].status # "ok"
        <3>1. CASE Answer(c, "exists")
            <4>1. "exists" \in Status
                BY DEF Status
            <4>2. QED
                BY <3>1, <4>1, AnswerResult
        <3>2. CASE UNCHANGED result
            BY <3>2
        <3>3. QED
            BY <1>2, <3>1, <3>2 DEF Get
    <2>2. UNCHANGED <<docVars, budget>>
        BY <1>2 DEF Get
    <2>3. QED
        BY <2>1, <2>2, KeptAck DEF docVars
<1>3. CASE Put(c)
    <2>1. /\ pc[c] = "put" /\ CasAccepted(read[c].version)
          /\ data' = Merged(c) /\ Answer(c, "ok") /\ UNCHANGED budget
        BY <1>3 DEF Put, Write
    <2>2. /\ request[c] \in Keys /\ data'[request[c]] = c
          /\ \A k \in Keys : data[k] # None => data'[k] = data[k]
        BY <2>1, MergedKeeps
    <2>3. /\ result'[c].key = request[c]
          /\ \A d \in Callers \ {c} : result'[d] = result[d]
        <3>1. "ok" \in Status
            BY DEF Status
        <3>2. QED
            BY <2>1, <3>1, AnswerResult
    <2>4. QED
        BY <2>1, <2>2, <2>3, KeptAck
<1>4. CASE PutConflict(c)
    <2>1. Conflict(c) /\ UNCHANGED <<docVars, budget>>
        BY <1>4 DEF PutConflict
    <2>2. QED
        BY <2>1, ConflictResult, KeptAck DEF docVars
<1>5. CASE PutResent(c)
    <2>1. /\ pc[c] = "put" /\ CasAccepted(read[c].version)
          /\ data' = Merged(c) /\ Conflict(c) /\ Spend("faults")
        BY <1>5 DEF PutResent, Write
    <2>2. QED
        BY <2>1, MergedKeeps, ConflictResult, FaultSpent, KeptAck
<1>6. CASE CallFails(c)
    <2>1. /\ \/ UNCHANGED data
             \/ pc[c] = "put" /\ CasAccepted(read[c].version) /\ data' = Merged(c)
          /\ Answer(c, "error") /\ Spend("faults")
        BY <1>6 DEF CallFails, Write, docVars
    <2>2. \A d \in Callers : result'[d] = result[d] \/ result'[d].status # "ok"
        <3>1. "error" \in Status
            BY DEF Status
        <3>2. QED
            BY <2>1, <3>1, AnswerResult
    <2>3. \A k \in Keys : data[k] # None => data'[k] = data[k]
        BY <2>1, MergedKeeps
    <2>4. QED
        BY <2>1, <2>2, <2>3, FaultSpent, KeptAck
<1>7. QED
    BY <1>1, <1>2, <1>3, <1>4, <1>5, <1>6

\* After a write of somebody else nothing is promised.
LEMMA OtherAck ==
    ASSUME DocumentInv, AckInv,
           \/ \E key \in Keys, value \in {Other, None} : WriteKey(key, value)
           \/ DeleteVersion
    PROVE  AckInv'
<1>1. Spend("writes") /\ UNCHANGED result
    BY DEF WriteKey, DeleteVersion, handlerVars
<1>2. budget'.writes = budget.writes - 1 /\ budget.writes \in Nat
    BY <1>1 DEF DocumentInv, TypeOK, Spend
<1>3. budget'.writes <= MaxWrites /\ budget'.writes # MaxWrites
    BY <1>2, DocumentAssumption DEF AckInv
<1>4. AckedIsKept'
    BY <1>3 DEF AckedIsKept
<1>5. \A c \in Callers : result'[c].status = "ok" => result'[c].key \in Keys
    BY <1>1 DEF AckInv
<1>6. QED
    BY <1>3, <1>4, <1>5 DEF AckInv

\* As long as others leave the document alone, what was acknowledged is kept,
\* for any number of handlers, attempts and lost replies.
THEOREM AcknowledgedIsKept == Spec => []AckedIsKept
<1>1. Init => AckInv
    BY DocumentAssumption DEF Init, AckInv, AckedIsKept
<1>2. ASSUME DocumentInv, AckInv, [Next]_vars
      PROVE  AckInv'
    <2>1. CASE UNCHANGED vars
        BY <1>2, <2>1 DEF AckInv, AckedIsKept, vars, docVars, handlerVars
    <2>2. CASE Next
        BY <1>2, <2>2, HandlerAck, OtherAck DEF Next
    <2>3. QED
        BY <1>2, <2>1, <2>2
<1>3. DocumentInv /\ AckInv /\ [Next]_vars => AckInv'
    BY <1>2
<1>4. AckInv => AckedIsKept
    BY DEF AckInv
<1>5. QED
    BY <1>1, <1>3, <1>4, DocumentInvariant, PTL DEF Spec

=============================================================================
