--------------------------- MODULE VaultWalkProofs ---------------------------
(***************************************************************************)
(* Safety of the walk over Vault's folders, for any documents, keys and     *)
(* bounds: what a list says of a document, and that it leaves out nothing   *)
(* that was there all the time.                                             *)
(***************************************************************************)
EXTENDS VaultWalk, SequenceTheorems, TLAPS

-----------------------------------------------------------------------------
(* The invariant.                                                            *)

\* A document that has keys has a version, and is there.
DocsInv ==
    \A d \in Documents :
        docs[d].keys # {} => docs[d].exists /\ docs[d].version > 0

\* What a walk has collected so far comes from what the documents have been
\* since it began, and there is nothing of it outside of a walk.
HistoryInv ==
    /\ pc # "idle" => \A d \in Documents : docs[d] \in was[d]
    /\ pc \in {"idle", "failed"} => secrets = Nothing
    /\ pc = "idle" => err = "none"
    /\ \A d \in pending : \E w \in was[d] : w.exists

\* The next request is the one that is left to do.
ControlInv ==
    /\ pc \in {"idle", "list", "done", "failed"} => pending = {}
    /\ pc = "done" => pathsToScan = {}
    /\ pathsToScan \cap seenPaths = {}
    /\ pc \in {"list", "get", "done"} => Root \in pathsToScan \cup seenPaths

\* A document is next once, after its folder was listed.
OnceInv ==
    \A d \in Documents :
        /\ d \in pending => Prefix(d, Len(d) - 1) \in seenPaths
        /\ Listed(d) # {} => d \notin pending /\ Prefix(d, Len(d) - 1) \in seenPaths

Steady(d, k) == \A w \in was[d] : k \in w.keys

\* The way down to a steady document is not lost: below each of its folders
\* that was listed there is another one still to be listed, or the document is
\* next, or it has been read.
CoverInv ==
    pc \in {"list", "get", "done"} =>
        \A d \in Documents, k \in Keys :
            Steady(d, k) =>
                \A n \in 0 .. Len(d) - 1 :
                    Prefix(d, n) \in seenPaths =>
                        \/ k \in Listed(d)
                        \/ d \in pending
                        \/ \E m \in n + 1 .. Len(d) - 1 : Prefix(d, m) \in pathsToScan

WalkInv ==
    /\ TypeOK /\ DocsInv /\ HistoryInv /\ ControlInv /\ OnceInv /\ CoverInv
    /\ ListedAsItWas /\ NotFoundForAReason

-----------------------------------------------------------------------------
(* Paths.                                                                    *)

\* What the beginning of a path is.
LEMMA PrefixFacts ==
    ASSUME NEW p \in Seq(STRING), NEW n \in 0 .. Len(p)
    PROVE  /\ Prefix(p, n) \in Seq(STRING) /\ Len(Prefix(p, n)) = n
           /\ \A i \in 1 .. n : Prefix(p, n)[i] = p[i]
<1>1. \A i \in 1 .. n : p[i] \in STRING
  BY ElementOfSeq
<1>2. n \in Int /\ 1 \in Int
  OBVIOUS
<1> QED
  BY <1>1, <1>2, SubSeqProperties DEF Prefix

\* A path that is one segment longer.
LEMMA JoinFacts ==
    ASSUME NEW p \in Seq(STRING), NEW k \in STRING
    PROVE  /\ JoinPath(p, k) \in Seq(STRING) /\ Len(JoinPath(p, k)) = Len(p) + 1
           /\ \A i \in 1 .. Len(p) : JoinPath(p, k)[i] = p[i]
           /\ JoinPath(p, k)[Len(p) + 1] = k
  BY AppendProperties DEF JoinPath

\* The beginning of a path and its next segment are a longer beginning.
LEMMA PrefixStep ==
    ASSUME NEW p \in Seq(STRING), NEW n \in 0 .. Len(p) - 1
    PROVE  JoinPath(Prefix(p, n), p[n + 1]) = Prefix(p, n + 1)
<1> DEFINE q == Prefix(p, n)
           key == p[n + 1]
           a == JoinPath(q, key)
           b == Prefix(p, n + 1)
<1>1. n \in 0 .. Len(p) /\ n + 1 \in 0 .. Len(p) /\ n + 1 \in 1 .. Len(p)
  BY LenProperties
<1>2. key \in STRING
  BY <1>1, ElementOfSeq
<1>3. /\ b \in Seq(STRING) /\ Len(b) = n + 1
      /\ \A i \in 1 .. n + 1 : b[i] = p[i]
  BY <1>1, PrefixFacts
<1>4. q \in Seq(STRING) /\ Len(q) = n /\ \A i \in 1 .. n : q[i] = p[i]
  BY <1>1, PrefixFacts
<1> HIDE DEF q, key, b
<1>5. /\ a \in Seq(STRING) /\ Len(a) = n + 1 /\ a[n + 1] = key
      /\ \A i \in 1 .. n : a[i] = q[i]
  BY <1>2, <1>4, JoinFacts
<1> HIDE DEF a
<1>6. \A i \in 1 .. n + 1 : a[i] = b[i]
  BY <1>1, <1>3, <1>4, <1>5 DEF key
<1>7. a = b
  BY <1>3, <1>5, <1>6, SeqEqual
<1> QED
  BY <1>7 DEF a, b, q, key

\* A path is all of its segments.
LEMMA PrefixAll ==
    ASSUME NEW p \in Seq(STRING)
    PROVE  Prefix(p, Len(p)) = p /\ Prefix(p, 0) = Root
  BY SubSeqFull, SubSeqEmpty DEF Prefix, Root

\* Two documents have no secret in common.
LEMMA JoinPathInjective ==
    ASSUME NEW p \in Seq(STRING), NEW q \in Seq(STRING), NEW j \in STRING,
           NEW k \in STRING,
           JoinPath(p, j) = JoinPath(q, k)
    PROVE  p = q /\ j = k
<1> DEFINE a == JoinPath(p, j)
<1>1. /\ Len(a) = Len(p) + 1 /\ a[Len(p) + 1] = j
      /\ \A i \in 1 .. Len(p) : a[i] = p[i]
  BY JoinFacts
<1>2. /\ Len(a) = Len(q) + 1 /\ a[Len(q) + 1] = k
      /\ \A i \in 1 .. Len(q) : a[i] = q[i]
  <2>1. a = JoinPath(q, k)
    OBVIOUS
  <2> HIDE DEF a
  <2> QED
    BY <2>1, JoinFacts
<1> HIDE DEF a
<1>3. Len(p) \in Nat /\ Len(q) \in Nat
  BY LenProperties
<1>4. Len(p) = Len(q)
  BY <1>1, <1>2, <1>3
<1>5. j = k /\ \A i \in 1 .. Len(p) : p[i] = q[i]
  BY <1>1, <1>2, <1>4
<1> QED
  BY <1>4, <1>5, SeqEqual

-----------------------------------------------------------------------------
(* Folders and secrets.                                                      *)

\* What every document's path is.
LEMMA DocumentFacts ==
    ASSUME NEW d \in Documents
    PROVE  /\ d \in Seq(STRING) /\ Len(d) \in Nat \ {0}
           /\ \A n \in 0 .. Len(d) - 1 : Prefix(d, n) \in Folders
           /\ \A k \in Keys : JoinPath(d, k) \in SecretPaths
<1>1. d \in Seq(STRING) /\ d # << >> /\ Len(d) \in Nat
  BY WalkAssumption, LenProperties
<1>2. Len(d) # 0
  BY <1>1, EmptySeq
<1> QED
  BY <1>1, <1>2 DEF Folders, SecretPaths

\* What every folder's path is.
LEMMA FolderFacts ==
    ASSUME NEW folder \in Folders
    PROVE  folder \in Seq(STRING) /\ Len(folder) \in Nat
<1>1. Root \in Seq(STRING)
  BY DEF Root
<1>2. ASSUME NEW d \in Documents, NEW n \in 0 .. Len(d) - 1
      PROVE  Prefix(d, n) \in Seq(STRING)
  BY <1>2, DocumentFacts, PrefixFacts
<1>3. folder \in Seq(STRING)
  BY <1>1, <1>2 DEF Folders
<1> QED
  BY <1>3, LenProperties

\* The secrets of one document are known by its keys.
LEMMA SecretFacts ==
    ASSUME NEW d \in Documents, NEW k \in Keys, NEW e \in Documents, NEW j \in Keys,
           JoinPath(d, k) = JoinPath(e, j)
    PROVE  d = e /\ k = j
<1>1. d \in Seq(STRING) /\ e \in Seq(STRING)
  BY DocumentFacts
<1>2. k \in STRING /\ j \in STRING
  BY WalkAssumption
<1>3. \A x, y \in STRING : JoinPath(d, x) = JoinPath(e, y) => d = e /\ x = y
  BY <1>1, JoinPathInjective
<1> QED
  BY <1>2, <1>3, Zenon

\* A listing of a folder leads to the folders and to the documents in it.
LEMMA ListingFacts ==
    ASSUME NEW path \in Folders
    PROVE  /\ {JoinPath(path, key) : key \in FolderKeys(path)}
                = {Prefix(d, Len(path) + 1) :
                        d \in {e \in Under(path) : Len(e) > Len(path) + 1}}
           /\ {JoinPath(path, key) : key \in DocumentKeys(path)}
                = {d \in Under(path) : Len(d) = Len(path) + 1}
<1>1. ASSUME NEW d \in Under(path)
      PROVE  /\ d \in Documents /\ Len(path) \in 0 .. Len(d) - 1
             /\ JoinPath(path, d[Len(path) + 1]) = Prefix(d, Len(path) + 1)
  <2>1. /\ d \in Documents /\ Len(d) > Len(path) /\ Prefix(d, Len(path)) = path
    BY DEF Under
  <2>2. Len(path) \in 0 .. Len(d) - 1
    BY <2>1, DocumentFacts, FolderFacts
  <2> QED
    BY <2>1, <2>2, DocumentFacts, PrefixStep
<1>2. ASSUME NEW d \in Under(path), Len(d) = Len(path) + 1
      PROVE  JoinPath(path, d[Len(d)]) = d
  BY <1>1, <1>2, DocumentFacts, PrefixAll
<1>3. {JoinPath(path, key) : key \in FolderKeys(path)}
        = {Prefix(d, Len(path) + 1) : d \in {e \in Under(path) : Len(e) > Len(path) + 1}}
  BY <1>1 DEF FolderKeys
<1>4. {JoinPath(path, key) : key \in DocumentKeys(path)}
        = {d \in Under(path) : Len(d) = Len(path) + 1}
  BY <1>2 DEF DocumentKeys
<1> QED
  BY <1>3, <1>4

\* The keys that a document can have.
LEMMA KeyFacts ==
    ASSUME TypeOK, NEW d \in Documents
    PROVE  /\ docs[d] \in State /\ docs[d].keys \subseteq Keys
           /\ docs[d].version \in Nat /\ docs[d].exists \in BOOLEAN
<1>1. docs[d] \in State
  BY DEF TypeOK
<1> QED
  BY <1>1 DEF State

\* Nothing is listed of any document.
LEMMA NothingListed ==
    ASSUME secrets = Nothing, NEW d \in Documents
    PROVE  Listed(d) = {}
  BY DocumentFacts DEF Listed, Nothing

-----------------------------------------------------------------------------
(* The steps.                                                                *)

\* The walk begins at the root, with nothing.
LEMMA ListSecretsKeeps ==
    ASSUME WalkInv, ListSecrets
    PROVE  WalkInv'
<1>1. /\ docs' = docs /\ pc' = "list" /\ pathsToScan' = {Root} /\ seenPaths' = {}
      /\ pending' = {} /\ secrets' = Nothing /\ err' = "none" /\ budget' = budget
      /\ was' = [d \in Documents |-> {docs[d]}]
  BY DEF ListSecrets
<1>2. \A d \in Documents : docs'[d] \in was'[d] /\ docs[d] \in State
  BY <1>1, KeyFacts DEF WalkInv
<1>3. TypeOK'
  <2>1. Nothing \in [SecretPaths -> Nat]
    BY DEF Nothing
  <2>2. was' \in [Documents -> SUBSET State]
    BY <1>1, <1>2
  <2> QED
    BY <1>1, <2>1, <2>2 DEF WalkInv, TypeOK, PC, Errors, Folders
<1>4. \A d \in Documents : Listed(d)' = {}
  BY <1>1, DocumentFacts DEF Listed, Nothing
<1>5. /\ DocsInv' /\ HistoryInv' /\ ControlInv' /\ OnceInv' /\ CoverInv'
      /\ ListedAsItWas' /\ NotFoundForAReason'
  BY <1>1, <1>2, <1>4 DEF WalkInv, DocsInv, HistoryInv, ControlInv, OnceInv, CoverInv,
                          ListedAsItWas, NotFoundForAReason
<1> QED
  BY <1>3, <1>5 DEF WalkInv

\* A walk that fails has nothing.
LEMMA FailKeeps ==
    ASSUME WalkInv, NEW error \in Errors, Fail(error), UNCHANGED <<docs, was>>,
           pc \in {"list", "get"},
           budget' \in [faults : Nat, writes : Nat],
           error = "not_found" => \E d \in pending : ~Found(d)
    PROVE  WalkInv'
<1>1. /\ docs' = docs /\ was' = was /\ pc' = "failed" /\ err' = error
      /\ pathsToScan' = {} /\ seenPaths' = {} /\ pending' = {} /\ secrets' = Nothing
  BY DEF Fail
<1>2. TypeOK'
  <2>1. Nothing \in [SecretPaths -> Nat]
    BY DEF Nothing
  <2> QED
    BY <1>1, <2>1 DEF WalkInv, TypeOK, PC
<1>3. \A d \in Documents : Listed(d)' = {}
  BY <1>1, DocumentFacts DEF Listed, Nothing
<1>4. NotFoundForAReason'
  <2> SUFFICES ASSUME error = "not_found"
               PROVE  \E d \in Documents :
                        (\E w \in was[d] : w.version = 0) /\ (\E w \in was[d] : w.exists)
    BY <1>1 DEF NotFoundForAReason
  <2>1. PICK d \in pending : ~Found(d)
    OBVIOUS
  <2>2. d \in Documents /\ docs[d] \in was[d]
    BY DEF WalkInv, TypeOK, HistoryInv
  <2>3. docs[d].version = 0
    BY <2>1, <2>2, KeyFacts DEF WalkInv, Found
  <2>4. \E w \in was[d] : w.exists
    BY DEF WalkInv, HistoryInv
  <2> QED
    BY <2>2, <2>3, <2>4
<1>5. /\ DocsInv' /\ HistoryInv' /\ ControlInv' /\ OnceInv' /\ CoverInv' /\ ListedAsItWas'
  BY <1>1, <1>3 DEF WalkInv, DocsInv, HistoryInv, ControlInv, OnceInv, CoverInv,
                    ListedAsItWas
<1> QED
  BY <1>2, <1>4, <1>5 DEF WalkInv

\* Every way in which a walk can fail.
LEMMA FailuresKeep ==
    ASSUME WalkInv,
           CallFails \/ \E d \in pending : GetNotFound(d) \/ GetUnsupported(d)
    PROVE  WalkInv'
<1>1. CASE CallFails
  <2>1. budget' \in [faults : Nat, writes : Nat]
    BY <1>1 DEF WalkInv, TypeOK, CallFails, Spend
  <2> QED
    BY <1>1, <2>1, FailKeeps DEF CallFails, Errors
<1>2. CASE \E d \in pending : GetNotFound(d)
  BY <1>2, FailKeeps DEF GetNotFound, Errors, WalkInv, TypeOK
<1>3. CASE \E d \in pending : GetUnsupported(d)
  BY <1>3, FailKeeps DEF GetUnsupported, Errors, WalkInv, TypeOK
<1> QED
  BY <1>1, <1>2, <1>3

\* The next walk begins anew.
LEMMA ReturnKeeps ==
    ASSUME WalkInv, Return
    PROVE  WalkInv'
<1>1. /\ docs' = docs /\ pc' = "idle" /\ err' = "none" /\ budget' = budget
      /\ pathsToScan' = {} /\ seenPaths' = {} /\ pending' = {} /\ secrets' = Nothing
      /\ was' = [d \in Documents |-> {}]
  BY DEF Return
<1>2. TypeOK'
  <2>1. Nothing \in [SecretPaths -> Nat]
    BY DEF Nothing
  <2> QED
    BY <1>1, <2>1 DEF WalkInv, TypeOK, PC, Errors
<1>3. \A d \in Documents : Listed(d)' = {}
  BY <1>1, DocumentFacts DEF Listed, Nothing
<1>4. /\ DocsInv' /\ HistoryInv' /\ ControlInv' /\ OnceInv' /\ CoverInv' /\ ListedAsItWas'
      /\ NotFoundForAReason'
  BY <1>1, <1>3 DEF WalkInv, DocsInv, HistoryInv, ControlInv, OnceInv, CoverInv,
                    ListedAsItWas, NotFoundForAReason
<1> QED
  BY <1>2, <1>4 DEF WalkInv

\* What a listing does: it replaces a folder by those in it, and its documents
\* are next.
LEMMA ListKeysFacts ==
    ASSUME WalkInv, NEW path \in pathsToScan, ListKeys(path)
    PROVE  /\ path \in Folders /\ path \in Seq(STRING) /\ Len(path) \in Nat
           /\ seenPaths' = seenPaths \cup {path}
           /\ pathsToScan' =
                (pathsToScan \cup {Prefix(d, Len(path) + 1) :
                        d \in {e \in Under(path) : Len(e) > Len(path) + 1}}) \ seenPaths'
           /\ pending' = {d \in Under(path) : Len(d) = Len(path) + 1}
           /\ \A d \in Documents : d \in Under(path) <=>
                docs[d].exists /\ Len(d) > Len(path) /\ Prefix(d, Len(path)) = path
           /\ Under(path) \subseteq Documents
           /\ pc = "list" /\ pc' = Continue(pending', pathsToScan')
           /\ UNCHANGED <<docs, secrets, err, was, budget>>
<1>1. path \in Folders
  BY DEF WalkInv, TypeOK
<1> QED
  BY <1>1, FolderFacts, ListingFacts DEF ListKeys, Under

\* A listing loses no way down, and what it finds is there.
LEMMA ListKeysKeeps ==
    ASSUME WalkInv, NEW path \in pathsToScan, ListKeys(path)
    PROVE  WalkInv'
<1> USE ListKeysFacts
<1>1. TypeOK'
  <2>1. ASSUME NEW d \in Under(path), Len(d) > Len(path) + 1
        PROVE  Prefix(d, Len(path) + 1) \in Folders
    <3>1. d \in Documents /\ Len(path) + 1 \in 0 .. Len(d) - 1
      BY <2>1, DocumentFacts
    <3> QED
      BY <3>1, DocumentFacts
  <2>2. pathsToScan' \subseteq Folders /\ seenPaths' \subseteq Folders
    BY <2>1 DEF WalkInv, TypeOK
  <2>3. pending' \subseteq Documents /\ pc' \in PC
    BY DEF PC, Continue
  <2> QED
    BY <2>2, <2>3 DEF WalkInv, TypeOK
<1>2. DocsInv' /\ ListedAsItWas' /\ NotFoundForAReason'
  BY DEF WalkInv, DocsInv, ListedAsItWas, NotFoundForAReason, Listed
<1>3. \A d \in Documents : Listed(d)' = Listed(d)
  BY DEF Listed
<1>4. HistoryInv'
  BY DEF WalkInv, HistoryInv, Continue
<1>5. ControlInv'
  BY DEF WalkInv, ControlInv, Continue
<1>6. ASSUME NEW d \in pending'
      PROVE  d \in Documents /\ Prefix(d, Len(d) - 1) = path /\ Len(d) = Len(path) + 1
  BY <1>6, DocumentFacts
<1>7. OnceInv'
  BY <1>3, <1>6 DEF WalkInv, ControlInv, OnceInv
<1>8. CoverInv'
  <2>1. SUFFICES ASSUME NEW d \in Documents, NEW k \in Keys, Steady(d, k),
                        NEW n \in 0 .. Len(d) - 1, Prefix(d, n) \in seenPaths',
                        k \notin Listed(d), d \notin pending'
                 PROVE  \E m \in n + 1 .. Len(d) - 1 : Prefix(d, m) \in pathsToScan'
    BY <1>3 DEF CoverInv, Steady
  <2>2. d \in Seq(STRING) /\ Len(d) \in Nat /\ n \in 0 .. Len(d)
    BY DocumentFacts
  <2>3. d \notin pending /\ pathsToScan \cap seenPaths = {}
    BY DEF WalkInv, ControlInv
  <2>4. docs[d].exists
    <3>1. docs[d] \in was[d]
      BY DEF WalkInv, HistoryInv
    <3>2. k \in docs[d].keys
      BY <2>1, <3>1 DEF Steady
    <3> QED
      BY <3>2 DEF WalkInv, DocsInv
  <2>5. \A m \in 0 .. Len(d) - 1 :
            Prefix(d, m) \in seenPaths =>
                \E l \in m + 1 .. Len(d) - 1 : Prefix(d, l) \in pathsToScan
    <3>1. /\ pc = "list" /\ CoverInv /\ Steady(d, k)
          /\ k \notin Listed(d) /\ d \notin pending
      BY <2>1, <2>3 DEF WalkInv
    <3> HIDE ListKeysFacts
    <3> QED
      BY <3>1 DEF CoverInv
  <2>6. \A m \in 0 .. Len(d) : Len(Prefix(d, m)) = m
    BY <2>2, PrefixFacts
  <2>7. CASE path = Prefix(d, Len(path)) /\ Len(path) \in 0 .. Len(d) - 1
    <3> DEFINE next == Len(path) + 1
    <3>1. d \in Under(path)
      BY <2>4, <2>7
    <3>2. next \in 0 .. Len(d) - 1 /\ Len(d) > next
      BY <2>1, <2>2, <2>7, <3>1
    <3>3. Prefix(d, next) # path
      BY <2>6, <3>2
    <3>4. Prefix(d, next) \in pathsToScan' \cup seenPaths
      BY <3>1, <3>2, <3>3
    <3>5. ASSUME NEW m \in 0 .. Len(d) - 1, Prefix(d, m) \in seenPaths, m >= next
          PROVE  \E l \in m + 1 .. Len(d) - 1 : Prefix(d, l) \in pathsToScan'
      <4>1. PICK l \in m + 1 .. Len(d) - 1 : Prefix(d, l) \in pathsToScan
        BY <2>5, <3>5
      <4>2. Prefix(d, l) # path
        BY <2>2, <2>6, <3>5, <4>1
      <4> QED
        BY <2>3, <4>1, <4>2
    <3>6. \E m \in next .. Len(d) - 1 : Prefix(d, m) \in pathsToScan'
      BY <2>2, <3>2, <3>4, <3>5
    <3>7. CASE n <= Len(path)
      BY <2>2, <3>2, <3>6, <3>7
    <3>8. CASE n > Len(path)
      <4>1. Prefix(d, n) # path
        BY <2>2, <2>6, <3>8
      <4> QED
        BY <2>1, <2>2, <3>2, <3>5, <3>8, <4>1
    <3> QED
      BY <2>2, <3>7, <3>8
  <2>8. CASE ~(path = Prefix(d, Len(path)) /\ Len(path) \in 0 .. Len(d) - 1)
    <3>1. \A m \in 0 .. Len(d) - 1 : Prefix(d, m) # path
      BY <2>2, <2>6, <2>8
    <3>2. PICK l \in n + 1 .. Len(d) - 1 : Prefix(d, l) \in pathsToScan
      BY <2>1, <2>5, <3>1
    <3>3. l \in 0 .. Len(d) - 1
      BY <2>2
    <3> QED
      BY <2>3, <3>1, <3>2, <3>3
  <2> QED
    BY <2>7, <2>8
<1> QED
  BY <1>1, <1>2, <1>4, <1>5, <1>7, <1>8 DEF WalkInv

\* What a read of a document does: all its keys are listed with its version,
\* and nothing else changes in the list.
LEMMA GetSecretFacts ==
    ASSUME WalkInv, NEW d \in pending, GetSecret(d)
    PROVE  /\ d \in Documents /\ docs[d] \in was[d] /\ docs[d].version > 0
           /\ Listed(d) = {} /\ Listed(d)' = docs[d].keys
           /\ \A k \in docs[d].keys : secrets'[JoinPath(d, k)] = docs[d].version
           /\ \A e \in Documents \ {d} :
                /\ Listed(e)' = Listed(e)
                /\ \A k \in Keys : secrets'[JoinPath(e, k)] = secrets[JoinPath(e, k)]
           /\ secrets' \in [SecretPaths -> Nat]
           /\ pending' = pending \ {d} /\ pc = "get"
           /\ pc' = Continue(pending', pathsToScan)
           /\ UNCHANGED <<docs, pathsToScan, seenPaths, err, was, budget>>
<1>1. /\ d \in Documents /\ docs[d] \in was[d] /\ pc = "get"
  BY DEF WalkInv, TypeOK, HistoryInv, GetSecret
<1>2. docs[d].version > 0 /\ docs[d].version \in Nat /\ docs[d].keys \subseteq Keys
  BY <1>1, KeyFacts DEF WalkInv, GetSecret, Found
<1>3. secrets' = [p \in SecretPaths |->
            IF p \in {JoinPath(d, k) : k \in docs[d].keys}
                THEN docs[d].version ELSE secrets[p]]
  BY DEF GetSecret
<1>4. Listed(d) = {}
  BY <1>1 DEF WalkInv, OnceInv
<1>5. \A k \in Keys : secrets'[JoinPath(d, k)] =
            IF k \in docs[d].keys THEN docs[d].version ELSE secrets[JoinPath(d, k)]
  <2>1. ASSUME NEW k \in Keys, JoinPath(d, k) \in {JoinPath(d, j) : j \in docs[d].keys}
        PROVE  k \in docs[d].keys
    BY <1>1, <1>2, <2>1, SecretFacts
  <2> QED
    BY <1>1, <1>3, <2>1, DocumentFacts
<1>6. ASSUME NEW e \in Documents \ {d}, NEW k \in Keys
      PROVE  secrets'[JoinPath(e, k)] = secrets[JoinPath(e, k)]
  <2>1. JoinPath(e, k) \notin {JoinPath(d, j) : j \in docs[d].keys}
    BY <1>1, <1>2, SecretFacts
  <2> QED
    BY <1>3, <2>1, DocumentFacts
<1>7. Listed(d)' = docs[d].keys
  BY <1>2, <1>4, <1>5 DEF Listed
<1>8. \A e \in Documents \ {d} : Listed(e)' = Listed(e)
  BY <1>6 DEF Listed
<1>9. secrets' \in [SecretPaths -> Nat]
  BY <1>2, <1>3 DEF WalkInv, TypeOK
<1> QED
  BY <1>1, <1>2, <1>4, <1>5, <1>6, <1>7, <1>8, <1>9 DEF GetSecret

\* A read lists a document as it is, which is what a steady one needs.
LEMMA GetSecretKeeps ==
    ASSUME WalkInv, NEW d \in pending, GetSecret(d)
    PROVE  WalkInv'
<1> USE GetSecretFacts
<1>1. TypeOK'
  BY DEF WalkInv, TypeOK, PC, Continue
<1>2. DocsInv' /\ HistoryInv' /\ NotFoundForAReason'
  BY DEF WalkInv, DocsInv, HistoryInv, NotFoundForAReason, Continue
<1>3. ControlInv'
  BY DEF WalkInv, ControlInv, Continue
<1>4. OnceInv'
  BY DEF WalkInv, OnceInv
<1>5. CoverInv'
  <2>1. SUFFICES ASSUME NEW e \in Documents, NEW k \in Keys, Steady(e, k),
                        NEW n \in 0 .. Len(e) - 1, Prefix(e, n) \in seenPaths,
                        ~(k \in Listed(e)'), e \notin pending'
                 PROVE  \E m \in n + 1 .. Len(e) - 1 : Prefix(e, m) \in pathsToScan
    BY DEF CoverInv, Steady
  <2>2. CASE e = d
    BY <2>1, <2>2 DEF Steady
  <2>3. CASE e # d
    <3>1. k \notin Listed(e) /\ e \notin pending /\ pc = "get"
      BY <2>1, <2>3
    <3> QED
      BY <2>1, <3>1 DEF WalkInv, CoverInv
  <2> QED
    BY <2>2, <2>3
<1>6. ListedAsItWas'
  <2>1. SUFFICES ASSUME NEW e \in Documents, Listed(e)' # {}
                 PROVE  \E w \in was[e] :
                            /\ Listed(e)' = w.keys
                            /\ \A k \in w.keys : secrets'[JoinPath(e, k)] = w.version
    BY DEF ListedAsItWas
  <2>2. CASE e = d
    BY <2>2
  <2>3. CASE e # d
    <3>1. PICK w \in was[e] :
            Listed(e) = w.keys /\ \A k \in w.keys : secrets[JoinPath(e, k)] = w.version
      BY <2>1, <2>3 DEF WalkInv, ListedAsItWas
    <3>2. w.keys \subseteq Keys
      BY <3>1 DEF Listed
    <3> QED
      BY <2>3, <3>1, <3>2
  <2> QED
    BY <2>2, <2>3
<1> QED
  BY <1>1, <1>2, <1>3, <1>4, <1>5, <1>6 DEF WalkInv

\* A change of a document adds to what it has been.
LEMMA BecomesKeeps ==
    ASSUME WalkInv, NEW d \in Documents, NEW state \in State, Becomes(d, state),
           state.keys # {} => state.exists /\ state.version > 0
    PROVE  WalkInv'
<1>1. /\ docs' = [docs EXCEPT ![d] = state]
      /\ was' = IF pc = "idle" THEN was ELSE [was EXCEPT ![d] = @ \cup {state}]
      /\ UNCHANGED walkVars
  BY DEF Becomes
<1>2. was \in [Documents -> SUBSET State] /\ docs \in [Documents -> State]
  BY DEF WalkInv, TypeOK
<1>3. /\ was' \in [Documents -> SUBSET State] /\ docs' \in [Documents -> State]
      /\ \A e \in Documents : was[e] \subseteq was'[e]
  BY <1>1, <1>2
<1>4. budget' \in [faults : Nat, writes : Nat]
  BY DEF WalkInv, TypeOK, Becomes, Spend
<1>5. TypeOK'
  BY <1>1, <1>3, <1>4 DEF WalkInv, TypeOK, walkVars
<1>6. DocsInv'
  BY <1>1, <1>2 DEF WalkInv, DocsInv
<1>7. HistoryInv'
  <2>1. ASSUME pc # "idle", NEW e \in Documents
        PROVE  docs'[e] \in was'[e]
    BY <1>1, <1>2, <2>1 DEF WalkInv, HistoryInv
  <2>2. \A e \in pending : e \in Documents
    BY DEF WalkInv, TypeOK
  <2> QED
    BY <1>1, <1>3, <2>1, <2>2 DEF WalkInv, HistoryInv, walkVars
<1>8. ControlInv' /\ OnceInv'
  BY <1>1 DEF WalkInv, ControlInv, OnceInv, Listed, walkVars
<1>9. CoverInv'
  <2>1. \A e \in Documents, k \in Keys : Steady(e, k)' => Steady(e, k)
    BY <1>3 DEF Steady
  <2>2. \A e \in Documents : Listed(e)' = Listed(e)
    BY <1>1 DEF Listed, walkVars
  <2> QED
    BY <1>1, <2>1, <2>2 DEF WalkInv, CoverInv, walkVars
<1>10. ListedAsItWas' /\ NotFoundForAReason'
  BY <1>1, <1>3 DEF WalkInv, ListedAsItWas, NotFoundForAReason, Listed, walkVars
<1> QED
  BY <1>5, <1>6, <1>7, <1>8, <1>9, <1>10 DEF WalkInv

\* Whatever others do to the documents is such a change.
LEMMA EnvironmentKeeps ==
    ASSUME WalkInv, Environment
    PROVE  WalkInv'
<1>1. PICK d \in Documents :
        \/ \E keys \in SUBSET Keys : WriteDocument(d, keys)
        \/ DeleteVersion(d) \/ PutMetadata(d) \/ DeleteMetadata(d)
  BY DEF Environment
<1>2. docs[d] \in State /\ docs[d].version \in Nat /\ docs[d].exists \in BOOLEAN
  BY KeyFacts DEF WalkInv
<1>3. TRUE \in BOOLEAN /\ FALSE \in BOOLEAN
  OBVIOUS
<1>4. ASSUME NEW keys \in SUBSET Keys, WriteDocument(d, keys)
      PROVE  WalkInv'
  <2> DEFINE new == [exists |-> TRUE, version |-> docs[d].version + 1, keys |-> keys]
  <2>1. new \in State /\ new.exists /\ new.version > 0
    BY <1>2, <1>3 DEF State
  <2>2. Becomes(d, new)
    BY <1>4 DEF WriteDocument
  <2> HIDE DEF new
  <2> QED
    BY <2>1, <2>2, BecomesKeeps
<1>5. CASE DeleteVersion(d)
  <2> DEFINE new == [docs[d] EXCEPT !.keys = {}]
  <2>1. \A s \in State :
            [s EXCEPT !.keys = {}] \in State /\ [s EXCEPT !.keys = {}].keys = {}
    BY DEF State
  <2>2. new \in State /\ new.keys = {}
    BY <1>2, <2>1
  <2>3. Becomes(d, new)
    BY <1>5 DEF DeleteVersion
  <2> HIDE DEF new
  <2> QED
    BY <2>2, <2>3, BecomesKeeps
<1>6. CASE PutMetadata(d)
  <2> DEFINE new == [Absent EXCEPT !.exists = TRUE]
  <2>1. new \in State /\ new.keys = {}
    BY <1>3 DEF State, Absent
  <2>2. Becomes(d, new)
    BY <1>6 DEF PutMetadata
  <2> HIDE DEF new
  <2> QED
    BY <2>1, <2>2, BecomesKeeps
<1>7. CASE DeleteMetadata(d)
  <2>1. Absent \in State /\ Absent.keys = {}
    BY <1>3 DEF State, Absent
  <2> QED
    BY <1>7, <2>1, BecomesKeeps DEF DeleteMetadata
<1> QED
  BY <1>1, <1>4, <1>5, <1>6, <1>7

-----------------------------------------------------------------------------
(* The theorems.                                                             *)

\* The invariant holds before the first walk.
LEMMA InitWalk == Init => WalkInv
<1> SUFFICES ASSUME Init PROVE WalkInv
  OBVIOUS
<1>1. docs \in [Documents -> State] /\ DocsInv
  <2>1. TRUE \in BOOLEAN /\ FALSE \in BOOLEAN
    OBVIOUS
  <2>2. ASSUME NEW s \in {Absent, [Absent EXCEPT !.exists = TRUE]} \cup
                            [exists : {TRUE}, version : {1}, keys : SUBSET Keys]
        PROVE  s \in State /\ (s.keys # {} => s.exists /\ s.version > 0)
    <3>1. Absent \in State /\ Absent.keys = {}
      BY <2>1 DEF Absent, State
    <3> DEFINE bare == [Absent EXCEPT !.exists = TRUE]
    <3>2. bare \in State /\ bare.keys = {}
      BY <2>1 DEF Absent, State
    <3> HIDE DEF bare
    <3>3. ASSUME s \in [exists : {TRUE}, version : {1}, keys : SUBSET Keys]
          PROVE  s \in State /\ s.exists /\ s.version > 0
      <4>1. s.exists \in {TRUE} /\ s.version \in {1} /\ s.keys \in SUBSET Keys
        BY <3>3
      <4>2. s = [exists |-> s.exists, version |-> s.version, keys |-> s.keys]
        BY <3>3
      <4>3. s.exists \in BOOLEAN /\ s.exists
        BY <4>1, Zenon
      <4>4. s.version \in Nat /\ s.version > 0
        BY <4>1
      <4>5. s \in State
        BY <4>1, <4>2, <4>3, <4>4 DEF State
      <4> QED
        BY <4>3, <4>4, <4>5
    <3> QED
      BY <2>2, <3>1, <3>2, <3>3 DEF bare
  <2> QED
    BY <2>2 DEF Init, DocsInv
<1>2. Nothing \in [SecretPaths -> Nat]
  BY DEF Nothing
<1>3. budget \in [faults : Nat, writes : Nat]
  BY WalkAssumption DEF Init
<1>4. TypeOK
  BY <1>1, <1>2, <1>3 DEF Init, TypeOK, PC, Errors
<1>5. \A d \in Documents : Listed(d) = {}
  BY NothingListed DEF Init
<1>6. /\ HistoryInv /\ ControlInv /\ OnceInv /\ CoverInv /\ ListedAsItWas
      /\ NotFoundForAReason
  BY <1>5 DEF Init, HistoryInv, ControlInv, OnceInv, CoverInv, ListedAsItWas,
              NotFoundForAReason
<1> QED
  BY <1>1, <1>4, <1>6 DEF WalkInv

\* Every step keeps the invariant.
LEMMA NextKeeps ==
    ASSUME WalkInv, [Next]_vars
    PROVE  WalkInv'
<1>1. CASE Walk
  BY <1>1, ListSecretsKeeps, ListKeysKeeps, GetSecretKeeps, FailuresKeep, ReturnKeeps
     DEF Walk
<1>2. CASE UNCHANGED vars
  BY <1>2 DEF WalkInv, TypeOK, DocsInv, HistoryInv, ControlInv, OnceInv, CoverInv, Steady,
              Listed, ListedAsItWas, NotFoundForAReason, vars, walkVars
<1> QED
  BY <1>1, <1>2, EnvironmentKeeps DEF Next

\* The invariant holds in every reachable state.
THEOREM WalkInvariant == Spec => []WalkInv
  BY InitWalk, NextKeeps, PTL DEF Spec

\* Every variable of the walk keeps its type: in particular it never leaves the
\* folders and the documents that there can be.
THEOREM WalkTypes == Spec => []TypeOK
<1>1. WalkInv => TypeOK
  BY DEF WalkInv
<1> QED
  BY <1>1, WalkInvariant, PTL

\* A list never mixes two versions of a document.
THEOREM ListsAreConsistent == Spec => []ListedAsItWas
<1>1. WalkInv => ListedAsItWas
  BY DEF WalkInv
<1> QED
  BY <1>1, WalkInvariant, PTL

\* A walk that ends has found every secret that was there all the time, however
\* deep its folder, whatever is a document and a folder at once, and whatever
\* others do to other documents.
THEOREM ListsAreComplete == Spec => []SteadyIsListed
<1>1. ASSUME WalkInv
      PROVE  SteadyIsListed
  <2>1. SUFFICES ASSUME pc = "done", NEW d \in Documents, NEW k \in Keys, Steady(d, k)
                 PROVE  k \in Listed(d)
    BY DEF SteadyIsListed, Steady
  <2>2. pathsToScan = {} /\ pending = {} /\ Root \in seenPaths
    BY <1>1, <2>1 DEF WalkInv, ControlInv
  <2>3. 0 \in 0 .. Len(d) - 1 /\ Prefix(d, 0) = Root
    BY DocumentFacts, PrefixAll
  <2> QED
    BY <1>1, <2>1, <2>2, <2>3 DEF WalkInv, CoverInv
<1> QED
  BY <1>1, WalkInvariant, PTL

\* The documents alone fail a walk only if one of them had no version for a
\* while.
THEOREM FailuresHaveAReason == Spec => []NotFoundForAReason
<1>1. WalkInv => NotFoundForAReason
  BY DEF WalkInv
<1> QED
  BY <1>1, WalkInvariant, PTL

=============================================================================
