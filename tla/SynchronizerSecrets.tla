------------------------- MODULE SynchronizerSecrets -------------------------
(***************************************************************************)
(* What a synchronization takes, leaves and creates, for all paths,         *)
(* services, bounds and numbers of retries.                                 *)
(*                                                                         *)
(* Removals and restores are planned while the secrets are processed, and   *)
(* done after the services were updated, or never.  The invariants follow   *)
(* them: which secret of a path no removal takes, which path has a parent   *)
(* or gets one back, which version ids and names are in use, and which      *)
(* reference to a secret that is to be taken is moved before.               *)
(***************************************************************************)
EXTENDS SynchronizerProofs

-----------------------------------------------------------------------------
(* No path loses its last secret.                                            *)

\* Before the first secret is processed, while they are, and until the last
\* old version is removed.
Ahead == {"list_services", "map_secrets", "list_external"}
Updating == Processing \cup {"apply", "remove"}

\* A removal takes secrets of its path only.
OfItsPath(ss, n, removals) ==
    \A i \in DOMAIN removals : \A id \in removals[i].left :
        /\ id < n
        /\ \A x \in ss : x.id = id => x.path = removals[i].path

\* Each path with a removal has a secret that no removal takes.
Spared(ss, removals) ==
    \A i \in DOMAIN removals :
        \E x \in ss : /\ x.path = removals[i].path
                      /\ \A j \in DOMAIN removals : x.id \notin removals[j].left

\* The parents that were mapped are there.
ParentsThere(ss, map) ==
    \A p \in Paths : map[p].id # 0 =>
        \E x \in ss : x.id = map[p].id /\ x.path = p /\ x.parent

\* Of one that is still to be processed there is no removal yet.
NotYetProcessed(removals, paths) ==
    \A i \in DOMAIN removals : removals[i].path \notin paths

KeepInv ==
    /\ budget.operator <= MaxOperator
    /\ OfItsPath(secrets, nextId, payload.removals)
    /\ pc \in Ahead => payload.removals = <<>>
    /\ pc \in Processing => NotYetProcessed(payload.removals, todo)
    /\ pc \in {"create_secret", "create_version"} =>
            \A f \in fetched : f.path \in todo
    /\ budget.operator = MaxOperator =>
            /\ pc \in Processing \cup {"list_external"}
                    => ParentsThere(secrets, payload.map)
            /\ pc \in Updating => Spared(secrets, payload.removals)
    /\ pc = "cleanup" =>
            \A i \in DOMAIN payload.removals : payload.removals[i].path \in Orphans

-----------------------------------------------------------------------------
(* Operators.                                                                *)

\* What agreement says of ids: each is of one secret, and what was mapped for a
\* path is of that path.
LEMMA AgreedFacts ==
    ASSUME TypeOK, Agreed
    PROVE  /\ \A x, y \in secrets : x.id = y.id => x = y
           /\ \A p \in Paths : \A id \in payload.map[p].versions :
                /\ id < nextId
                /\ \A x \in secrets : x.id = id => x.path = p
<1>1. PICK name \in Naming : /\ EngineAgrees(name, secrets, nextId, services)
                            /\ PayloadAgrees(name, nextId, payload)
    BY DEF Agreed
<1>2. \A x \in secrets : name[x.id].path = x.path /\ name[x.id].name = NameOf(x)
    BY <1>1 DEF EngineAgrees, OfPathNamed
<1>3. \A x, y \in secrets : NameOf(x) = NameOf(y) => x = y
    BY <1>1 DEF EngineAgrees
<1>4. \A p \in Paths : \A id \in payload.map[p].versions :
            id < nextId /\ name[id].path = p
    BY <1>1 DEF PayloadAgrees, EntryAgrees
<1>5. QED
    BY <1>2, <1>3, <1>4

\* A removal crossed off, or one with less left, takes nothing more.
Within(new, old) ==
    \A i \in DOMAIN new : \E j \in DOMAIN old :
        new[i].path = old[j].path /\ new[i].left \subseteq old[j].left

LEMMA CrossedOffWithin ==
    ASSUME NEW pl \in Payload, pl.removals # <<>>, NEW id
    PROVE  /\ Within(CrossedOff(pl, id).removals, pl.removals)
           /\ CrossedOff(pl, id).map = pl.map
           /\ CrossedOff(pl, id).listed = pl.listed
           /\ CrossedOff(pl, id).services = pl.services
<1> DEFINE left == Head(pl.removals).left \ {id}
           head == [Head(pl.removals) EXCEPT !.left = left]
           tail == Tail(pl.removals)
           new  == CrossedOff(pl, id).removals
<1>1. /\ pl.removals \in Seq(Removal) /\ Len(pl.removals) \in Nat \ {0}
      /\ Head(pl.removals) = pl.removals[1] /\ Head(pl.removals) \in Removal
      /\ tail \in Seq(Removal) /\ Len(tail) = Len(pl.removals) - 1
      /\ \A i \in 1 .. Len(tail) : tail[i] = pl.removals[i + 1]
    BY HeadTailProperties, CrossedOffType, EmptySeq DEF Payload
<1>2. /\ head \in Removal /\ head.path = pl.removals[1].path
      /\ head.left \subseteq pl.removals[1].left
    BY <1>1 DEF Removal
<1>3. new = IF left = {} THEN tail ELSE <<head>> \o tail
    BY DEF CrossedOff, Payload
<1>4. /\ CrossedOff(pl, id).map = pl.map
      /\ CrossedOff(pl, id).listed = pl.listed
      /\ CrossedOff(pl, id).services = pl.services
    BY DEF CrossedOff, Payload
<1> HIDE DEF head, tail, left, new
<1>5. Within(tail, pl.removals)
    <2>1. ASSUME NEW i \in DOMAIN tail
          PROVE  i + 1 \in DOMAIN pl.removals /\ tail[i] = pl.removals[i + 1]
        BY <1>1
    <2>2. QED
        BY <2>1 DEF Within
<1>6. Within(<<head>> \o tail, pl.removals)
    <2>1. /\ DOMAIN (<<head>> \o tail) = 1 .. Len(tail) + 1
          /\ (<<head>> \o tail)[1] = head
          /\ \A i \in 2 .. Len(tail) + 1 : (<<head>> \o tail)[i] = tail[i - 1]
        BY <1>1, <1>2
    <2>2. \A i \in 2 .. Len(tail) + 1 : (<<head>> \o tail)[i] = pl.removals[i]
        BY <1>1, <2>1
    <2>3. /\ DOMAIN pl.removals = 1 .. Len(pl.removals)
          /\ Len(pl.removals) = Len(tail) + 1
        BY <1>1
    <2>4. ASSUME NEW i \in DOMAIN (<<head>> \o tail)
          PROVE  /\ i \in DOMAIN pl.removals
                 /\ (<<head>> \o tail)[i].path = pl.removals[i].path
                 /\ (<<head>> \o tail)[i].left \subseteq pl.removals[i].left
        <3>1. i = 1 \/ i \in 2 .. Len(tail) + 1
            BY <1>1, <2>1
        <3>2. i \in DOMAIN pl.removals
            BY <2>1, <2>3
        <3>3. CASE i = 1
            BY <1>2, <2>1, <3>2, <3>3
        <3>4. CASE i \in 2 .. Len(tail) + 1
            BY <2>2, <3>2, <3>4
        <3>5. QED
            BY <3>1, <3>3, <3>4
    <2>5. QED
        BY <2>4 DEF Within
<1>7. QED
    BY <1>3, <1>4, <1>5, <1>6 DEF new

\* A removal that is crossed off is of one secret.
LEMMA CrossedOffKeeps ==
    ASSUME NEW pl \in Payload, pl.removals # <<>>, NEW id, NEW other, other # id,
           NEW i \in DOMAIN pl.removals, other \in pl.removals[i].left
    PROVE  \E j \in DOMAIN CrossedOff(pl, id).removals :
                other \in CrossedOff(pl, id).removals[j].left
<1> DEFINE left == Head(pl.removals).left \ {id}
           head == [Head(pl.removals) EXCEPT !.left = left]
           tail == Tail(pl.removals)
           new  == CrossedOff(pl, id).removals
<1>1. /\ pl.removals \in Seq(Removal) /\ Len(pl.removals) \in Nat \ {0}
      /\ DOMAIN pl.removals = 1 .. Len(pl.removals)
      /\ Head(pl.removals) = pl.removals[1] /\ Head(pl.removals) \in Removal
      /\ tail \in Seq(Removal) /\ Len(tail) = Len(pl.removals) - 1
      /\ DOMAIN tail = 1 .. Len(tail)
      /\ \A k \in 1 .. Len(tail) : tail[k] = pl.removals[k + 1]
    BY HeadTailProperties, CrossedOffType, EmptySeq DEF Payload
<1>2. head \in Removal /\ head.left = left
    BY <1>1 DEF Removal
<1>3. new = IF left = {} THEN tail ELSE <<head>> \o tail
    BY DEF CrossedOff, Payload
<1>4. i = 1 => other \in left
    BY <1>1
<1> HIDE DEF head, tail, left, new
<1>5. i # 1 => i - 1 \in 1 .. Len(tail) /\ other \in tail[i - 1].left
    BY <1>1
<1>6. CASE left = {}
    BY <1>1, <1>3, <1>4, <1>5, <1>6 DEF new
<1>7. CASE left # {}
    <2>1. /\ new = <<head>> \o tail
          /\ DOMAIN new = 1 .. Len(tail) + 1
          /\ new[1] = head
          /\ \A k \in 2 .. Len(tail) + 1 : new[k] = tail[k - 1]
        BY <1>1, <1>2, <1>3, <1>7
    <2>2. i \in 1 .. Len(tail) + 1
        BY <1>1
    <2>3. CASE i = 1
        BY <1>2, <1>4, <2>1, <2>2, <2>3 DEF new
    <2>4. CASE i # 1
        <3>1. i \in 2 .. Len(tail) + 1
            BY <1>1, <2>2, <2>4
        <3>2. new[i] = tail[i - 1]
            BY <2>1, <3>1
        <3>3. QED
            BY <1>5, <2>1, <2>2, <2>4, <3>2 DEF new
    <2>5. QED
        BY <2>3, <2>4
<1>8. QED
    BY <1>6, <1>7

\* A removal is added.
LEMMA OneMoreOfItsPath ==
    ASSUME NEW rs \in Seq(Removal), NEW r \in Removal, NEW n \in Nat, NEW m \in Nat,
           n <= m, NEW ss, NEW tt, \A x \in tt : x \in ss \/ x.id = n,
           OfItsPath(ss, n, rs),
           \A id \in r.left : id < n /\ \A x \in ss : x.id = id => x.path = r.path
    PROVE  OfItsPath(tt, m, Append(rs, r))
<1>1. /\ Append(rs, r) \in Seq(Removal) /\ Len(rs) \in Nat
      /\ DOMAIN Append(rs, r) = 1 .. Len(rs) + 1 /\ DOMAIN rs = 1 .. Len(rs)
      /\ Append(rs, r)[Len(rs) + 1] = r
      /\ \A i \in 1 .. Len(rs) : Append(rs, r)[i] = rs[i]
    BY AppendProperties
<1>2. ASSUME NEW i \in 1 .. Len(rs) + 1, NEW id \in Append(rs, r)[i].left
      PROVE  id < n /\ \A x \in ss : x.id = id => x.path = Append(rs, r)[i].path
    <2>1. CASE i = Len(rs) + 1
        BY <1>1, <1>2, <2>1
    <2>2. CASE i \in 1 .. Len(rs)
        BY <1>1, <1>2, <2>2 DEF OfItsPath
    <2>3. QED
        BY <1>1, <1>2, <2>1, <2>2
<1>3. \A i \in 1 .. Len(rs) + 1 : Append(rs, r)[i].left \subseteq Nat
    <2>1. \A i \in 1 .. Len(rs) : rs[i] \in Removal
        BY ElementOfSeq
    <2>2. \A i \in 1 .. Len(rs) + 1 : Append(rs, r)[i] \in Removal
        BY <1>1, <2>1
    <2>3. QED
        BY <2>2 DEF Removal
<1>4. ASSUME NEW i \in 1 .. Len(rs) + 1, NEW id \in Append(rs, r)[i].left
      PROVE  id < m /\ \A x \in tt : x.id = id => x.path = Append(rs, r)[i].path
    <2>1. id \in Nat /\ id < n /\ \A x \in ss : x.id = id => x.path = Append(rs, r)[i].path
        BY <1>2, <1>3, <1>4
    <2>2. id # n /\ id < m
        BY <2>1
    <2>3. QED
        BY <2>1, <2>2
<1>5. QED
    BY <1>1, <1>4 DEF OfItsPath

LEMMA OneMoreSpared ==
    ASSUME NEW rs \in Seq(Removal), NEW r \in Removal, NEW ss, NEW tt, ss \subseteq tt,
           Spared(ss, rs), \A i \in DOMAIN rs : rs[i].path # r.path,
           \A id \in r.left : \A x \in ss : x.id = id => x.path = r.path,
           NEW w \in tt, w.path = r.path, w.id \notin r.left,
           \A j \in DOMAIN rs : w.id \notin rs[j].left
    PROVE  Spared(tt, Append(rs, r))
<1>1. /\ Len(rs) \in Nat /\ DOMAIN Append(rs, r) = 1 .. Len(rs) + 1
      /\ DOMAIN rs = 1 .. Len(rs)
      /\ Append(rs, r)[Len(rs) + 1] = r
      /\ \A i \in 1 .. Len(rs) : Append(rs, r)[i] = rs[i]
    BY AppendProperties
<1>2. \A x : (\A j \in 1 .. Len(rs) : x.id \notin rs[j].left) /\ x.id \notin r.left
            => \A j \in 1 .. Len(rs) + 1 : x.id \notin Append(rs, r)[j].left
    BY <1>1
<1>3. ASSUME NEW i \in 1 .. Len(rs)
      PROVE  \E x \in tt : /\ x.path = rs[i].path
                           /\ \A j \in 1 .. Len(rs) + 1 : x.id \notin Append(rs, r)[j].left
    <2>1. PICK x \in ss : /\ x.path = rs[i].path
                          /\ \A j \in 1 .. Len(rs) : x.id \notin rs[j].left
        BY <1>1, <1>3 DEF Spared
    <2>2. rs[i].path # r.path
        BY <1>1, <1>3
    <2>3. x.id \notin r.left
        BY <2>1, <2>2
    <2>4. QED
        BY <1>2, <2>1, <2>3
<1>4. \A j \in 1 .. Len(rs) + 1 : w.id \notin Append(rs, r)[j].left
    BY <1>1, <1>2
<1>5. \A i \in 1 .. Len(rs) + 1 : i = Len(rs) + 1 \/ i \in 1 .. Len(rs)
    BY <1>1
<1>6. QED
    BY <1>1, <1>3, <1>4, <1>5 DEF Spared

-----------------------------------------------------------------------------
(* Steps that plan no removal.                                               *)

\* The removals are the same, or fewer, and what they spare stays.
LEMMA KeepFrame ==
    ASSUME TypeOK, TypeOK', KeepInv,
           Within(payload'.removals, payload.removals),
           \A x \in secrets' : x \in secrets \/ x.id = nextId,
           nextId <= nextId',
           budget'.operator <= budget.operator,
           budget'.operator = budget.operator =>
                \A x \in secrets :
                    \/ x \in secrets'
                    \/ \E i \in DOMAIN payload.removals : x.id \in payload.removals[i].left,
           budget'.operator = MaxOperator /\ pc' \in Processing \cup {"list_external"}
                => ParentsThere(secrets', payload'.map),
           pc' \in Ahead => payload'.removals = <<>>,
           pc' \in Processing => pc \in Processing /\ todo' \subseteq todo,
           pc' \in {"create_secret", "create_version"} =>
                \A f \in fetched' : f.path \in todo',
           pc' \in Updating => pc \in Updating,
           pc' = "cleanup" => pc = "cleanup" /\ Orphans' = Orphans
    PROVE  KeepInv'
<1> DEFINE old == payload.removals
           new == payload'.removals
<1>1. /\ budget.operator \in Nat /\ budget'.operator \in Nat
      /\ nextId \in Nat /\ nextId' \in Nat /\ MaxOperator \in Nat
      /\ budget.operator <= MaxOperator
    BY BoundsAssumption DEF TypeOK, Budget, EngineTypeOK, KeepInv
<1>2. OfItsPath(secrets, nextId, old)
    BY DEF KeepInv
<1>3. \A i \in DOMAIN old : old[i].left \subseteq Nat
    <2>1. old \in Seq(Removal)
        BY DEF TypeOK, Payload
    <2> HIDE DEF old
    <2>2. \A i \in DOMAIN old : old[i] \in Removal
        BY <2>1, ElementOfSeq
    <2>3. QED
        BY <2>2 DEF Removal
<1>4. \A i \in DOMAIN new : \E j \in DOMAIN old :
            new[i].path = old[j].path /\ new[i].left \subseteq old[j].left
    BY DEF Within
<1> HIDE DEF old, new
<1>5. OfItsPath(secrets', nextId', new)
    <2> SUFFICES ASSUME NEW i \in DOMAIN new, NEW id \in new[i].left
                 PROVE  /\ id < nextId'
                        /\ \A x \in secrets' : x.id = id => x.path = new[i].path
        BY DEF OfItsPath
    <2>1. PICK j \in DOMAIN old : new[i].path = old[j].path /\ new[i].left \subseteq old[j].left
        BY <1>4
    <2>2. /\ id \in Nat /\ id < nextId
          /\ \A x \in secrets : x.id = id => x.path = new[i].path
        BY <1>2, <1>3, <2>1 DEF OfItsPath
    <2>3. id # nextId /\ id < nextId'
        BY <1>1, <2>2
    <2>4. QED
        BY <2>2, <2>3
<1>6. ASSUME budget'.operator = MaxOperator, pc' \in Updating
      PROVE  Spared(secrets', new)
    <2>1. budget.operator = MaxOperator /\ budget'.operator = budget.operator
        BY <1>1, <1>6
    <2>2. Spared(secrets, old)
        BY <1>6, <2>1 DEF KeepInv, old
    <2> SUFFICES ASSUME NEW i \in DOMAIN new
                 PROVE  \E x \in secrets' : /\ x.path = new[i].path
                                            /\ \A j \in DOMAIN new : x.id \notin new[j].left
        BY DEF Spared
    <2>3. PICK j \in DOMAIN old : new[i].path = old[j].path
        BY <1>4
    <2>4. PICK x \in secrets : /\ x.path = old[j].path
                               /\ \A k \in DOMAIN old : x.id \notin old[k].left
        BY <2>2, <2>3 DEF Spared
    <2>5. x \in secrets'
        BY <2>1, <2>4 DEF old
    <2>6. \A k \in DOMAIN new : x.id \notin new[k].left
        BY <1>4, <2>4
    <2>7. QED
        BY <2>3, <2>4, <2>5, <2>6
<1>7. ASSUME pc' \in Processing
      PROVE  NotYetProcessed(new, todo')
    <2>1. NotYetProcessed(old, todo)
        BY <1>7 DEF KeepInv, old
    <2>2. QED
        BY <1>4, <1>7, <2>1 DEF NotYetProcessed
<1>8. ASSUME pc' = "cleanup"
      PROVE  \A i \in DOMAIN new : new[i].path \in Orphans'
    <2>1. \A i \in DOMAIN old : old[i].path \in Orphans
        BY <1>8 DEF KeepInv, old
    <2>2. QED
        BY <1>4, <1>8, <2>1
<1>9. budget'.operator <= MaxOperator
    BY <1>1
<1>10. QED
    BY <1>5, <1>6, <1>7, <1>8, <1>9 DEF KeepInv, new

\* There are none.
LEMMA KeepEmpty ==
    ASSUME budget'.operator <= MaxOperator, payload'.removals = <<>>,
           pc' \notin {"create_secret", "create_version"},
           budget'.operator = MaxOperator /\ pc' \in Processing \cup {"list_external"}
                => ParentsThere(secrets', payload'.map)
    PROVE  KeepInv'
<1>1. /\ OfItsPath(secrets', nextId', <<>>) /\ Spared(secrets', <<>>)
      /\ NotYetProcessed(<<>>, todo')
      /\ \A i \in DOMAIN <<>> : <<>>[i].path \in Orphans'
    BY DEF OfItsPath, Spared, NotYetProcessed
<1>2. QED
    BY <1>1 DEF KeepInv

\* The same removals.
LEMMA WithinItself == \A rs : Within(rs, rs)
BY DEF Within

\* The parents stay while secrets are only added.
LEMMA ParentsKept ==
    ASSUME KeepInv, budget.operator = MaxOperator,
           pc \in Processing \cup {"list_external"}, secrets \subseteq secrets',
           \A p \in Paths : payload'.map[p].id = payload.map[p].id
    PROVE  ParentsThere(secrets', payload'.map)
BY DEF KeepInv, ParentsThere

\* An error ends the visits, the updates and the cleanup, or repeats a step.
LEMMA KeepError ==
    ASSUME TypeOK, TypeOK', KeepInv, NEW pl \in Payload, StepError(pl),
           pl.removals = payload.removals, pl.map = payload.map,
           \A x \in secrets' : x \in secrets \/ x.id = nextId,
           secrets \subseteq secrets' \/ pc \in {"remove", "cleanup"},
           nextId <= nextId', budget' = budget \/ Fault,
           budget'.operator = budget.operator =>
                \A x \in secrets :
                    \/ x \in secrets'
                    \/ \E i \in DOMAIN payload.removals : x.id \in payload.removals[i].left
    PROVE  KeepInv'
<1>1. payload' = pl \/ payload' = [pl EXCEPT !.result = NoResult]
    BY BoundsAssumption DEF StepError, TypeOK, RetriesOf
<1>2. /\ payload'.removals = payload.removals /\ payload'.map = payload.map
      /\ todo' = todo /\ fetched' = fetched
    BY <1>1, StepErrorKeeps DEF Payload
<1>3. /\ budget'.operator = budget.operator /\ budget.operator \in Nat
    BY DEF Fault, TypeOK, Budget
<1>4. \/ pc' \in {"done", "failed", "relist_services"}
      \/ pc = "list_external" /\ pc' = "list_external"
      \/ pc = "apply" /\ pc' = "apply"
    BY BoundsAssumption DEF StepError, TypeOK, RetriesOf, StepStart, Go
<1>5. ASSUME pc' = "list_external", budget'.operator = MaxOperator
      PROVE  ParentsThere(secrets', payload'.map)
    <2>1. pc = "list_external" /\ secrets \subseteq secrets'
        BY <1>4, <1>5
    <2>2. QED
        BY <1>2, <1>3, <1>5, <2>1, ParentsKept
<1>6. pc' \in Ahead => payload'.removals = <<>>
    BY <1>2, <1>4 DEF KeepInv, Ahead
<1>7. Within(payload'.removals, payload.removals)
    BY <1>2, WithinItself
<1>8. /\ pc' \notin Processing /\ pc' # "cleanup"
      /\ pc' \in Updating => pc \in Updating
    BY <1>4 DEF Processing, Updating
<1>9. budget'.operator <= budget.operator
    BY <1>3
<1>10. pc' \notin {"create_secret", "create_version"}
    BY <1>4
<1>11. QED
    BY <1>3, <1>5, <1>6, <1>7, <1>8, <1>9, <1>10, KeepFrame

-----------------------------------------------------------------------------
(* The steps that plan removals.                                             *)

\* A removal of the secrets mapped for a path that leaves one secret of it, an
\* old or a new one.
LEMMA OneMoreKeep ==
    ASSUME TypeOK, TypeOK', Agreed, KeepInv, pc \in Processing, pc' = "process",
           NEW p \in Paths, p \in todo, todo' = todo \ {p},
           NEW r \in Removal, r.path = p, r.left \subseteq payload.map[p].versions,
           payload'.removals = Append(payload.removals, r),
           \A q \in Paths : payload'.map[q].id = payload.map[q].id,
           secrets \subseteq secrets',
           \A x \in secrets' : x \in secrets \/ x.id = nextId,
           nextId <= nextId', budget' = budget,
           budget.operator = MaxOperator =>
                \E w \in secrets' : w.path = p /\ w.id \notin r.left
    PROVE  KeepInv'
<1> DEFINE rs == payload.removals
<1>1. /\ rs \in Seq(Removal) /\ nextId \in Nat /\ nextId' \in Nat
      /\ OfItsPath(secrets, nextId, rs) /\ NotYetProcessed(rs, todo)
      /\ budget.operator <= MaxOperator
    BY DEF TypeOK, EngineTypeOK, Payload, KeepInv
<1>2. \A id \in r.left : id < nextId /\ \A x \in secrets : x.id = id => x.path = p
    BY AgreedFacts
<1>3. /\ Len(rs) \in Nat /\ DOMAIN rs = 1 .. Len(rs)
      /\ DOMAIN Append(rs, r) = 1 .. Len(rs) + 1
      /\ Append(rs, r)[Len(rs) + 1] = r
      /\ \A i \in 1 .. Len(rs) : Append(rs, r)[i] = rs[i] /\ rs[i] \in Removal
    BY <1>1, AppendProperties, ElementOfSeq
<1> HIDE DEF rs
<1>4. OfItsPath(secrets', nextId', Append(rs, r))
    BY <1>1, <1>2, OneMoreOfItsPath
<1>5. \A i \in DOMAIN rs : rs[i].path # r.path
    BY <1>1 DEF NotYetProcessed
<1>6. ASSUME budget.operator = MaxOperator
      PROVE  Spared(secrets', Append(rs, r))
    <2>1. PICK w \in secrets' : w.path = p /\ w.id \notin r.left
        BY <1>6
    <2>2. Spared(secrets, rs)
        BY <1>6 DEF KeepInv, Updating, rs
    <2>3. ASSUME NEW j \in DOMAIN rs, w.id \in rs[j].left
          PROVE  FALSE
        <3>1. w.id < nextId /\ \A x \in secrets : x.id = w.id => x.path = rs[j].path
            BY <1>1, <2>3 DEF OfItsPath
        <3>2. w \notin secrets
            BY <1>5, <2>1, <3>1
        <3>3. w.id = nextId
            BY <3>2
        <3>4. QED
            BY <1>1, <3>1, <3>3
    <2>4. \A j \in DOMAIN rs : w.id \notin rs[j].left
        BY <2>3
    <2>5. QED
        BY <1>1, <1>2, <1>5, <2>1, <2>2, <2>4, OneMoreSpared
<1>7. NotYetProcessed(Append(rs, r), todo')
    <2>1. \A i \in 1 .. Len(rs) + 1 : i = Len(rs) + 1 \/ i \in 1 .. Len(rs)
        BY <1>3
    <2>2. \A i \in 1 .. Len(rs) : rs[i].path \notin todo'
        BY <1>1, <1>3 DEF NotYetProcessed
    <2>3. QED
        BY <1>3, <2>1, <2>2 DEF NotYetProcessed
<1>8. budget.operator = MaxOperator => ParentsThere(secrets', payload'.map)
    BY ParentsKept
<1>9. payload'.removals = Append(rs, r)
    BY DEF rs
<1>10. pc' \notin Ahead
    BY DEF Ahead
<1>11. QED
    BY <1>1, <1>4, <1>6, <1>7, <1>8, <1>9, <1>10 DEF KeepInv

\* The branch of a current secret plans to take the other versions.
LEMMA ProcessSameVersionPlans ==
    ASSUME TypeOK, NEW p \in Paths, ProcessSameVersion(p)
    PROVE  /\ payload'.map = payload.map
           /\ \/ /\ payload'.removals = payload.removals
                 /\ payload.map[p].managed
                        => payload.map[p].versions \ {payload.map[p].id} = {}
              \/ \E r \in Removal :
                    /\ r.path = p
                    /\ r.left = payload.map[p].versions \ {payload.map[p].id}
                    /\ payload'.removals = Append(payload.removals, r)
<1> DEFINE secret == payload.map[p]
           old    == secret.versions \ {secret.id}
           moved  == [s \in Services |-> SameVersionRefs(s, p)]
           parent == [id |-> secret.id, name |-> p]
           r      == [path |-> p, parent |-> secret.id, left |-> old]
<1>1. secret.id # 0 /\ payload \in Payload /\ secret \in ExistingSecret
    BY DEF TypeOK, Payload, ProcessSameVersion, SameVersion, IsMissing
<1>2. PICK pl \in Enqueued(payload, moved, parent) :
            payload' = Counted(IF secret.managed /\ old # {}
                                THEN WithRemoval(pl, p, old) ELSE pl, "skipped")
    BY DEF ProcessSameVersion
<1>3. pl \in Payload /\ pl.map = payload.map /\ pl.removals = payload.removals
    <2>1. moved \in [Services -> SUBSET Nat] /\ parent \in [id : Nat \ {0}, name : Name]
        BY <1>1, MovedType, PathIsName DEF ExistingSecret
    <2>2. QED
        BY <1>1, <2>1, EnqueuedType, EnqueuedKeeps
<1> HIDE DEF moved, parent
<1>4. /\ WithRemoval(pl, p, old) \in Payload
      /\ WithRemoval(pl, p, old).removals = Append(payload.removals, r)
      /\ WithRemoval(pl, p, old).map = payload.map
    <2>1. old \in SUBSET Nat
        BY <1>1 DEF ExistingSecret
    <2>2. QED
        BY <1>3, <2>1, WithRemovalType DEF WithRemoval, Payload
<1>5. r \in Removal /\ r.path = p /\ r.left = old
    BY <1>1 DEF Removal, ExistingSecret
<1> HIDE DEF r, old
<1>6. CASE secret.managed /\ old # {}
    <2>1. /\ payload'.removals = Append(payload.removals, r)
          /\ payload'.map = payload.map
        BY <1>2, <1>4, <1>6, CountedKeeps
    <2>2. QED
        BY <1>5, <2>1 DEF old
<1>7. CASE ~(secret.managed /\ old # {})
    <2>1. payload'.removals = payload.removals /\ payload'.map = payload.map
        BY <1>2, <1>3, <1>7, CountedKeeps
    <2>2. QED
        BY <1>7, <2>1 DEF old
<1>8. QED
    BY <1>6, <1>7

\* It keeps the parent.
LEMMA ProcessSameVersionKeep ==
    ASSUME TypeOK, TypeOK', Agreed, KeepInv, NEW p \in Paths, ProcessSameVersion(p)
    PROVE  KeepInv'
<1>1. /\ pc = "process" /\ pc' = pc /\ p \in todo /\ todo' = todo \ {p}
      /\ payload.map[p].id # 0
      /\ fetched' = fetched /\ budget' = budget /\ secrets' = secrets
      /\ nextId' = nextId /\ nextId \in Nat
    BY DEF TypeOK, EngineTypeOK, ProcessSameVersion, SameVersion, IsMissing, engineVars
<1>2. payload'.map = payload.map
    BY ProcessSameVersionPlans
<1>3. ASSUME NEW r \in Removal, r.path = p,
             r.left = payload.map[p].versions \ {payload.map[p].id},
             payload'.removals = Append(payload.removals, r)
      PROVE  KeepInv'
    <2>1. ASSUME budget.operator = MaxOperator
          PROVE  \E w \in secrets' : w.path = p /\ w.id \notin r.left
        <3>1. \E x \in secrets : x.id = payload.map[p].id /\ x.path = p
            BY <1>1, <2>1 DEF KeepInv, ParentsThere, Processing
        <3>2. QED
            BY <1>1, <1>3, <3>1
    <2>2. pc \in Processing /\ nextId <= nextId' /\ r.left \subseteq payload.map[p].versions
        BY <1>1, <1>3 DEF Processing
    <2>3. QED
        BY <1>1, <1>2, <1>3, <2>1, <2>2, OneMoreKeep
<1>4. CASE payload'.removals = payload.removals
    <2>1. pc \in Processing /\ pc' \notin Ahead /\ pc' \in Updating /\ pc \in Updating
        BY <1>1 DEF Processing, Ahead, Updating
    <2>2. /\ Within(payload'.removals, payload.removals)
          /\ budget.operator = MaxOperator => ParentsThere(secrets', payload'.map)
          /\ budget'.operator <= budget.operator /\ nextId <= nextId'
        BY <1>1, <1>2, <1>4, <2>1, WithinItself, ParentsKept DEF TypeOK, Budget
    <2>3. QED
        BY <1>1, <2>1, <2>2, KeepFrame
<1>5. QED
    BY <1>3, <1>4, ProcessSameVersionPlans

\* The branch of a changed secret adds one.
LEMMA CreateUpdatedVersionKeep ==
    ASSUME TypeOK, TypeOK', Agreed, KeepInv, CreateUpdatedVersion
    PROVE  KeepInv'
<1> PICK f \in fetched :
        LET secret == VersionSecret(f.path, payload.listed[f.path], f.data)
        IN \/ /\ AddSecret(secret)
              /\ pc' = "process" /\ todo' = todo \ {f.path}
              /\ payload' \in UpdatePlanned(payload, f.path, f.data)
              /\ budget' = budget
           \/ StepError(payload) /\ UNCHANGED <<engineVars, budget>>
           \/ AddSecret(secret) /\ Fault /\ StepError(payload)
    BY DEF CreateUpdatedVersion, Go
<1> DEFINE p == f.path
           secret == VersionSecret(p, payload.listed[p], f.data)
<1>1. /\ p \in Paths /\ f.data \in Nat /\ payload.listed[p] \in Nat
      /\ payload \in Payload /\ pc = "create_version" /\ p \in todo
    BY DEF TypeOK, Fetched, Payload, Listing, KeepInv, CreateUpdatedVersion
<1>2. secret \in Secret /\ secret.id = nextId /\ secret.path = p
    BY <1>1, NewSecretType DEF TypeOK, VersionSecret
<1> HIDE DEF secret
<1>3. nextId \in Nat
    BY DEF TypeOK, EngineTypeOK
<1>4. AddSecret(secret) => /\ secrets' = secrets \cup {secret} /\ nextId <= nextId'
    BY <1>3 DEF AddSecret
<1>5. CASE /\ AddSecret(secret) /\ pc' = "process" /\ todo' = todo \ {p}
           /\ payload' \in UpdatePlanned(payload, p, f.data) /\ budget' = budget
    <2> DEFINE r == [path |-> p, parent |-> payload.map[p].id,
                     left |-> payload.map[p].versions]
    <2> HIDE DEF p
    <2>1. /\ payload'.removals = Append(payload.removals, r)
          /\ \A q \in Paths : payload'.map[q].id = payload.map[q].id
        <3>1. /\ payload'.removals = Append(payload.removals, r)
              /\ payload'.map = [payload.map EXCEPT ![p].managed = TRUE]
            BY <1>1, <1>5, UpdatePlannedKeeps, ZenonT(30)
        <3>2. payload.map \in [Paths -> ExistingSecret]
            BY <1>1 DEF Payload
        <3>3. \A q \in Paths : payload'.map[q].id = payload.map[q].id
            BY <3>1, <3>2 DEF ExistingSecret
        <3>4. QED
            BY <3>1, <3>3
    <2>2. r \in Removal /\ r.path = p /\ r.left \subseteq payload.map[p].versions
        BY <1>1 DEF Removal, Payload, ExistingSecret
    <2>3. \E w \in secrets' : w.path = p /\ w.id \notin r.left
        <3>1. \A id \in r.left : id < nextId
            BY <1>1, AgreedFacts
        <3>2. secret.id \notin r.left
            BY <1>2, <1>3, <3>1
        <3>3. QED
            BY <1>2, <1>4, <1>5, <3>2
    <2> HIDE DEF r
    <2>4. QED
        BY <1>1, <1>2, <1>4, <1>5, <2>1, <2>2, <2>3, OneMoreKeep DEF Processing
<1>6. CASE StepError(payload) /\ UNCHANGED <<engineVars, budget>>
    BY <1>1, <1>3, <1>6, KeepError DEF engineVars
<1>7. CASE AddSecret(secret) /\ Fault /\ StepError(payload)
    BY <1>1, <1>2, <1>4, <1>7, KeepError
<1>8. QED
    BY <1>5, <1>6, <1>7 DEF secret

-----------------------------------------------------------------------------
(* The other actions.                                                        *)

\* load_swarm_state and load_external_state start a synchronization without
\* removals; the second run of load_swarm_state has none to keep.
LEMMA LoadKeep ==
    ASSUME TypeOK, TypeOK', KeepInv,
           StartSync \/ ListServices \/ ListSecretsOfSwarm \/ LoadExternalState
    PROVE  KeepInv'
<1>1. payload \in Payload /\ nextId \in Nat /\ budget.operator \in Nat
    BY DEF TypeOK, EngineTypeOK, Budget
<1>2. /\ secrets' = secrets /\ nextId' = nextId /\ budget' = budget
      /\ nextId <= nextId' /\ budget'.operator <= budget.operator
      /\ budget'.operator <= MaxOperator
    BY <1>1 DEF StartSync, ListServices, ListSecretsOfSwarm, LoadExternalState, engineVars,
                KeepInv
<1>3. CASE StartSync
    <2>1. payload'.removals = <<>> /\ pc' = "list_services"
        BY <1>3 DEF StartSync, NewPayload, Go
    <2>2. QED
        BY <1>2, <2>1, KeepEmpty DEF Processing
<1>4. CASE ListServices
    <2>1. payload'.removals = payload.removals
        BY <1>1, <1>4 DEF ListServices, Payload
    <2>2. \/ pc = "list_services" /\ pc' = "map_secrets"
          \/ pc' = "remap_secrets"
        BY <1>4 DEF ListServices
    <2>3. /\ pc' \notin Processing \cup Updating \cup {"list_external", "cleanup"}
          /\ pc' \notin {"create_secret", "create_version"}
          /\ pc' \in Ahead => payload'.removals = <<>>
        BY <2>1, <2>2 DEF Processing, Updating, Ahead, KeepInv
    <2>4. Within(payload'.removals, payload.removals)
        BY <2>1, WithinItself
    <2>5. QED
        BY <1>2, <2>3, <2>4, KeepFrame
<1>5. CASE ListSecretsOfSwarm
    <2>1. payload'.removals = payload.removals /\ payload'.map = MapSecrets
        BY <1>1, <1>5 DEF ListSecretsOfSwarm, Payload
    <2>2. \/ pc = "map_secrets" /\ pc' = "list_external"
          \/ pc' = "plan_cleanup"
        BY <1>5 DEF ListSecretsOfSwarm, Go
    <2>3. /\ pc' \notin Processing \cup Updating \cup {"cleanup"}
          /\ pc' \notin {"create_secret", "create_version"}
          /\ pc' \in Ahead => payload'.removals = <<>>
        BY <2>1, <2>2 DEF Processing, Updating, Ahead, KeepInv
    <2>4. ParentsThere(secrets, MapSecrets)
        <3> SUFFICES ASSUME NEW p \in Paths, MapSecrets[p].id # 0
                     PROVE  \E x \in secrets : /\ x.id = MapSecrets[p].id
                                                /\ x.path = p /\ x.parent
            BY DEF ParentsThere
        <3>1. ParentsOf(p) # {} /\ MapSecrets[p].id = (CHOOSE x \in ParentsOf(p) : TRUE).id
            BY DEF MapSecrets, Unmapped
        <3>2. (CHOOSE x \in ParentsOf(p) : TRUE) \in ParentsOf(p)
            BY <3>1
        <3>3. QED
            BY <3>1, <3>2 DEF ParentsOf, OfPath
    <2>5. Within(payload'.removals, payload.removals)
        BY <2>1, WithinItself
    <2>6. QED
        BY <1>2, <2>1, <2>3, <2>4, <2>5, KeepFrame
<1>6. CASE LoadExternalState
    <2>1. /\ payload'.removals = payload.removals /\ payload'.map = payload.map
          /\ pc = "list_external" /\ pc' = "process"
        BY <1>1, <1>6 DEF LoadExternalState, Payload, Go
    <2>2. payload'.removals = <<>>
        BY <2>1 DEF KeepInv, Ahead
    <2>3. budget.operator = MaxOperator => ParentsThere(secrets', payload'.map)
        BY <1>2, <2>1, ParentsKept
    <2>4. QED
        BY <1>2, <2>1, <2>2, <2>3, KeepEmpty
<1>7. QED
    BY <1>3, <1>4, <1>5, <1>6

\* The secret whose payload was read is still to be processed.
LEMMA GetSecretPayloadKeep ==
    ASSUME TypeOK, TypeOK', KeepInv, NEW p \in Paths, GetSecretPayload(p)
    PROVE  KeepInv'
<1>1. payload \in Payload /\ nextId \in Nat /\ budget.operator \in Nat
    BY DEF TypeOK, EngineTypeOK, Budget
<1>2. /\ secrets' = secrets /\ nextId' = nextId /\ budget' = budget
      /\ nextId <= nextId' /\ budget'.operator <= budget.operator
    BY <1>1 DEF GetSecretPayload, engineVars
<1>3. CASE /\ pc' \in {"create_secret", "create_version"}
           /\ fetched' = {[path |-> p, data |-> external[p].val]}
           /\ payload' = payload /\ todo' = todo
    <2>1. /\ pc \in Processing /\ pc' \in Processing /\ pc \in Updating
          /\ p \in todo /\ pc' \notin Ahead /\ pc' # "cleanup"
        BY <1>3 DEF GetSecretPayload, Processing, Updating, Ahead
    <2>2. /\ Within(payload'.removals, payload.removals)
          /\ budget.operator = MaxOperator => ParentsThere(secrets', payload'.map)
        BY <1>2, <1>3, <2>1, WithinItself, ParentsKept
    <2>3. QED
        BY <1>2, <1>3, <2>1, <2>2, KeepFrame
<1>4. CASE StepError(payload)
    BY <1>1, <1>2, <1>4, KeepError
<1>5. QED
    BY <1>3, <1>4 DEF GetSecretPayload, Go

\* A new secret takes no place in any removal.
LEMMA CreateMissingSecretKeep ==
    ASSUME TypeOK, TypeOK', KeepInv, CreateMissingSecret
    PROVE  KeepInv'
<1> PICK f \in fetched :
        LET secret == ParentSecret(f.path, payload.listed[f.path], f.data)
        IN \/ /\ AddSecret(secret)
              /\ pc' = "process" /\ todo' \subseteq todo
              /\ payload' = Counted(payload, "created")
              /\ budget' = budget
           \/ StepError(payload) /\ UNCHANGED <<engineVars, budget>>
           \/ AddSecret(secret) /\ Fault /\ StepError(payload)
    BY DEF CreateMissingSecret, Go
<1> DEFINE secret == ParentSecret(f.path, payload.listed[f.path], f.data)
<1>1. /\ payload \in Payload /\ pc = "create_secret" /\ nextId \in Nat
      /\ budget.operator \in Nat /\ secret.id = nextId
    BY DEF TypeOK, EngineTypeOK, Budget, CreateMissingSecret, ParentSecret
<1> HIDE DEF secret
<1>2. AddSecret(secret) => /\ secrets' = secrets \cup {secret} /\ nextId <= nextId'
    BY <1>1 DEF AddSecret
<1>3. CASE /\ AddSecret(secret) /\ pc' = "process" /\ todo' \subseteq todo
           /\ payload' = Counted(payload, "created") /\ budget' = budget
    <2>1. payload'.removals = payload.removals /\ payload'.map = payload.map
        BY <1>1, <1>3, CountedKeeps
    <2>2. /\ pc \in Processing /\ pc \in Updating /\ pc' \notin Ahead
          /\ budget'.operator <= budget.operator
        BY <1>1, <1>3 DEF Processing, Updating, Ahead
    <2>3. /\ Within(payload'.removals, payload.removals)
          /\ budget.operator = MaxOperator => ParentsThere(secrets', payload'.map)
        BY <1>2, <1>3, <2>1, <2>2, WithinItself, ParentsKept
    <2>4. QED
        BY <1>1, <1>2, <1>3, <2>2, <2>3, KeepFrame
<1>4. CASE StepError(payload) /\ UNCHANGED <<engineVars, budget>>
    BY <1>1, <1>4, KeepError DEF engineVars
<1>5. CASE AddSecret(secret) /\ Fault /\ StepError(payload)
    BY <1>1, <1>2, <1>5, KeepError
<1>6. QED
    BY <1>3, <1>4, <1>5 DEF secret

\* Services are written, or not.
LEMMA ApplyKeep ==
    ASSUME TypeOK, TypeOK', KeepInv, ApplyServiceUpdate
    PROVE  KeepInv'
<1>1. /\ secrets' = secrets /\ nextId' = nextId /\ (budget' = budget \/ Fault)
      /\ pc = "apply" /\ nextId \in Nat /\ budget.operator \in Nat
    BY ApplyKeeps DEF ApplyServiceUpdate, TypeOK, EngineTypeOK, Budget
<1>2. budget'.operator <= budget.operator /\ nextId <= nextId'
    BY <1>1 DEF Fault, TypeOK, Budget
<1>3. CASE payload'.removals = payload.removals /\ payload'.map = payload.map /\ pc' = pc
    <2>1. /\ pc' \notin Ahead \cup Processing \cup {"list_external", "cleanup"}
          /\ pc \in Updating /\ pc' \notin {"create_secret", "create_version"}
        BY <1>1, <1>3 DEF Ahead, Processing, Updating
    <2>2. Within(payload'.removals, payload.removals)
        BY <1>3, WithinItself
    <2>3. QED
        BY <1>1, <1>2, <2>1, <2>2, KeepFrame
<1>4. ASSUME NEW pl \in Payload, StepError(pl),
             pl.removals = payload.removals, pl.map = payload.map
      PROVE  KeepInv'
    BY <1>1, <1>2, <1>4, KeepError
<1>5. QED
    BY <1>3, <1>4, ApplyKeeps

\* A secret is taken by a removal.
LEMMA RemoveOldVersionKeep ==
    ASSUME TypeOK, TypeOK', KeepInv, RemoveOldVersion
    PROVE  KeepInv'
<1>1. /\ payload \in Payload /\ payload.removals # <<>> /\ pc \in {"remove", "cleanup"}
      /\ nextId \in Nat /\ budget.operator \in Nat
    BY DEF TypeOK, EngineTypeOK, Budget, RemoveOldVersion
<1> PICK id \in NextRemovals(Head(payload.removals)) :
        \/ /\ RemoveSecret(id) \/ UNCHANGED engineVars
           /\ \/ \E counter : payload' = Counted(CrossedOff(payload, id), counter)
              \/ payload' = CrossedOff(payload, id)
           /\ UNCHANGED <<pc, budget>>
        \/ StepError(payload) /\ UNCHANGED <<engineVars, budget>>
        \/ RemoveSecret(id) /\ Fault /\ StepError(payload)
    BY DEF RemoveOldVersion
<1>2. \E i \in DOMAIN payload.removals : id \in payload.removals[i].left
    <2>1. /\ payload.removals \in Seq(Removal) /\ Len(payload.removals) \in Nat \ {0}
          /\ DOMAIN payload.removals = 1 .. Len(payload.removals)
          /\ Head(payload.removals) = payload.removals[1]
        BY <1>1, HeadTailProperties, EmptySeq DEF Payload
    <2>2. id \in payload.removals[1].left
        BY <2>1 DEF NextRemovals
    <2>3. 1 \in DOMAIN payload.removals
        BY <2>1
    <2>4. QED
        BY <2>2, <2>3
<1>3. /\ RemoveSecret(id) => secrets' = {x \in secrets : x.id # id} /\ nextId' = nextId
      /\ UNCHANGED engineVars => secrets' = secrets /\ nextId' = nextId
    BY DEF RemoveSecret, engineVars
<1>4. ASSUME RemoveSecret(id) \/ UNCHANGED engineVars
      PROVE  /\ secrets' \subseteq secrets /\ nextId <= nextId'
             /\ \A x \in secrets :
                    \/ x \in secrets'
                    \/ \E i \in DOMAIN payload.removals : x.id \in payload.removals[i].left
    BY <1>1, <1>2, <1>3, <1>4
<1>5. CASE /\ RemoveSecret(id) \/ UNCHANGED engineVars
           /\ \/ \E counter : payload' = Counted(CrossedOff(payload, id), counter)
              \/ payload' = CrossedOff(payload, id)
           /\ UNCHANGED <<pc, budget>>
    <2>1. /\ CrossedOff(payload, id) \in Payload
          /\ Within(CrossedOff(payload, id).removals, payload.removals)
          /\ CrossedOff(payload, id).map = payload.map
          /\ CrossedOff(payload, id).listed = payload.listed
          /\ CrossedOff(payload, id).services = payload.services
        BY <1>1, CrossedOffType, CrossedOffWithin
    <2>2. /\ Within(payload'.removals, payload.removals)
          /\ payload'.map = payload.map /\ payload'.listed = payload.listed
          /\ payload'.services = payload.services
        BY <1>5, <2>1, CountedKeeps
    <2>3. Orphans' = Orphans
        BY <2>2 DEF Orphans, UsedPaths
    <2>4. /\ pc' \notin Ahead \cup Processing \cup {"list_external"}
          /\ pc' \notin {"create_secret", "create_version"}
          /\ pc' \in Updating => pc \in Updating
          /\ budget'.operator <= budget.operator
        BY <1>1, <1>5 DEF Ahead, Processing
    <2>5. QED
        BY <1>4, <1>5, <2>2, <2>3, <2>4, KeepFrame
<1>6. CASE StepError(payload) /\ UNCHANGED <<engineVars, budget>>
    BY <1>1, <1>4, <1>6, KeepError
<1>7. CASE RemoveSecret(id) /\ Fault /\ StepError(payload)
    BY <1>1, <1>4, <1>7, KeepError
<1>8. QED
    BY <1>5, <1>6, <1>7

\* A parent is restored.
LEMMA RestoreParentKeep ==
    ASSUME TypeOK, TypeOK', KeepInv, RestoreParent
    PROVE  KeepInv'
<1> PICK secret :
        /\ secret.id = nextId
        /\ \/ /\ AddSecret(secret)
              /\ payload' = [payload EXCEPT !.restores = Tail(@)]
              /\ pc' = pc /\ budget' = budget
           \/ StepError(payload) /\ UNCHANGED <<engineVars, budget>>
           \/ AddSecret(secret) /\ Fault /\ StepError(payload)
    BY DEF RestoreParent, ParentSecret
<1>1. /\ payload \in Payload /\ pc = "restore" /\ nextId \in Nat
      /\ budget.operator \in Nat
    BY DEF TypeOK, EngineTypeOK, Budget, RestoreParent
<1>2. AddSecret(secret) => /\ secrets' = secrets \cup {secret} /\ nextId <= nextId'
    BY <1>1 DEF AddSecret
<1>3. CASE /\ AddSecret(secret) /\ pc' = pc /\ budget' = budget
           /\ payload' = [payload EXCEPT !.restores = Tail(@)]
    <2>1. payload'.removals = payload.removals
        BY <1>1, <1>3 DEF Payload
    <2>2. /\ pc' \notin Ahead \cup Processing \cup Updating \cup {"list_external", "cleanup"}
          /\ pc' \notin {"create_secret", "create_version"}
          /\ budget'.operator <= budget.operator
        BY <1>1, <1>3 DEF Ahead, Processing, Updating
    <2>3. Within(payload'.removals, payload.removals)
        BY <2>1, WithinItself
    <2>4. QED
        BY <1>2, <1>3, <2>2, <2>3, KeepFrame
<1>4. CASE StepError(payload) /\ UNCHANGED <<engineVars, budget>>
    BY <1>1, <1>4, KeepError DEF engineVars
<1>5. CASE AddSecret(secret) /\ Fault /\ StepError(payload)
    BY <1>1, <1>2, <1>5, KeepError
<1>6. QED
    BY <1>3, <1>4, <1>5

\* The ends of the steps.
LEMMA FinishKeep ==
    ASSUME TypeOK, TypeOK', KeepInv,
           FinishProcess \/ FinishApply \/ FinishRemove \/ FinishRestore
    PROVE  KeepInv'
<1>1. /\ secrets' = secrets /\ nextId' = nextId /\ budget' = budget
      /\ payload' = payload /\ nextId \in Nat /\ budget.operator \in Nat
    BY DEF FinishProcess, FinishApply, FinishRemove, FinishRestore, engineVars,
           TypeOK, EngineTypeOK, Budget
<1>2. /\ pc' \in {"apply", "remove", "restore", "relist_services", "done"}
      /\ pc' \in {"apply", "remove"} => pc \in {"process", "apply"}
    BY DEF FinishProcess, FinishApply, FinishRemove, FinishRestore, Go, AfterProcess,
           AfterApply, AfterRemove, AfterRestore
<1>3. /\ pc' \notin Ahead \cup Processing \cup {"list_external", "cleanup"}
      /\ pc' \notin {"create_secret", "create_version"}
      /\ pc' \in Updating => pc \in Updating
    BY <1>2 DEF Ahead, Processing, Updating
<1>4. /\ Within(payload'.removals, payload.removals)
      /\ nextId <= nextId' /\ budget'.operator <= budget.operator
    BY <1>1, WithinItself
<1>5. QED
    BY <1>1, <1>3, <1>4, KeepFrame

\* The cleanup takes orphans.
LEMMA PlanCleanupKeep ==
    ASSUME TypeOK, TypeOK', Agreed, KeepInv, PlanCleanup
    PROVE  KeepInv'
<1>1. PICK paths \in SetToSeqs(Orphans) :
        payload' = [payload EXCEPT !.removals =
            [i \in DOMAIN paths |-> [path   |-> paths[i],
                                     parent |-> payload.map[paths[i]].id,
                                     left   |-> payload.map[paths[i]].versions]]]
    BY DEF PlanCleanup
<1>2. /\ payload \in Payload /\ secrets' = secrets /\ nextId' = nextId
      /\ budget' = budget /\ pc' = "cleanup" /\ budget.operator <= MaxOperator
    BY DEF TypeOK, PlanCleanup, engineVars, Go, KeepInv
<1> DEFINE new == payload'.removals
<1>3. /\ payload'.map = payload.map /\ payload'.listed = payload.listed
      /\ payload'.services = payload.services
      /\ DOMAIN new = DOMAIN paths
      /\ \A i \in DOMAIN paths : /\ new[i].path = paths[i]
                                 /\ new[i].left = payload.map[paths[i]].versions
    BY <1>1, <1>2 DEF Payload
<1>4. \A i \in DOMAIN paths : paths[i] \in Orphans
    <2>1. IsFiniteSet(Orphans)
        BY FinitenessAssumption, FS_Subset DEF Orphans
    <2>2. paths \in Seq(Orphans)
        BY <2>1, ArrangementIsSeq
    <2>3. QED
        BY <2>2, ElementOfSeq
<1>5. Orphans' = Orphans /\ Orphans \subseteq Paths
    BY <1>3 DEF Orphans, UsedPaths
<1> HIDE DEF new
<1>6. OfItsPath(secrets', nextId', new)
    BY <1>2, <1>3, <1>4, <1>5, AgreedFacts DEF OfItsPath
<1>7. \A i \in DOMAIN new : new[i].path \in Orphans'
    BY <1>3, <1>4, <1>5
<1>8. pc' \notin Ahead \cup Processing \cup Updating \cup {"list_external"}
    BY <1>2 DEF Ahead, Processing, Updating
<1>9. QED
    BY <1>2, <1>6, <1>7, <1>8 DEF KeepInv, new, Processing

\* The end of a synchronization, and a failed call.
LEMMA StopKeep ==
    ASSUME TypeOK, TypeOK', KeepInv, Return \/ Crash \/ CallFails
    PROVE  KeepInv'
<1>1. /\ secrets' = secrets /\ nextId' = nextId /\ (budget' = budget \/ Fault)
      /\ nextId \in Nat /\ payload \in Payload
      /\ budget.operator \in Nat /\ budget.operator <= MaxOperator
    BY DEF Return, Crash, CallFails, engineVars, TypeOK, EngineTypeOK, Budget, KeepInv
<1>2. budget'.operator = budget.operator /\ nextId <= nextId'
    BY <1>1 DEF Fault, TypeOK, Budget
<1>3. CASE Return \/ Crash
    <2>1. payload'.removals = <<>> /\ pc' = "idle"
        BY <1>3 DEF Return, Crash, Forget, NewPayload, Go
    <2>2. pc' \notin Processing \cup {"list_external", "create_secret", "create_version"}
        BY <2>1 DEF Processing
    <2>3. QED
        BY <1>1, <1>2, <2>1, <2>2, KeepEmpty
<1>4. CASE CallFails
    BY <1>1, <1>2, <1>4, KeepError DEF CallFails
<1>5. QED
    BY <1>3, <1>4

\* What others do to Swarm is counted, if it takes a secret.
LEMMA EnvironmentKeep ==
    ASSUME TypeOK, TypeOK', KeepInv, Environment \/ UNCHANGED vars
    PROVE  KeepInv'
<1>1. /\ payload' = payload /\ pc' = pc /\ todo' = todo /\ fetched' = fetched
      /\ nextId \in Nat
    BY DEF Environment, WriteValue, DeleteValue, OperatorCreates, Deploy,
           OperatorRemoves, vars, syncVars, TypeOK, EngineTypeOK
<1>2. /\ \A x \in secrets' : x \in secrets \/ x.id = nextId
      /\ nextId <= nextId'
      /\ budget'.operator <= budget.operator
      /\ budget'.operator = budget.operator => secrets' = secrets
    <2>1. ASSUME NEW kind \in {"writes", "deploys"}, Spend(kind)
          PROVE  budget'.operator = budget.operator
        BY <2>1 DEF Spend, TypeOK, Budget
    <2>2. ASSUME Spend("operator")
          PROVE  budget'.operator = budget.operator - 1
        BY <2>2 DEF Spend, TypeOK, Budget
    <2>3. budget.operator \in Nat
        BY DEF TypeOK, Budget
    <2>4. CASE \/ \E p \in Paths : WriteValue(p) \/ DeleteValue(p)
               \/ \E s \in Services, paths \in SUBSET Paths : Deploy(s, paths)
        BY <1>1, <2>1, <2>3, <2>4 DEF WriteValue, DeleteValue, Deploy, engineVars
    <2>5. CASE \E p \in Paths : OperatorCreates(p)
        BY <1>1, <2>2, <2>3, <2>5 DEF OperatorCreates, AddSecret, ParentSecret
    <2>6. CASE \E id \in {secret.id : secret \in secrets} : OperatorRemoves(id)
        BY <1>1, <2>2, <2>3, <2>6 DEF OperatorRemoves, RemoveSecret
    <2>7. CASE UNCHANGED vars
        BY <1>1, <2>3, <2>7 DEF vars, engineVars
    <2>8. QED
        BY <2>4, <2>5, <2>6, <2>7 DEF Environment
<1>3. Orphans' = Orphans /\ Within(payload'.removals, payload.removals)
    BY <1>1, WithinItself DEF Orphans, UsedPaths
<1>4. /\ pc' \in Ahead => payload'.removals = <<>>
      /\ pc' \in {"create_secret", "create_version"} => \A f \in fetched' : f.path \in todo'
    BY <1>1 DEF KeepInv
<1>5. ASSUME budget'.operator = MaxOperator, pc' \in Processing \cup {"list_external"}
      PROVE  ParentsThere(secrets', payload'.map)
    <2>1. budget.operator = MaxOperator /\ budget'.operator = budget.operator
        BY <1>2, <1>5, BoundsAssumption DEF KeepInv, TypeOK, Budget
    <2>2. QED
        BY <1>1, <1>2, <1>5, <2>1 DEF KeepInv
<1>6. QED
    BY <1>1, <1>2, <1>3, <1>4, <1>5, KeepFrame

LEMMA InitKeep == Init => KeepInv
<1> SUFFICES ASSUME Init PROVE KeepInv
    OBVIOUS
<1>1. /\ payload.removals = <<>> /\ pc = "idle" /\ budget.operator = MaxOperator
    BY DEF Init, NewPayload
<1>2. MaxOperator \in Nat
    BY BoundsAssumption
<1>3. QED
    BY <1>1, <1>2 DEF KeepInv, OfItsPath, Ahead, Processing, Updating

LEMMA NextKeep == TypeOK /\ TypeOK' /\ Agreed /\ KeepInv /\ [Next]_vars => KeepInv'
<1> SUFFICES ASSUME TypeOK, TypeOK', Agreed, KeepInv, [Next]_vars PROVE KeepInv'
    OBVIOUS
<1>1. CASE StartSync \/ ListServices \/ ListSecretsOfSwarm \/ LoadExternalState
    BY <1>1, LoadKeep
<1>2. ASSUME NEW p \in Paths, ProcessSameVersion(p) \/ GetSecretPayload(p)
      PROVE  KeepInv'
    BY <1>2, ProcessSameVersionKeep, GetSecretPayloadKeep
<1>3. CASE CreateMissingSecret \/ CreateUpdatedVersion
    BY <1>3, CreateMissingSecretKeep, CreateUpdatedVersionKeep
<1>4. CASE ApplyServiceUpdate \/ RemoveOldVersion \/ RestoreParent
    BY <1>4, ApplyKeep, RemoveOldVersionKeep, RestoreParentKeep
<1>5. CASE FinishProcess \/ FinishApply \/ FinishRemove \/ FinishRestore
    BY <1>5, FinishKeep
<1>6. CASE PlanCleanup \/ Return \/ Crash \/ CallFails
    BY <1>6, PlanCleanupKeep, StopKeep
<1>7. CASE Environment \/ UNCHANGED vars
    BY <1>7, EnvironmentKeep
<1>8. QED
    BY <1>1, <1>2, <1>3, <1>4, <1>5, <1>6, <1>7 DEF Next, SyncStep

-----------------------------------------------------------------------------
(* The theorem.                                                              *)

\* A secret that an operator has not taken was taken by a removal.
LEMMA TakenByRemoval ==
    ASSUME TypeOK, [Next]_vars, budget'.operator = budget.operator,
           NEW x \in secrets, x \notin secrets'
    PROVE  RemoveOldVersion /\ \E id : RemoveSecret(id) /\ x.id = id
                                       /\ id \in Head(payload.removals).left
<1>1. budget.operator \in Nat
    BY DEF TypeOK, Budget
<1>2. ~OperatorRemoves(x.id) /\ \A id : ~OperatorRemoves(id)
    <2>1. ~Spend("operator")
        <3>1. Spend("operator") => budget'.operator = budget.operator - 1
            BY DEF Spend, TypeOK, Budget
        <3>2. QED
            BY <1>1, <3>1
    <2>2. QED
        BY <2>1 DEF OperatorRemoves
<1>3. CASE SyncStep
    <2>1. ASSUME ~RemoveOldVersion
          PROVE  secrets \subseteq secrets'
        BY <1>3, <2>1, ApplyKeeps
            DEF SyncStep, StartSync, ListServices, ListSecretsOfSwarm, LoadExternalState,
                ProcessSameVersion, GetSecretPayload, CreateMissingSecret,
                CreateUpdatedVersion, FinishProcess, FinishApply, FinishRemove,
                RestoreParent, FinishRestore, PlanCleanup, Return, AddSecret, engineVars
    <2>2. RemoveOldVersion
        BY <2>1
    <2>3. PICK id \in NextRemovals(Head(payload.removals)) :
            RemoveSecret(id) \/ UNCHANGED engineVars
        BY <2>2 DEF RemoveOldVersion
    <2>4. RemoveSecret(id) /\ x.id = id
        BY <2>3 DEF RemoveSecret, engineVars
    <2>5. QED
        BY <2>2, <2>3, <2>4 DEF NextRemovals
<1>4. CASE CallFails \/ Crash \/ UNCHANGED vars
    BY <1>4 DEF CallFails, Crash, vars, engineVars
<1>5. CASE Environment
    BY <1>2, <1>5 DEF Environment, WriteValue, DeleteValue, OperatorCreates, Deploy,
                      AddSecret, engineVars
<1>6. QED
    BY <1>3, <1>4, <1>5 DEF Next

\* The last secret of a path is taken by the cleanup of an orphan, or by an
\* update whose new version an operator took: the removals of step5, planned
\* when the path was processed, always spare one secret of it.
THEOREM LastSecretIsKept == Spec => LastSecretKept
<1> DEFINE Inv == RefsInv /\ KeepInv
           Kept == \A p \in Paths :
                OfPath(p) # {} /\ OfPath(p)' = {} /\ UNCHANGED budget.operator
                    => \/ /\ pc = "cleanup"
                          /\ payload.listed[p] = 0
                          /\ payload.map[p].managed
                          /\ p \notin UsedPaths
                       \/ pc = "remove" /\ budget.operator # MaxOperator
<1>1. Init => Inv
    BY InitRefsInv, InitKeep
<1>2. Inv /\ [Next]_vars => Inv'
    BY NextRefsInv, NextKeep DEF RefsInv
<1>3. Inv /\ [Next]_vars => [Kept]_vars
    <2> SUFFICES ASSUME Inv, [Next]_vars, NEW p \in Paths,
                        OfPath(p) # {}, OfPath(p)' = {},
                        budget'.operator = budget.operator
                 PROVE  \/ /\ pc = "cleanup"
                           /\ payload.listed[p] = 0
                           /\ payload.map[p].managed
                           /\ p \notin UsedPaths
                        \/ pc = "remove" /\ budget.operator # MaxOperator
        OBVIOUS
    <2>1. TypeOK /\ KeepInv
        BY DEF RefsInv
    <2>2. PICK x \in secrets : x.path = p /\ x \notin secrets'
        BY DEF OfPath
    <2>3. PICK id : /\ RemoveOldVersion /\ RemoveSecret(id) /\ x.id = id
                    /\ id \in Head(payload.removals).left
        BY <2>1, <2>2, TakenByRemoval
    <2>4. /\ payload.removals # <<>> /\ payload.removals \in Seq(Removal)
          /\ pc \in {"remove", "cleanup"}
        BY <2>1, <2>3 DEF RemoveOldVersion, TypeOK, Payload
    <2>5. /\ 1 \in DOMAIN payload.removals
          /\ Head(payload.removals) = payload.removals[1]
        BY <2>4, HeadTailProperties, EmptySeq
    <2>6. payload.removals[1].path = p
        BY <2>1, <2>2, <2>3, <2>5 DEF KeepInv, OfItsPath
    <2>7. CASE pc = "cleanup"
        BY <2>1, <2>5, <2>6, <2>7 DEF KeepInv, Orphans
    <2>8. CASE pc = "remove" /\ budget.operator = MaxOperator
        <3>1. Spared(secrets, payload.removals)
            BY <2>1, <2>8 DEF KeepInv, Updating
        <3>2. PICK w \in secrets : w.path = p /\ w.id \notin payload.removals[1].left
            BY <2>5, <2>6, <3>1 DEF Spared
        <3>3. w \in secrets'
            BY <2>3, <2>5, <3>2 DEF RemoveSecret
        <3>4. QED
            BY <3>2, <3>3 DEF OfPath
    <2>9. QED
        BY <2>4, <2>7, <2>8
<1>4. QED
    BY <1>1, <1>2, <1>3, PTL DEF Spec, LastSecretKept

-----------------------------------------------------------------------------
(* What holds of the map and of the restores, as long as no operator has      *)
(* created or removed a secret.                                               *)

\* The paths that are still to be processed.
Visited(call, paths) ==
    IF call = "list_external" THEN Paths ELSE IF call \in Processing THEN paths ELSE {}

\* What was mapped for a path with a parent has all of its secrets.
MappedWhole(ss, entry, p) ==
    entry.id # 0 => \A x \in ss : x.path = p => x.id \in entry.versions

\* A restore carries the listed version id.
LabelsListed(restores, listed) ==
    \A i \in DOMAIN restores : restores[i].label = listed[restores[i].path]

QuietInv ==
    /\ pc \in Ahead => payload.restores = <<>>
    /\ LabelsListed(payload.restores, payload.listed)
    /\ pc = "restore" => payload.removals = <<>>
    /\ budget.operator = MaxOperator =>
            /\ \A x \in secrets : x.managed
            /\ \A p \in Paths : payload.map[p].id # 0 => payload.map[p].managed
            /\ \A p \in Visited(pc, todo) : MappedWhole(secrets, payload.map[p], p)

SameEntries(map, old) ==
    \A p \in Paths : /\ map[p].id = old[p].id
                     /\ map[p].versions = old[p].versions
                     /\ map[p].latest = old[p].latest

LEMMA ManagedKeepsEntries ==
    ASSUME NEW map \in [Paths -> ExistingSecret], NEW p \in Paths
    PROVE  SameEntries([map EXCEPT ![p].managed = TRUE], map)
<1> DEFINE new == [map EXCEPT ![p].managed = TRUE]
<1> SUFFICES ASSUME NEW q \in Paths
             PROVE  /\ new[q].id = map[q].id
                    /\ new[q].versions = map[q].versions
                    /\ new[q].latest = map[q].latest
    BY DEF SameEntries
<1>1. CASE q = p
    <2>1. new[q] = [map[q] EXCEPT !.managed = TRUE] /\ map[q] \in ExistingSecret
        BY <1>1
    <2>2. QED
        BY <2>1 DEF ExistingSecret
<1>2. CASE q # p
    BY <1>2
<1>3. QED
    BY <1>1, <1>2

LEMMA OperatorOnlySpends ==
    ASSUME TypeOK, [Next]_vars
    PROVE  budget'.operator \in Nat /\ budget'.operator <= budget.operator
<1>1. budget \in Budget /\ budget.operator \in Nat
    BY DEF TypeOK, Budget
<1>2. budget' = budget \/ Fault \/ \E kind \in {"writes", "deploys", "operator"} : Spend(kind)
    BY DEF Next, SyncStep, StartSync, ListServices, ListSecretsOfSwarm, LoadExternalState,
           ProcessSameVersion, GetSecretPayload, CreateMissingSecret, CreateUpdatedVersion,
           FinishProcess, ApplyServiceUpdate, FinishApply, RemoveOldVersion, FinishRemove,
           RestoreParent, FinishRestore, PlanCleanup, Return, CallFails, Crash, Environment,
           WriteValue, DeleteValue, OperatorCreates, Deploy, OperatorRemoves, vars
<1>3. Fault => budget'.operator = budget.operator
    BY <1>1 DEF Fault, Budget
<1>4. ASSUME NEW kind \in {"writes", "deploys", "operator"}, Spend(kind)
      PROVE  budget'.operator \in {budget.operator, budget.operator - 1} /\ budget' \in Budget
    BY <1>4, SpendType, <1>1 DEF Spend, Budget
<1>5. ASSUME NEW kind \in {"writes", "deploys", "operator"}, Spend(kind)
      PROVE  budget'.operator \in Nat /\ budget'.operator <= budget.operator
    <2>1. budget'.operator \in Nat
        BY <1>4, <1>5 DEF Budget
    <2>2. QED
        BY <1>1, <1>4, <1>5, <2>1
<1>6. QED
    BY <1>1, <1>2, <1>3, <1>5

\* Once an operator has acted it stays so.
LEMMA OperatorQuiet ==
    ASSUME TypeOK, KeepInv, [Next]_vars, budget'.operator = MaxOperator
    PROVE  budget.operator = MaxOperator
<1>1. budget.operator \in Nat
    BY DEF TypeOK, Budget
<1>2. QED
    BY <1>1, OperatorOnlySpends, BoundsAssumption DEF KeepInv

LEMMA NoOneCreates ==
    ASSUME TypeOK, KeepInv, NEW p \in Paths, OperatorCreates(p)
    PROVE  budget'.operator # MaxOperator
<1>1. Spend("operator") /\ budget.operator \in Nat /\ budget \in Budget
    BY DEF OperatorCreates, TypeOK, Budget
<1>2. budget'.operator = budget.operator - 1
    BY <1>1 DEF Spend, Budget
<1>3. QED
    BY <1>1, <1>2, BoundsAssumption DEF KeepInv

ManagedStay(map, old) == \A p \in Paths : old[p].managed => map[p].managed

LEMMA QuietFrame ==
    ASSUME TypeOK, TypeOK', KeepInv, QuietInv, [Next]_vars,
           budget'.operator = MaxOperator =>
                \A x \in secrets' : \/ x \in secrets
                                    \/ x.managed /\ x.path \notin Visited(pc', todo'),
           SameEntries(payload'.map, payload.map),
           ManagedStay(payload'.map, payload.map),
           payload'.listed = payload.listed,
           LabelsListed(payload'.restores, payload.listed),
           pc' \in Ahead => payload'.restores = <<>>,
           pc' = "restore" => payload'.removals = <<>>,
           pc' = "list_external" => pc = "list_external",
           pc' \in Processing => pc \in Processing /\ todo' \subseteq todo
    PROVE  QuietInv'
<1>1. todo' \subseteq Paths
    BY DEF TypeOK
<1>2. ASSUME budget'.operator = MaxOperator
      PROVE  /\ \A x \in secrets' : x.managed
             /\ \A p \in Paths : payload'.map[p].id # 0 => payload'.map[p].managed
             /\ \A p \in Visited(pc', todo') : MappedWhole(secrets', payload'.map[p], p)
    <2>1. budget.operator = MaxOperator
        BY <1>2, OperatorQuiet
    <2>2. \A x \in secrets' : x.managed
        BY <1>2, <2>1 DEF QuietInv
    <2>3. \A p \in Paths : payload'.map[p].id # 0 => payload'.map[p].managed
        BY <2>1 DEF QuietInv, SameEntries, ManagedStay
    <2>4. ASSUME NEW p \in Visited(pc', todo')
          PROVE  MappedWhole(secrets', payload'.map[p], p)
        <3>1. p \in Visited(pc, todo) /\ p \in Paths
            BY <1>1, <2>4 DEF Visited, Processing
        <3>2. MappedWhole(secrets, payload.map[p], p)
            BY <2>1, <3>1 DEF QuietInv
        <3>3. \A x \in secrets' : x.path = p => x \in secrets
            BY <1>2, <2>4
        <3>4. QED
            BY <3>1, <3>2, <3>3 DEF MappedWhole, SameEntries
    <2>5. QED
        BY <2>2, <2>3, <2>4
<1>3. QED
    BY <1>2 DEF QuietInv

LEMMA QuietError ==
    ASSUME TypeOK, TypeOK', KeepInv, QuietInv, [Next]_vars, NEW pl \in Payload,
           StepError(pl), pl.listed = payload.listed, pl.map = payload.map,
           pl.restores = payload.restores,
           \A x \in secrets' : x \in secrets \/ x.managed,
           pc = "list_external" => secrets' \subseteq secrets
    PROVE  QuietInv'
<1>1. payload' = pl \/ payload' = [pl EXCEPT !.result = NoResult]
    BY BoundsAssumption DEF StepError, TypeOK, RetriesOf
<1>2. /\ payload'.listed = payload.listed /\ payload'.map = payload.map
      /\ payload'.restores = payload.restores
    BY <1>1 DEF Payload
<1>3. \/ pc' \in {"failed", "done", "relist_services", "apply"}
      \/ pc = "list_external" /\ pc' = "list_external"
    BY BoundsAssumption DEF StepError, TypeOK, RetriesOf, StepStart, Go
<1>4. /\ SameEntries(payload'.map, payload.map) /\ ManagedStay(payload'.map, payload.map)
      /\ LabelsListed(payload'.restores, payload.listed)
    BY <1>2 DEF SameEntries, ManagedStay, QuietInv
<1>5. pc' \in Ahead => payload'.restores = <<>>
    BY <1>2, <1>3 DEF QuietInv, Ahead
<1>6. pc' # "restore" /\ pc' \notin Processing
    BY <1>3 DEF Processing
<1>7. \A x \in secrets' : x \in secrets \/ (x.managed /\ x.path \notin Visited(pc', todo'))
    BY <1>3, <1>6 DEF Visited
<1>8. QED
    BY <1>2, <1>3, <1>4, <1>5, <1>6, <1>7, QuietFrame

LEMMA QuietForgotten ==
    ASSUME TypeOK, KeepInv, QuietInv, [Next]_vars,
           payload' = NewPayload, pc' \in {"idle", "list_services"}, secrets' = secrets
    PROVE  QuietInv'
<1>1. /\ payload'.restores = <<>> /\ \A p \in Paths : payload'.map[p].id = 0
      /\ Visited(pc', todo') = {} /\ pc' # "restore"
    BY DEF NewPayload, Unmapped, Visited, Processing
<1>2. LabelsListed(payload'.restores, payload'.listed)
    BY <1>1 DEF LabelsListed
<1>3. budget'.operator = MaxOperator => \A x \in secrets : x.managed
    BY OperatorQuiet DEF QuietInv
<1>4. QED
    BY <1>1, <1>2, <1>3 DEF QuietInv

\* A new map has every secret of a path with a parent.
LEMMA LoadQuiet ==
    ASSUME TypeOK, KeepInv, QuietInv, [Next]_vars, ListSecretsOfSwarm \/ LoadExternalState
    PROVE  QuietInv'
<1>1. payload \in Payload /\ secrets' = secrets
    BY DEF TypeOK, ListSecretsOfSwarm, LoadExternalState, engineVars
<1>2. budget'.operator = MaxOperator => \A x \in secrets : x.managed
    BY OperatorQuiet DEF QuietInv
<1>3. CASE ListSecretsOfSwarm
    <2>1. /\ payload'.map = MapSecrets /\ payload'.restores = payload.restores
          /\ payload'.listed = payload.listed
          /\ \/ pc = "map_secrets" /\ pc' = "list_external"
             \/ pc = "remap_secrets" /\ pc' = "plan_cleanup"
        BY <1>1, <1>3 DEF ListSecretsOfSwarm, Payload, Go
    <2>2. ASSUME NEW p \in Paths
          PROVE  /\ MappedWhole(secrets, MapSecrets[p], p)
                 /\ MapSecrets[p].id # 0 /\ (\A x \in secrets : x.managed)
                        => MapSecrets[p].managed
        <3>1. CASE ParentsOf(p) = {}
            BY <3>1 DEF MapSecrets, Unmapped, MappedWhole
        <3>2. CASE ParentsOf(p) # {}
            <4>1. /\ MapSecrets[p].versions = {secret.id : secret \in OfPath(p)}
                  /\ MapSecrets[p].managed = \E secret \in OfPath(p) : secret.managed
                BY <3>2 DEF MapSecrets
            <4>2. \E x \in OfPath(p) : x \in secrets
                BY <3>2 DEF ParentsOf, OfPath
            <4>3. QED
                BY <4>1, <4>2 DEF MappedWhole, OfPath
        <3>3. QED
            BY <3>1, <3>2
    <2>3. pc' \in Ahead => payload'.restores = <<>>
        BY <2>1 DEF QuietInv, Ahead
    <2>4. Visited(pc', todo') \subseteq Paths /\ pc' # "restore"
        BY <2>1 DEF Visited, Processing
    <2>5. LabelsListed(payload'.restores, payload'.listed)
        BY <2>1 DEF QuietInv
    <2>6. QED
        BY <1>1, <1>2, <2>1, <2>2, <2>3, <2>4, <2>5 DEF QuietInv
<1>4. CASE LoadExternalState
    <2>1. /\ payload'.map = payload.map /\ payload'.restores = payload.restores
          /\ pc = "list_external" /\ pc' = "process" /\ todo' \subseteq Paths
        BY <1>1, <1>4 DEF LoadExternalState, Payload, Go
    <2>2. payload.restores = <<>>
        BY <2>1 DEF QuietInv, Ahead
    <2>3. Visited(pc', todo') \subseteq Visited(pc, todo)
        BY <2>1 DEF Visited, Processing
    <2>4. LabelsListed(payload'.restores, payload'.listed) /\ pc' \notin Ahead
        BY <2>1, <2>2 DEF LabelsListed, Ahead
    <2>5. budget'.operator = MaxOperator => budget.operator = MaxOperator
        BY OperatorQuiet
    <2>6. QED
        BY <1>1, <2>1, <2>3, <2>4, <2>5 DEF QuietInv
<1>5. QED
    BY <1>3, <1>4

\* A path whose secret is created is not visited again.
LEMMA CreateQuiet ==
    ASSUME TypeOK, TypeOK', KeepInv, QuietInv, [Next]_vars,
           CreateMissingSecret \/ CreateUpdatedVersion
    PROVE  QuietInv'
<1>1. payload \in Payload /\ pc \in {"create_secret", "create_version"}
    BY DEF TypeOK, CreateMissingSecret, CreateUpdatedVersion
<1> DEFINE Created(f, secret) ==
            /\ secret \in {ParentSecret(f.path, payload.listed[f.path], f.data),
                           VersionSecret(f.path, payload.listed[f.path], f.data)}
            /\ \/ /\ AddSecret(secret)
                  /\ pc' = "process" /\ todo' = todo \ {f.path}
                  /\ \/ payload' = Counted(payload, "created")
                     \/ payload' \in UpdatePlanned(payload, f.path, f.data)
               \/ StepError(payload) /\ (UNCHANGED engineVars \/ AddSecret(secret))
<1>0. PICK f \in fetched : \E secret : Created(f, secret)
    BY DEF CreateMissingSecret, CreateUpdatedVersion, Go
<1>2. PICK secret : Created(f, secret)
    BY <1>0
<1>3. f.path \in Paths /\ f.data \in Nat
    BY <1>1 DEF TypeOK, Fetched
<1>4. secret.path = f.path /\ secret.managed
    BY <1>2 DEF ParentSecret, VersionSecret
<1>5. AddSecret(secret) \/ UNCHANGED engineVars
        => \A x \in secrets' : x \in secrets \/ x = secret
    BY DEF AddSecret, engineVars
<1>6. CASE StepError(payload) /\ (UNCHANGED engineVars \/ AddSecret(secret))
    BY <1>1, <1>4, <1>5, <1>6, QuietError
<1>7. CASE /\ AddSecret(secret) /\ pc' = "process" /\ todo' = todo \ {f.path}
           /\ \/ payload' = Counted(payload, "created")
              \/ payload' \in UpdatePlanned(payload, f.path, f.data)
    <2>1. CASE payload' = Counted(payload, "created")
        <3>1. /\ payload'.listed = payload.listed /\ payload'.map = payload.map
              /\ payload'.restores = payload.restores
            BY <1>1, <2>1, CountedKeeps
        <3>2. /\ SameEntries(payload'.map, payload.map)
              /\ ManagedStay(payload'.map, payload.map)
              /\ LabelsListed(payload'.restores, payload.listed)
            BY <3>1 DEF SameEntries, ManagedStay, QuietInv
        <3>3. /\ pc \in Processing /\ pc' \notin Ahead
              /\ pc' \notin {"restore", "list_external"}
              /\ secret.path \notin Visited(pc', todo')
            BY <1>1, <1>4, <1>7 DEF Visited, Processing, Ahead
        <3>4. QED
            BY <1>4, <1>5, <1>7, <3>1, <3>2, <3>3, QuietFrame
    <2>2. CASE payload' \in UpdatePlanned(payload, f.path, f.data)
        <3> DEFINE z == [path |-> f.path, label |-> payload.listed[f.path], data |-> f.data]
        <3>1. payload'.listed = payload.listed
            BY <1>3, <2>2, UpdatePlannedKeeps
        <3>2. payload'.map = [payload.map EXCEPT ![f.path].managed = TRUE]
            BY <1>3, <2>2, UpdatePlannedKeeps, ZenonT(60)
        <3>3. payload'.restores = Append(payload.restores, z)
            BY <1>3, <2>2, UpdatePlannedKeeps
        <3>4. payload.map \in [Paths -> ExistingSecret]
            BY <1>1 DEF Payload
        <3>5. SameEntries(payload'.map, payload.map)
            BY <1>3, <3>2, <3>4, ManagedKeepsEntries
        <3>6. ManagedStay(payload'.map, payload.map)
            BY <1>3, <3>2, <3>4 DEF ManagedStay, ExistingSecret
        <3>7. z \in Restore /\ payload.restores \in Seq(Restore)
            BY <1>1, <1>3 DEF Restore, Payload, Listing
        <3>8. z.label = payload.listed[z.path]
            OBVIOUS
        <3> HIDE DEF z
        <3>9. LabelsListed(payload'.restores, payload.listed)
            <4>1. /\ Len(payload.restores) \in Nat
                  /\ DOMAIN payload.restores = 1 .. Len(payload.restores)
                  /\ DOMAIN payload'.restores = 1 .. Len(payload.restores) + 1
                  /\ payload'.restores[Len(payload.restores) + 1] = z
                  /\ \A i \in 1 .. Len(payload.restores) :
                        payload'.restores[i] = payload.restores[i]
                BY <3>3, <3>7, AppendProperties
            <4>2. \A i \in 1 .. Len(payload.restores) + 1 :
                        i = Len(payload.restores) + 1 \/ i \in 1 .. Len(payload.restores)
                BY <4>1
            <4>3. QED
                BY <3>8, <4>1, <4>2 DEF LabelsListed, QuietInv
        <3>10. /\ pc \in Processing /\ pc' \notin Ahead
               /\ pc' \notin {"restore", "list_external"}
               /\ secret.path \notin Visited(pc', todo')
            BY <1>1, <1>4, <1>7 DEF Visited, Processing, Ahead
        <3>11. QED
            BY <1>4, <1>5, <1>7, <3>1, <3>5, <3>6, <3>9, <3>10, QuietFrame
    <2>3. QED
        BY <1>7, <2>1, <2>2
<1>8. QED
    BY <1>2, <1>6, <1>7

LEMMA RestoreQuiet ==
    ASSUME TypeOK, TypeOK', KeepInv, QuietInv, [Next]_vars, RestoreParent
    PROVE  QuietInv'
<1>1. /\ payload.restores \in Seq(Restore) /\ payload.restores # <<>>
      /\ payload \in Payload /\ pc = "restore"
    BY DEF TypeOK, Payload, RestoreParent
<1>2. /\ Len(payload.restores) \in Nat \ {0}
      /\ DOMAIN payload.restores = 1 .. Len(payload.restores)
      /\ DOMAIN Tail(payload.restores) = 1 .. Len(payload.restores) - 1
      /\ \A i \in 1 .. Len(payload.restores) - 1 :
            Tail(payload.restores)[i] = payload.restores[i + 1]
    BY <1>1, HeadTailProperties, EmptySeq
<1>3. \A x \in secrets' : x \in secrets \/ x.managed
    BY DEF RestoreParent, AddSecret, ParentSecret, engineVars
<1>4. CASE payload' = [payload EXCEPT !.restores = Tail(@)] /\ pc' = pc
    <2>1. /\ payload'.restores = Tail(payload.restores) /\ payload'.listed = payload.listed
          /\ payload'.map = payload.map /\ payload'.removals = payload.removals
        BY <1>1, <1>4 DEF Payload
    <2>2. LabelsListed(Tail(payload.restores), payload.listed)
        <3>1. \A i \in 1 .. Len(payload.restores) - 1 : i + 1 \in DOMAIN payload.restores
            BY <1>2
        <3>2. QED
            BY <1>2, <3>1 DEF LabelsListed, QuietInv
    <2>3. SameEntries(payload'.map, payload.map) /\ ManagedStay(payload'.map, payload.map)
        BY <2>1 DEF SameEntries, ManagedStay
    <2>4. /\ pc' \notin Ahead /\ pc' \notin Processing /\ pc' # "list_external"
          /\ Visited(pc', todo') = {} /\ payload'.removals = <<>>
        BY <1>1, <1>4, <2>1 DEF Ahead, Processing, Visited, QuietInv
    <2>5. QED
        BY <1>3, <2>1, <2>2, <2>3, <2>4, QuietFrame
<1>5. CASE StepError(payload)
    BY <1>1, <1>3, <1>5, QuietError
<1>6. QED
    BY <1>4, <1>5 DEF RestoreParent

\* The rest creates no secret and leaves the map and the restores.
LEMMA PipelineQuiet ==
    ASSUME TypeOK, TypeOK', KeepInv, QuietInv, [Next]_vars,
           \/ StartSync \/ ListServices
           \/ \E p \in Paths : ProcessSameVersion(p) \/ GetSecretPayload(p)
           \/ FinishProcess \/ ApplyServiceUpdate \/ FinishApply
           \/ RemoveOldVersion \/ FinishRemove \/ FinishRestore
           \/ PlanCleanup \/ Return \/ CallFails \/ Crash
    PROVE  QuietInv'
<1>1. payload \in Payload
    BY DEF TypeOK
<1>2. CASE StartSync \/ Return \/ Crash
    <2>1. payload' = NewPayload /\ secrets' = secrets /\ pc' \in {"idle", "list_services"}
        BY <1>2 DEF StartSync, Return, Crash, Forget, Go, engineVars
    <2>2. QED
        BY <2>1, QuietForgotten
<1>3. ASSUME secrets' \subseteq secrets, payload'.listed = payload.listed,
             payload'.map = payload.map, payload'.restores = payload.restores,
             pc' \in Ahead => pc \in Ahead, pc' # "list_external",
             pc' = "restore" => payload'.removals = <<>>,
             pc' \in Processing => pc \in Processing /\ todo' \subseteq todo
      PROVE  QuietInv'
    <2>1. /\ SameEntries(payload'.map, payload.map)
          /\ ManagedStay(payload'.map, payload.map)
          /\ LabelsListed(payload'.restores, payload.listed)
          /\ pc' \in Ahead => payload'.restores = <<>>
        BY <1>3 DEF SameEntries, ManagedStay, QuietInv
    <2>2. QED
        BY <1>3, <2>1, QuietFrame
<1>4. ASSUME secrets' \subseteq secrets, NEW pl \in Payload, StepError(pl),
             pl.listed = payload.listed, pl.map = payload.map,
             pl.restores = payload.restores
      PROVE  QuietInv'
    BY <1>4, QuietError
<1>5. CASE ListServices \/ PlanCleanup
    <2>1. /\ payload'.listed = payload.listed /\ payload'.restores = payload.restores
          /\ payload'.map = payload.map /\ secrets' = secrets
        BY <1>1, <1>5 DEF ListServices, PlanCleanup, Payload, engineVars
    <2>2. /\ pc' \in Ahead => pc \in Ahead
          /\ pc' \notin Processing \cup {"list_external", "restore"}
        BY <1>5 DEF ListServices, PlanCleanup, Go, Ahead, Processing
    <2>3. QED
        BY <1>3, <2>1, <2>2
<1>6. ASSUME NEW p \in Paths, ProcessSameVersion(p)
      PROVE  QuietInv'
    <2>1. /\ payload'.listed = payload.listed /\ payload'.restores = payload.restores
          /\ payload'.map = payload.map
        BY <1>6, ProcessSameVersionKeeps, ProcessSameVersionPlans
    <2>2. secrets' = secrets /\ pc' = pc /\ pc = "process" /\ todo' = todo \ {p}
        BY <1>6 DEF ProcessSameVersion, engineVars
    <2>3. QED
        BY <1>3, <2>1, <2>2 DEF Ahead, Processing
<1>7. ASSUME NEW p \in Paths, GetSecretPayload(p)
      PROVE  QuietInv'
    <2>1. secrets' = secrets /\ pc = "process"
        BY <1>7 DEF GetSecretPayload, engineVars
    <2>2. CASE pc' \in {"create_secret", "create_version"} /\ payload' = payload /\ todo' = todo
        BY <1>3, <2>1, <2>2 DEF Ahead, Processing
    <2>3. CASE StepError(payload)
        BY <1>1, <1>4, <2>1, <2>3
    <2>4. QED
        BY <1>7, <2>2, <2>3 DEF GetSecretPayload, Go
<1>8. CASE FinishProcess \/ FinishApply \/ FinishRemove \/ FinishRestore
    <2>1. payload' = payload /\ secrets' = secrets
        BY <1>8 DEF FinishProcess, FinishApply, FinishRemove, FinishRestore, engineVars
    <2>2. /\ pc' \notin Ahead /\ pc' \notin Processing /\ pc' # "list_external"
          /\ pc' = "restore" => payload.removals = <<>>
        BY <1>8 DEF FinishProcess, FinishApply, FinishRemove, FinishRestore, Go,
                    AfterProcess, AfterApply, AfterRemove, AfterRestore, Ahead, Processing
    <2>3. QED
        BY <1>3, <2>1, <2>2
<1>9. CASE ApplyServiceUpdate
    <2>1. secrets' = secrets /\ pc = "apply"
        BY <1>9, ApplyKeeps DEF ApplyServiceUpdate
    <2>2. CASE /\ payload'.listed = payload.listed /\ payload'.map = payload.map
               /\ payload'.restores = payload.restores /\ pc' = pc
        BY <1>3, <2>1, <2>2 DEF Ahead, Processing
    <2>3. QED
        BY <1>4, <1>9, <2>1, <2>2, ApplyKeeps
<1>10. CASE RemoveOldVersion
    <2>1. /\ secrets' \subseteq secrets
          /\ pc \in {"remove", "cleanup"} /\ payload.removals # <<>>
        BY <1>10, RemoveKeeps DEF RemoveOldVersion
    <2>2. PICK id :
            \/ /\ pc' = pc
               /\ \/ \E counter : payload' = Counted(CrossedOff(payload, id), counter)
                  \/ payload' = CrossedOff(payload, id)
            \/ StepError(payload)
        BY <1>10 DEF RemoveOldVersion
    <2>3. CASE /\ pc' = pc
               /\ \/ \E counter : payload' = Counted(CrossedOff(payload, id), counter)
                  \/ payload' = CrossedOff(payload, id)
        <3>1. /\ CrossedOff(payload, id) \in Payload
              /\ CrossedOff(payload, id).restores = payload.restores
            BY <1>1, <2>1, CrossedOffType DEF CrossedOff, Payload
        <3>2. /\ payload'.map = payload.map /\ payload'.listed = payload.listed
              /\ payload'.restores = payload.restores
            BY <1>1, <2>1, <2>3, <3>1, CrossedOffWithin, CountedKeeps
        <3>3. QED
            BY <1>3, <2>1, <2>3, <3>2 DEF Ahead, Processing
    <2>4. CASE StepError(payload)
        BY <1>1, <1>4, <2>1, <2>4
    <2>5. QED
        BY <2>2, <2>3, <2>4
<1>11. CASE CallFails
    BY <1>1, <1>4, <1>11 DEF CallFails, engineVars
<1>12. QED
    BY <1>2, <1>5, <1>6, <1>7, <1>8, <1>9, <1>10, <1>11

\* Who creates a secret by hand spends of what is counted.
LEMMA EnvironmentQuiet ==
    ASSUME TypeOK, TypeOK', KeepInv, QuietInv, [Next]_vars, Environment \/ UNCHANGED vars
    PROVE  QuietInv'
<1>1. pc' = pc /\ payload' = payload /\ todo' = todo
    BY DEF Environment, WriteValue, DeleteValue, OperatorCreates, Deploy,
           OperatorRemoves, vars, syncVars
<1>2. \A p \in Paths : OperatorCreates(p) => budget'.operator # MaxOperator
    BY NoOneCreates
<1>3. \/ \E p \in Paths : OperatorCreates(p)
      \/ secrets' \subseteq secrets
    BY DEF Environment, WriteValue, DeleteValue, Deploy, OperatorRemoves, RemoveSecret,
           vars, engineVars
<1>4. /\ SameEntries(payload'.map, payload.map) /\ ManagedStay(payload'.map, payload.map)
      /\ LabelsListed(payload'.restores, payload.listed)
    BY <1>1 DEF SameEntries, ManagedStay, QuietInv
<1>5. QED
    BY <1>1, <1>2, <1>3, <1>4, QuietFrame DEF QuietInv

LEMMA InitQuiet == Init => QuietInv
BY DEF Init, QuietInv, NewPayload, Unmapped, LabelsListed, Visited, Ahead, Processing

LEMMA NextQuiet ==
    TypeOK /\ TypeOK' /\ KeepInv /\ QuietInv /\ [Next]_vars => QuietInv'
<1> SUFFICES ASSUME TypeOK, TypeOK', KeepInv, QuietInv, [Next]_vars
             PROVE  QuietInv'
    OBVIOUS
<1>1. CASE ListSecretsOfSwarm \/ LoadExternalState
    BY <1>1, LoadQuiet
<1>2. CASE CreateMissingSecret \/ CreateUpdatedVersion
    BY <1>2, CreateQuiet
<1>3. CASE RestoreParent
    BY <1>3, RestoreQuiet
<1>4. CASE \/ StartSync \/ ListServices
           \/ \E p \in Paths : ProcessSameVersion(p) \/ GetSecretPayload(p)
           \/ FinishProcess \/ ApplyServiceUpdate \/ FinishApply
           \/ RemoveOldVersion \/ FinishRemove \/ FinishRestore
           \/ PlanCleanup \/ Return \/ CallFails \/ Crash
    BY <1>4, PipelineQuiet
<1>5. CASE Environment \/ UNCHANGED vars
    BY <1>5, EnvironmentQuiet
<1>6. QED
    BY <1>1, <1>2, <1>3, <1>4, <1>5 DEF Next, SyncStep

-----------------------------------------------------------------------------
(* A synchronization that succeeds leaves the parents of what was listed.    *)

\* What the removals that are still planned leave.
Spares(pl, x) == \A j \in DOMAIN pl.removals : x.id \notin pl.removals[j].left
Remaining(ss, pl) == {x \in ss : Spares(pl, x)}

\* The parent of a path, of which LatestVersion tells the truth.
Settles(x, ss, p, listed) ==
    /\ x \in ss /\ x.path = p /\ x.parent
    /\ \A y \in ss : y.path = p => y.id <= x.id
    /\ x.label = listed[p] \/ \A y \in ss : y.path = p => y = x

Settled(ss, p, listed) == \E x \in ss : Settles(x, ss, p, listed)

\* Such a parent remains, or a new one is to be restored.
Provided(ss, pl, p) ==
    \/ Settled(Remaining(ss, pl), p, pl.listed)
    \/ \E i \in DOMAIN pl.restores : pl.restores[i].path = p

\* Until the last parent is restored, and from then on.
Providing == Updating \cup {"restore"}
Finishing == {"relist_services", "remap_secrets", "plan_cleanup", "cleanup", "done"}

ParentInv ==
    budget.operator = MaxOperator =>
        \A p \in Paths : payload.listed[p] # 0 =>
            /\ pc \in Providing =>
                    (pc \in Processing /\ p \in todo) \/ Provided(secrets, payload, p)
            /\ pc \in Finishing => Settled(secrets, p, payload.listed)

\* Outside of these steps nothing is said.
LEMMA ParentElsewhere ==
    ASSUME pc' \notin Providing, pc' \notin Finishing
    PROVE  ParentInv'
BY DEF ParentInv

\* A secret settles its path as well among fewer secrets.
LEMMA SettlesAmongFewer ==
    ASSUME NEW ss, NEW tt, NEW p, NEW listed, NEW x \in tt,
           Settles(x, ss, p, listed), \A y \in tt : y.path = p => y \in ss
    PROVE  Settled(tt, p, listed)
BY DEF Settles, Settled

\* The youngest one with the listed version settles it.
LEMMA NewestSettles ==
    ASSUME NEW ss, NEW n \in Nat, \A y \in ss : y.id \in Nat /\ (y.id < n \/ y.id = n),
           NEW x \in ss, x.id = n, NEW p, x.path = p, x.parent,
           NEW listed, x.label = listed[p]
    PROVE  Settled(ss, p, listed)
<1>1. \A y \in ss : y.id <= x.id
    OBVIOUS
<1>2. QED
    BY <1>1 DEF Settles, Settled

\* Within them removals take what they were planned to take, and nothing is
\* added.
LEMMA ParentFrame ==
    ASSUME TypeOK, KeepInv, ParentInv, [Next]_vars,
           payload'.listed = payload.listed,
           budget'.operator = MaxOperator /\ pc' \in Providing \cup Finishing
                => secrets' \subseteq secrets,
           pc' \in Providing =>
                /\ pc \in Providing
                /\ pc \in Processing => todo = {} \/ (pc' \in Processing /\ todo' = todo)
                /\ Within(payload'.removals, payload.removals)
                /\ Remaining(secrets', payload') \subseteq Remaining(secrets', payload)
                /\ payload'.restores = payload.restores,
           pc' \in Finishing => pc \in Finishing
    PROVE  ParentInv'
<1> SUFFICES ASSUME budget'.operator = MaxOperator,
                    NEW p \in Paths, payload.listed[p] # 0
             PROVE  /\ pc' \in Providing => \/ pc' \in Processing /\ p \in todo'
                                            \/ Provided(secrets', payload', p)
                    /\ pc' \in Finishing => Settled(secrets', p, payload.listed)
    BY DEF ParentInv
<1>1. budget.operator = MaxOperator /\ budget'.operator = budget.operator
    BY OperatorQuiet
<1>2. \A x \in secrets : x \notin secrets' =>
        /\ RemoveOldVersion
        /\ x.id \in Head(payload.removals).left
    BY <1>1, TakenByRemoval
<1>3. RemoveOldVersion =>
        /\ 1 \in DOMAIN payload.removals
        /\ Head(payload.removals) = payload.removals[1]
        /\ pc \in {"remove", "cleanup"}
    <2> SUFFICES ASSUME RemoveOldVersion
                 PROVE  /\ 1 \in DOMAIN payload.removals
                        /\ Head(payload.removals) = payload.removals[1]
                        /\ pc \in {"remove", "cleanup"}
        OBVIOUS
    <2>1. /\ payload.removals # <<>> /\ payload.removals \in Seq(Removal)
          /\ pc \in {"remove", "cleanup"}
        BY DEF RemoveOldVersion, TypeOK, Payload
    <2>2. QED
        BY <2>1, HeadTailProperties, EmptySeq
<1>4. ASSUME pc' \in Finishing
      PROVE  Settled(secrets', p, payload.listed)
    <2>1. pc \in Finishing /\ secrets' \subseteq secrets
        BY <1>4
    <2>2. PICK x \in secrets : Settles(x, secrets, p, payload.listed)
        BY <1>1, <2>1 DEF ParentInv, Settled
    <2>3. ASSUME x \notin secrets'
          PROVE  FALSE
        <3>1. pc = "cleanup" /\ x.id \in payload.removals[1].left
              /\ 1 \in DOMAIN payload.removals
            BY <1>2, <1>3, <2>1, <2>3 DEF Finishing
        <3>2. p \in Orphans
            BY <2>2, <3>1 DEF KeepInv, OfItsPath, Settles
        <3>3. QED
            BY <3>2 DEF Orphans
    <2>4. QED
        BY <2>1, <2>2, <2>3, SettlesAmongFewer
<1>5. ASSUME pc' \in Providing, ~(pc' \in Processing /\ p \in todo')
      PROVE  Provided(secrets', payload', p)
    <2>1. Provided(secrets, payload, p)
        BY <1>1, <1>5 DEF ParentInv
    <2>2. CASE \E i \in DOMAIN payload.restores : payload.restores[i].path = p
        BY <1>5, <2>2 DEF Provided
    <2>3. ASSUME NEW x \in Remaining(secrets, payload),
                 Settles(x, Remaining(secrets, payload), p, payload.listed)
          PROVE  Provided(secrets', payload', p)
        <3>1. x \in secrets /\ Spares(payload, x)
            BY DEF Remaining
        <3>2. x \in secrets'
            BY <1>2, <1>3, <3>1 DEF Spares
        <3>3. Spares(payload', x)
            BY <1>5, <3>1 DEF Within, Spares
        <3>4. Remaining(secrets', payload') \subseteq Remaining(secrets, payload)
            BY <1>5 DEF Remaining
        <3>5. x \in Remaining(secrets', payload')
            BY <3>2, <3>3 DEF Remaining
        <3>6. QED
            BY <2>3, <3>4, <3>5, SettlesAmongFewer DEF Provided
    <2>4. QED
        BY <2>1, <2>2, <2>3 DEF Provided, Settled
<1>6. QED
    BY <1>4, <1>5

LEMMA SameRemaining ==
    ASSUME payload'.removals = payload.removals
    PROVE  Remaining(secrets', payload') \subseteq Remaining(secrets', payload)
BY DEF Remaining, Spares

\* Who creates a secret.
LEMMA AddedBy ==
    ASSUME TypeOK, KeepInv, [Next]_vars, budget'.operator = MaxOperator
    PROVE  secrets' \subseteq secrets \/ pc \in {"create_secret", "create_version", "restore"}
<1>1. \A p \in Paths : ~OperatorCreates(p)
    BY NoOneCreates
<1>2. Environment \/ UNCHANGED vars => secrets' \subseteq secrets
    BY <1>1 DEF Environment, WriteValue, DeleteValue, Deploy, OperatorRemoves, RemoveSecret,
           vars, engineVars
<1>3. ApplyServiceUpdate \/ RemoveOldVersion => secrets' \subseteq secrets
    BY ApplyKeeps, RemoveKeeps
<1>4. CreateMissingSecret \/ CreateUpdatedVersion \/ RestoreParent
        => pc \in {"create_secret", "create_version", "restore"}
    BY DEF CreateMissingSecret, CreateUpdatedVersion, RestoreParent
<1>5. ASSUME \/ StartSync \/ ListServices \/ ListSecretsOfSwarm \/ LoadExternalState
             \/ \E p \in Paths : ProcessSameVersion(p) \/ GetSecretPayload(p)
             \/ FinishProcess \/ FinishApply \/ FinishRemove \/ FinishRestore
             \/ PlanCleanup \/ Return \/ CallFails \/ Crash
      PROVE  secrets' \subseteq secrets
    BY <1>5 DEF StartSync, ListServices, ListSecretsOfSwarm, LoadExternalState,
           ProcessSameVersion, GetSecretPayload, FinishProcess, FinishApply, FinishRemove,
           FinishRestore, PlanCleanup, Return, CallFails, Crash, engineVars
<1>6. CASE UNCHANGED vars \/ CallFails \/ Crash \/ Environment
    BY <1>2, <1>5, <1>6
<1>7. CASE SyncStep
    BY <1>3, <1>4, <1>5, <1>7, Zenon DEF SyncStep
<1>8. QED
    BY <1>6, <1>7, Zenon DEF Next

LEMMA ParentError ==
    ASSUME TypeOK, KeepInv, ParentInv, [Next]_vars,
           NEW pl \in Payload, StepError(pl), pl.removals = payload.removals,
           pl.listed = payload.listed, pl.restores = payload.restores
    PROVE  ParentInv'
<1>1. payload' = pl \/ payload' = [pl EXCEPT !.result = NoResult]
    BY BoundsAssumption DEF StepError, TypeOK, RetriesOf
<1>2. /\ payload'.removals = payload.removals /\ payload'.listed = payload.listed
      /\ payload'.restores = payload.restores
    BY <1>1 DEF Payload
<1>3. \/ pc' \in {"failed", "list_external"}
      \/ pc = "cleanup" /\ pc' = "done"
      \/ pc \in {"relist_services", "remap_secrets"} /\ pc' = "relist_services"
      \/ pc = "apply" /\ pc' = "apply"
    BY BoundsAssumption DEF StepError, TypeOK, RetriesOf, StepStart, Go
<1>4. CASE pc' \in {"failed", "list_external"}
    <2>1. pc' \notin Providing /\ pc' \notin Finishing
        BY <1>4 DEF Providing, Updating, Processing, Finishing
    <2>2. QED
        BY <2>1, ParentElsewhere
<1>5. CASE \/ pc = "cleanup" /\ pc' = "done"
           \/ pc \in {"relist_services", "remap_secrets"} /\ pc' = "relist_services"
           \/ pc = "apply" /\ pc' = "apply"
    <2>1. /\ pc' \in Providing => pc \in Providing /\ pc \notin Processing
          /\ pc' \in Finishing => pc \in Finishing
        BY <1>5 DEF Providing, Updating, Processing, Finishing
    <2>2. budget'.operator = MaxOperator => secrets' \subseteq secrets
        BY <1>5, AddedBy
    <2>3. Remaining(secrets', payload') \subseteq Remaining(secrets', payload)
        BY <1>2, SameRemaining
    <2>4. QED
        BY <1>2, <2>1, <2>2, <2>3, WithinItself, ParentFrame
<1>6. QED
    BY <1>3, <1>4, <1>5

-----------------------------------------------------------------------------
(* The steps that provide for a path, and those that count on it.            *)

\* What is planned for one path takes nothing of another.
LEMMA ProvidedGrows ==
    ASSUME NEW pl \in Payload, NEW new \in Payload, NEW p, NEW q, q # p,
           NEW ss, NEW tt, ss \subseteq tt, \A x \in tt : x.path = q => x \in ss,
           new.listed = pl.listed,
           \/ new.removals = pl.removals
           \/ \E r \in Removal :
                /\ new.removals = Append(pl.removals, r)
                /\ \A id \in r.left : \A x \in ss : x.id = id => x.path = p,
           \/ new.restores = pl.restores
           \/ \E z \in Restore : new.restores = Append(pl.restores, z),
           Provided(ss, pl, q)
    PROVE  Provided(tt, new, q)
<1>1. pl.removals \in Seq(Removal) /\ pl.restores \in Seq(Restore)
    BY DEF Payload
<1>2. ASSUME NEW i \in DOMAIN pl.restores
      PROVE  i \in DOMAIN new.restores /\ new.restores[i] = pl.restores[i]
    <2>1. ASSUME NEW z \in Restore, new.restores = Append(pl.restores, z)
          PROVE  i \in DOMAIN new.restores /\ new.restores[i] = pl.restores[i]
        BY <1>1, <2>1, AppendProperties
    <2>2. QED
        BY <2>1
<1>3. ASSUME NEW x \in ss, x.path = q, Spares(pl, x)
      PROVE  Spares(new, x)
    <2>1. ASSUME NEW r \in Removal, new.removals = Append(pl.removals, r),
                 x.id \notin r.left, NEW j \in DOMAIN new.removals
          PROVE  x.id \notin new.removals[j].left
        <3>1. /\ Len(pl.removals) \in Nat /\ DOMAIN pl.removals = 1 .. Len(pl.removals)
              /\ DOMAIN new.removals = 1 .. Len(pl.removals) + 1
              /\ new.removals[Len(pl.removals) + 1] = r
              /\ \A i \in 1 .. Len(pl.removals) : new.removals[i] = pl.removals[i]
            BY <1>1, <2>1, AppendProperties
        <3>2. j = Len(pl.removals) + 1 \/ j \in DOMAIN pl.removals
            BY <2>1, <3>1
        <3>3. QED
            BY <1>3, <2>1, <3>1, <3>2 DEF Spares
    <2>2. QED
        BY <1>3, <2>1 DEF Spares
<1>4. ASSUME NEW x \in Remaining(tt, new), x.path = q
      PROVE  x \in Remaining(ss, pl)
    <2>1. x \in ss /\ Spares(new, x)
        BY <1>4 DEF Remaining
    <2>2. Spares(pl, x)
        <3>1. ASSUME NEW r \in Removal, new.removals = Append(pl.removals, r)
              PROVE  Spares(pl, x)
            BY <1>1, <2>1, <3>1, AppendProperties DEF Spares
        <3>2. QED
            BY <2>1, <3>1 DEF Spares
    <2>3. QED
        BY <2>1, <2>2 DEF Remaining
<1>5. ASSUME NEW x \in Remaining(ss, pl), Settles(x, Remaining(ss, pl), q, pl.listed)
      PROVE  Settled(Remaining(tt, new), q, new.listed)
    <2>1. x \in tt /\ x.path = q /\ x \in ss /\ Spares(pl, x)
        BY <1>5 DEF Remaining, Settles
    <2>2. x \in Remaining(tt, new)
        BY <1>3, <2>1 DEF Remaining
    <2>3. QED
        BY <1>4, <1>5, <2>2, SettlesAmongFewer
<1>6. QED
    BY <1>2, <1>5 DEF Provided, Settled

\* A path is processed: what was provided stays, and the path is provided for.
LEMMA ParentProcessed ==
    ASSUME TypeOK, TypeOK', ParentInv, NEW p \in Paths, todo' = todo \ {p},
           pc \in Processing, budget' = budget, secrets \subseteq secrets',
           \A x \in secrets' : x \in secrets \/ x.path = p,
           payload'.listed = payload.listed, pc' = "process",
           \/ payload'.removals = payload.removals
           \/ \E r \in Removal :
                /\ payload'.removals = Append(payload.removals, r)
                /\ \A id \in r.left : \A x \in secrets : x.id = id => x.path = p,
           \/ payload'.restores = payload.restores
           \/ \E z \in Restore : payload'.restores = Append(payload.restores, z),
           budget.operator = MaxOperator => Provided(secrets', payload', p)
    PROVE  ParentInv'
<1> SUFFICES ASSUME budget.operator = MaxOperator,
                    NEW q \in Paths, payload.listed[q] # 0, q \notin todo'
             PROVE  Provided(secrets', payload', q)
    BY DEF ParentInv, Processing, Finishing
<1>1. CASE q = p
    BY <1>1
<1>2. CASE q # p
    <2>1. Provided(secrets, payload, q)
        BY <1>2 DEF ParentInv, Providing, Updating
    <2>2. payload \in Payload /\ payload' \in Payload
        BY DEF TypeOK
    <2>3. QED
        BY <1>2, <2>1, <2>2, ProvidedGrows
<1>3. QED
    BY <1>1, <1>2

\* The mapped parent, which its removal leaves out, and nothing else.
LEMMA ProcessSameVersionParent ==
    ASSUME TypeOK, TypeOK', Agreed, KeepInv, QuietInv, ParentInv, NEW p \in Paths,
           ProcessSameVersion(p)
    PROVE  ParentInv'
<1> DEFINE entry == payload.map[p]
           old   == entry.versions \ {entry.id}
<1>1. /\ pc = "process" /\ pc' = pc /\ p \in todo /\ todo' = todo \ {p}
      /\ entry.id # 0 /\ budget' = budget /\ secrets' = secrets
    BY DEF ProcessSameVersion, SameVersion, IsMissing, engineVars
<1>2. payload'.listed = payload.listed /\ payload'.restores = payload.restores
    BY ProcessSameVersionKeeps
<1>3. ASSUME budget.operator = MaxOperator
      PROVE  /\ \E x \in secrets : /\ x.id = entry.id /\ x.path = p /\ x.parent
                                   /\ Spares(payload, x)
             /\ \A y \in secrets : y.path = p /\ y.id # entry.id => y.id \in old
             /\ entry.managed
    <2>1. PICK x \in secrets : x.id = entry.id /\ x.path = p /\ x.parent
        BY <1>1, <1>3 DEF KeepInv, ParentsThere, Processing
    <2>2. \A j \in DOMAIN payload.removals : payload.removals[j].path # p
        BY <1>1 DEF KeepInv, NotYetProcessed, Processing
    <2>3. Spares(payload, x)
        BY <2>1, <2>2 DEF KeepInv, OfItsPath, Spares
    <2>4. MappedWhole(secrets, entry, p) /\ entry.managed
        BY <1>1, <1>3 DEF QuietInv, Visited, Processing
    <2>5. QED
        BY <1>1, <2>1, <2>3, <2>4 DEF MappedWhole
<1>4. ASSUME budget.operator = MaxOperator, NEW x \in secrets,
             x.id = entry.id, x.path = p, x.parent, Spares(payload', x),
             \A y \in secrets : y.path = p /\ y.id # entry.id => ~Spares(payload', y)
      PROVE  Provided(secrets', payload', p)
    <2>1. \A y \in Remaining(secrets, payload') : y.path = p => y = x
        BY <1>4, AgreedFacts DEF Remaining
    <2>2. x \in Remaining(secrets, payload') /\ x.id \in Nat /\ x.id <= x.id
        BY <1>4 DEF Remaining, TypeOK, EngineTypeOK, Secret
    <2>3. Settles(x, Remaining(secrets, payload'), p, payload'.listed)
        BY <1>4, <2>1, <2>2 DEF Settles
    <2>4. QED
        BY <1>1, <2>2, <2>3 DEF Provided, Settled
<1>5. CASE payload'.removals = payload.removals /\ (entry.managed => old = {})
    <2>1. ASSUME budget.operator = MaxOperator
          PROVE  Provided(secrets', payload', p)
        <3>1. PICK x \in secrets : /\ x.id = entry.id /\ x.path = p /\ x.parent
                                   /\ Spares(payload, x)
            BY <1>3, <2>1
        <3>2. Spares(payload', x)
            BY <1>5, <3>1 DEF Spares
        <3>3. \A y \in secrets : ~(y.path = p /\ y.id # entry.id)
            BY <1>3, <1>5, <2>1
        <3>4. QED
            BY <1>4, <2>1, <3>1, <3>2, <3>3
    <2>2. QED
        BY <1>1, <1>2, <1>5, <2>1, ParentProcessed DEF Processing
<1>6. ASSUME NEW r \in Removal, r.path = p, r.left = old,
             payload'.removals = Append(payload.removals, r)
      PROVE  ParentInv'
    <2>1. \A id \in r.left : \A x \in secrets : x.id = id => x.path = p
        BY <1>6, AgreedFacts
    <2>2. /\ payload.removals \in Seq(Removal) /\ Len(payload.removals) \in Nat
          /\ DOMAIN payload.removals = 1 .. Len(payload.removals)
          /\ DOMAIN payload'.removals = 1 .. Len(payload.removals) + 1
          /\ payload'.removals[Len(payload.removals) + 1] = r
          /\ \A i \in 1 .. Len(payload.removals) :
                payload'.removals[i] = payload.removals[i]
        BY <1>6, AppendProperties DEF TypeOK, Payload
    <2>3. /\ \A j \in DOMAIN payload'.removals :
                j = Len(payload.removals) + 1 \/ j \in DOMAIN payload.removals
          /\ Len(payload.removals) + 1 \in DOMAIN payload'.removals
        BY <2>2
    <2>4. ASSUME budget.operator = MaxOperator
          PROVE  Provided(secrets', payload', p)
        <3>1. PICK x \in secrets : /\ x.id = entry.id /\ x.path = p /\ x.parent
                                   /\ Spares(payload, x)
            BY <1>3, <2>4
        <3>2. Spares(payload', x)
            <4>1. x.id \notin r.left
                BY <1>6, <3>1
            <4>2. QED
                BY <2>2, <2>3, <3>1, <4>1 DEF Spares
        <3>3. \A y \in secrets : y.path = p /\ y.id # entry.id => ~Spares(payload', y)
            BY <1>3, <1>6, <2>2, <2>3, <2>4 DEF Spares
        <3>4. QED
            BY <1>4, <2>4, <3>1, <3>2, <3>3
    <2>5. QED
        BY <1>1, <1>2, <1>6, <2>1, <2>4, ParentProcessed DEF Processing
<1>7. QED
    BY <1>5, <1>6, ProcessSameVersionPlans

\* A new parent is younger than all that is there.
LEMMA NewParentSettles ==
    ASSUME TypeOK, TypeOK', KeepInv, NEW secret, secret.id = nextId, secret.parent,
           secrets' = secrets \cup {secret}, secret.label = payload.listed[secret.path],
           payload'.removals = payload.removals, payload'.listed = payload.listed
    PROVE  Provided(secrets', payload', secret.path)
<1>1. nextId \in Nat /\ \A y \in secrets : y.id \in Nat /\ y.id < nextId
    BY DEF TypeOK, EngineTypeOK, Secret
<1>2. Spares(payload', secret)
    BY <1>1 DEF KeepInv, OfItsPath, Spares
<1>3. secret \in Remaining(secrets', payload')
    BY <1>2 DEF Remaining
<1>4. \A y \in Remaining(secrets', payload') :
            y.id \in Nat /\ (y.id < nextId \/ y.id = nextId)
    BY <1>1 DEF Remaining
<1>5. secret.label = payload'.listed[secret.path]
    OBVIOUS
<1>6. Settled(Remaining(secrets', payload'), secret.path, payload'.listed)
    BY <1>1, <1>3, <1>4, <1>5, NewestSettles
<1>7. QED
    BY <1>6 DEF Provided

LEMMA CreateMissingParent ==
    ASSUME TypeOK, TypeOK', KeepInv, ParentInv, [Next]_vars, CreateMissingSecret
    PROVE  ParentInv'
<1> PICK f \in fetched :
        LET secret == ParentSecret(f.path, payload.listed[f.path], f.data)
        IN \/ /\ AddSecret(secret)
              /\ pc' = "process" /\ todo' = todo \ {f.path}
              /\ payload' = Counted(payload, "created")
              /\ budget' = budget
           \/ StepError(payload)
    BY DEF CreateMissingSecret, Go
<1> DEFINE p == f.path
           secret == ParentSecret(p, payload.listed[p], f.data)
<1>1. /\ payload \in Payload /\ pc = "create_secret" /\ p \in Paths
      /\ secret.id = nextId /\ secret.path = p /\ secret.parent
      /\ secret.label = payload.listed[p]
    BY DEF TypeOK, Fetched, CreateMissingSecret, ParentSecret
<1> HIDE DEF secret
<1>2. CASE /\ AddSecret(secret) /\ pc' = "process" /\ todo' = todo \ {p}
           /\ payload' = Counted(payload, "created") /\ budget' = budget
    <2>1. /\ payload'.removals = payload.removals /\ payload'.listed = payload.listed
          /\ payload'.restores = payload.restores
        BY <1>1, <1>2, CountedKeeps
    <2>2. secrets' = secrets \cup {secret}
        BY <1>2 DEF AddSecret
    <2>3. Provided(secrets', payload', p)
        BY <1>1, <2>1, <2>2, NewParentSettles
    <2>4. QED
        BY <1>1, <1>2, <2>1, <2>2, <2>3, ParentProcessed DEF Processing
<1>3. CASE StepError(payload)
    BY <1>1, <1>3, ParentError
<1>4. QED
    BY <1>2, <1>3 DEF secret

\* A parent to be restored.
LEMMA CreateUpdatedParent ==
    ASSUME TypeOK, TypeOK', Agreed, KeepInv, ParentInv, [Next]_vars, CreateUpdatedVersion
    PROVE  ParentInv'
<1> PICK f \in fetched :
        LET secret == VersionSecret(f.path, payload.listed[f.path], f.data)
        IN \/ /\ AddSecret(secret)
              /\ pc' = "process" /\ todo' = todo \ {f.path}
              /\ payload' \in UpdatePlanned(payload, f.path, f.data)
              /\ budget' = budget
           \/ StepError(payload)
    BY DEF CreateUpdatedVersion, Go
<1> DEFINE p == f.path
           r == [path |-> p, parent |-> payload.map[p].id,
                 left |-> payload.map[p].versions]
           z == [path |-> p, label |-> payload.listed[p], data |-> f.data]
<1>1. /\ payload \in Payload /\ pc = "create_version" /\ p \in Paths /\ f.data \in Nat
    BY DEF TypeOK, Fetched, CreateUpdatedVersion
<1>2. CASE /\ \E secret : AddSecret(secret) /\ secret.path = p
           /\ pc' = "process" /\ todo' = todo \ {p}
           /\ payload' \in UpdatePlanned(payload, p, f.data) /\ budget' = budget
    <2>1. /\ payload'.removals = Append(payload.removals, r)
          /\ payload'.restores = Append(payload.restores, z)
          /\ payload'.listed = payload.listed
        BY <1>1, <1>2, UpdatePlannedKeeps
    <2>2. /\ r \in Removal /\ z \in Restore /\ z.path = p
          /\ \A id \in r.left : \A x \in secrets : x.id = id => x.path = p
        BY <1>1, AgreedFacts DEF Removal, Restore, Payload, ExistingSecret, Listing
    <2> HIDE DEF r, z
    <2>3. Provided(secrets', payload', p)
        <3>1. payload.restores \in Seq(Restore)
            BY <1>1 DEF Payload
        <3>2. /\ Len(payload.restores) + 1 \in DOMAIN payload'.restores
              /\ payload'.restores[Len(payload.restores) + 1] = z
            BY <2>1, <2>2, <3>1, AppendProperties
        <3>3. QED
            BY <2>2, <3>2 DEF Provided
    <2>4. secrets \subseteq secrets' /\ \A x \in secrets' : x \in secrets \/ x.path = p
        BY <1>2 DEF AddSecret
    <2>5. QED
        BY <1>1, <1>2, <2>1, <2>2, <2>3, <2>4, ParentProcessed DEF Processing
<1>3. CASE StepError(payload)
    BY <1>1, <1>3, ParentError
<1>4. QED
    BY <1>2, <1>3 DEF VersionSecret

\* It is restored.
LEMMA RestoreParentParent ==
    ASSUME TypeOK, TypeOK', KeepInv, QuietInv, ParentInv, [Next]_vars, RestoreParent
    PROVE  ParentInv'
<1> DEFINE z == Head(payload.restores)
<1> PICK secret :
        /\ secret.id = nextId /\ secret.path = z.path /\ secret.parent
        /\ secret.label = z.label
        /\ \/ /\ AddSecret(secret)
              /\ payload' = [payload EXCEPT !.restores = Tail(@)]
              /\ pc' = pc /\ budget' = budget
           \/ StepError(payload)
    BY DEF RestoreParent, ParentSecret
<1>1. /\ payload \in Payload /\ pc = "restore" /\ payload.restores # <<>>
    BY DEF TypeOK, RestoreParent
<1>2. CASE /\ AddSecret(secret) /\ pc' = pc /\ budget' = budget
           /\ payload' = [payload EXCEPT !.restores = Tail(@)]
    <2>1. /\ payload'.removals = payload.removals /\ payload'.listed = payload.listed
          /\ payload'.restores = Tail(payload.restores)
        BY <1>1, <1>2 DEF Payload
    <2>2. secrets' = secrets \cup {secret}
        BY <1>2 DEF AddSecret
    <2>3. /\ payload.restores \in Seq(Restore) /\ Len(payload.restores) \in Nat \ {0}
          /\ DOMAIN payload.restores = 1 .. Len(payload.restores)
          /\ z = payload.restores[1]
          /\ DOMAIN payload'.restores = 1 .. Len(payload.restores) - 1
          /\ \A k \in 1 .. Len(payload.restores) - 1 :
                payload'.restores[k] = payload.restores[k + 1]
        BY <1>1, <2>1, HeadTailProperties, EmptySeq DEF Payload
    <2> HIDE DEF z
    <2>4. z.label = payload.listed[z.path]
        BY <2>3 DEF QuietInv, LabelsListed
    <2>5. Provided(secrets', payload', z.path)
        BY <2>1, <2>2, <2>4, NewParentSettles
    <2> SUFFICES ASSUME budget.operator = MaxOperator,
                        NEW p \in Paths, payload.listed[p] # 0
                 PROVE  Provided(secrets', payload', p)
        BY <1>1, <1>2, <2>1 DEF ParentInv, Finishing
    <2>6. CASE p = z.path
        BY <2>5, <2>6
    <2>7. ASSUME p # z.path
          PROVE  Provided(secrets', payload', p)
        <3>1. Provided(secrets, payload, p)
            BY <1>1 DEF ParentInv, Providing, Processing
        <3>2. ASSUME NEW i \in DOMAIN payload.restores, payload.restores[i].path = p
              PROVE  Provided(secrets', payload', p)
            <4>1. i # 1
                BY <2>3, <2>7, <3>2
            <4>2. i - 1 \in DOMAIN payload'.restores /\ payload'.restores[i - 1].path = p
                BY <2>3, <3>2, <4>1
            <4>3. QED
                BY <4>2 DEF Provided
        <3>3. ASSUME NEW x \in Remaining(secrets, payload),
                     Settles(x, Remaining(secrets, payload), p, payload.listed)
              PROVE  Provided(secrets', payload', p)
            <4>1. x \in Remaining(secrets', payload')
                BY <2>1, <2>2 DEF Remaining, Spares
            <4>2. \A y \in Remaining(secrets', payload') :
                        y.path = p => y \in Remaining(secrets, payload)
                BY <2>1, <2>2, <2>7 DEF Remaining, Spares
            <4>3. QED
                BY <2>1, <3>3, <4>1, <4>2, SettlesAmongFewer DEF Provided
        <3>4. QED
            BY <3>1, <3>2, <3>3 DEF Provided, Settled
    <2>8. QED
        BY <2>6, <2>7
<1>3. CASE StepError(payload)
    BY <1>1, <1>3, ParentError
<1>4. QED
    BY <1>2, <1>3

\* Nothing is to be restored any more when the steps are over that provide.
LEMMA FinishParent ==
    ASSUME TypeOK, KeepInv, QuietInv, ParentInv, [Next]_vars,
           FinishProcess \/ FinishApply \/ FinishRemove \/ FinishRestore
    PROVE  ParentInv'
<1>1. secrets' = secrets /\ payload' = payload /\ budget' = budget /\ todo' = todo
    BY DEF FinishProcess, FinishApply, FinishRemove, FinishRestore, engineVars
<1>2. \/ /\ pc \in Providing /\ pc' \in {"relist_services", "done"}
         /\ payload.restores = <<>> /\ payload.removals = <<>>
      \/ pc \in Providing /\ pc' \in {"apply", "remove", "restore"}
      \/ pc = "cleanup" /\ pc' = "done"
    BY DEF FinishProcess, FinishApply, FinishRemove, FinishRestore, Go, AfterProcess,
           AfterApply, AfterRemove, AfterRestore, Providing, Updating, Processing, QuietInv
<1>3. pc \in Processing => todo = {}
    BY DEF FinishProcess, FinishApply, FinishRemove, FinishRestore, Processing
<1>4. CASE /\ pc \in Providing /\ pc' \in {"relist_services", "done"}
           /\ payload.restores = <<>> /\ payload.removals = <<>>
    <2>1. \A p : Provided(secrets, payload, p) => Settled(secrets, p, payload.listed)
        <3>1. Remaining(secrets, payload) = secrets
            BY <1>4 DEF Remaining, Spares
        <3>2. QED
            BY <1>4, <3>1 DEF Provided
    <2>2. pc' \notin Providing
        BY <1>4 DEF Providing, Updating, Processing
    <2>3. QED
        BY <1>1, <1>3, <1>4, <2>1, <2>2 DEF ParentInv
<1>5. CASE pc \in Providing /\ pc' \in {"apply", "remove", "restore"}
    <2>1. pc' \notin Finishing
        BY <1>5 DEF Finishing
    <2>2. QED
        BY <1>1, <1>3, <1>5, <2>1, WithinItself, SameRemaining, ParentFrame
<1>6. CASE pc = "cleanup" /\ pc' = "done"
    <2>1. pc \in Finishing /\ pc' \notin Providing
        BY <1>6 DEF Finishing, Providing, Updating, Processing
    <2>2. QED
        BY <1>1, <2>1, ParentFrame
<1>7. QED
    BY <1>2, <1>4, <1>5, <1>6

\* The rest of the pipeline.
LEMMA PipelineParent ==
    ASSUME TypeOK, KeepInv, ParentInv, [Next]_vars,
           \/ StartSync \/ ListServices \/ ListSecretsOfSwarm \/ LoadExternalState
           \/ \E p \in Paths : GetSecretPayload(p)
           \/ ApplyServiceUpdate \/ RemoveOldVersion \/ PlanCleanup
           \/ Return \/ CallFails \/ Crash
    PROVE  ParentInv'
<1>1. payload \in Payload
    BY DEF TypeOK
<1>2. CASE StartSync \/ Return \/ Crash
    <2>1. pc' \notin Providing /\ pc' \notin Finishing
        BY <1>2 DEF StartSync, Return, Crash, Go, Providing, Updating, Processing, Finishing
    <2>2. QED
        BY <2>1, ParentElsewhere
<1>3. CASE ListServices \/ ListSecretsOfSwarm \/ PlanCleanup
    <2>1. payload'.listed = payload.listed
        BY <1>1, <1>3 DEF ListServices, ListSecretsOfSwarm, PlanCleanup, Payload
    <2>2. /\ pc' \in {"map_secrets", "list_external", "remap_secrets", "plan_cleanup",
                      "cleanup"}
          /\ pc' \in {"remap_secrets", "plan_cleanup", "cleanup"} =>
                pc \in {"relist_services", "remap_secrets", "plan_cleanup"}
        BY <1>3 DEF ListServices, ListSecretsOfSwarm, PlanCleanup, Go
    <2>3. pc' \notin Providing /\ (pc' \in Finishing => pc \in Finishing)
        BY <2>2 DEF Providing, Updating, Processing, Finishing
    <2>4. QED
        BY <1>3, <2>1, <2>3, ParentFrame
            DEF ListServices, ListSecretsOfSwarm, PlanCleanup, engineVars
<1>4. CASE LoadExternalState
    <2>1. /\ payload'.listed = ListExternal /\ pc' = "process"
          /\ todo' = {p \in Paths : ListExternal[p] # 0}
        BY <1>1, <1>4 DEF LoadExternalState, Payload, Go
    <2>2. QED
        BY <2>1 DEF ParentInv, Processing, Finishing
<1>5. ASSUME NEW p \in Paths, GetSecretPayload(p)
      PROVE  ParentInv'
    <2>1. CASE /\ pc' \in {"create_secret", "create_version"}
               /\ payload' = payload /\ todo' = todo
        <3>1. /\ pc \in Providing /\ pc' \in Processing /\ pc' \notin Finishing
            BY <1>5, <2>1
                DEF GetSecretPayload, Providing, Updating, Processing, Finishing
        <3>2. QED
            BY <1>5, <2>1, <3>1, WithinItself, SameRemaining, ParentFrame
                DEF GetSecretPayload, engineVars
    <2>2. CASE StepError(payload)
        BY <1>1, <2>2, ParentError
    <2>3. QED
        BY <1>5, <2>1, <2>2 DEF GetSecretPayload, Go
<1>6. CASE ApplyServiceUpdate
    <2>1. pc = "apply"
        BY <1>6 DEF ApplyServiceUpdate
    <2>2. CASE /\ payload'.listed = payload.listed /\ payload'.restores = payload.restores
               /\ payload'.removals = payload.removals /\ pc' = pc
        <3>1. pc \in Providing /\ pc \notin Processing /\ pc \notin Finishing
            BY <2>1 DEF Providing, Updating, Processing, Finishing
        <3>2. QED
            BY <1>6, <2>2, <3>1, ApplyKeeps, WithinItself, SameRemaining, ParentFrame
    <2>3. ASSUME NEW pl \in Payload, StepError(pl), pl.listed = payload.listed,
                 pl.restores = payload.restores, pl.removals = payload.removals
          PROVE  ParentInv'
        BY <2>3, ParentError
    <2>4. QED
        BY <1>6, <2>2, <2>3, ApplyKeeps
<1>7. CASE RemoveOldVersion
    <2>1. pc \in {"remove", "cleanup"} /\ payload.removals # <<>>
        BY <1>7 DEF RemoveOldVersion
    <2>2. PICK id :
            \/ /\ pc' = pc /\ ~Live(id)'
               /\ \/ \E counter : payload' = Counted(CrossedOff(payload, id), counter)
                  \/ payload' = CrossedOff(payload, id)
            \/ StepError(payload)
        BY <1>7 DEF RemoveOldVersion, RemoveSecret, Live, engineVars
    <2>3. CASE /\ pc' = pc /\ ~Live(id)'
               /\ \/ \E counter : payload' = Counted(CrossedOff(payload, id), counter)
                  \/ payload' = CrossedOff(payload, id)
        <3>1. /\ CrossedOff(payload, id) \in Payload
              /\ Within(CrossedOff(payload, id).removals, payload.removals)
              /\ CrossedOff(payload, id).listed = payload.listed
              /\ CrossedOff(payload, id).restores = payload.restores
            BY <1>1, <2>1, CrossedOffType, CrossedOffWithin DEF CrossedOff, Payload
        <3>2. /\ Within(payload'.removals, payload.removals)
              /\ payload'.listed = payload.listed
              /\ payload'.restores = payload.restores
            BY <2>3, <3>1, CountedKeeps
        <3>3. pc \notin Processing /\ secrets' \subseteq secrets
            BY <1>7, <2>1, RemoveKeeps DEF Processing
        <3>4. Remaining(secrets', payload') \subseteq Remaining(secrets', payload)
            <4>1. payload'.removals = CrossedOff(payload, id).removals
                BY <2>3, <3>1, CountedKeeps
            <4> SUFFICES ASSUME NEW x \in secrets', ~Spares(payload, x)
                         PROVE  ~Spares(payload', x)
                BY DEF Remaining
            <4>2. PICK j \in DOMAIN payload.removals : x.id \in payload.removals[j].left
                BY DEF Spares
            <4>3. x.id # id
                BY <2>3 DEF Live
            <4>4. \E k \in DOMAIN CrossedOff(payload, id).removals :
                        x.id \in CrossedOff(payload, id).removals[k].left
                BY <1>1, <2>1, <4>2, <4>3, CrossedOffKeeps
            <4>5. QED
                BY <4>1, <4>4 DEF Spares
        <3>5. QED
            BY <2>3, <3>2, <3>3, <3>4, ParentFrame
    <2>4. CASE StepError(payload)
        BY <1>1, <2>4, ParentError
    <2>5. QED
        BY <2>2, <2>3, <2>4
<1>8. CASE CallFails
    BY <1>1, <1>8, ParentError DEF CallFails
<1>9. QED
    BY <1>2, <1>3, <1>4, <1>5, <1>6, <1>7, <1>8

LEMMA NextParent ==
    TypeOK /\ TypeOK' /\ Agreed /\ KeepInv /\ QuietInv /\ ParentInv /\ [Next]_vars
        => ParentInv'
<1> SUFFICES ASSUME TypeOK, TypeOK', Agreed, KeepInv, QuietInv, ParentInv, [Next]_vars
             PROVE  ParentInv'
    OBVIOUS
<1>1. ASSUME NEW p \in Paths, ProcessSameVersion(p)
      PROVE  ParentInv'
    BY <1>1, ProcessSameVersionParent
<1>2. CASE CreateMissingSecret \/ CreateUpdatedVersion \/ RestoreParent
    BY <1>2, CreateMissingParent, CreateUpdatedParent, RestoreParentParent
<1>3. CASE FinishProcess \/ FinishApply \/ FinishRemove \/ FinishRestore
    BY <1>3, FinishParent
<1>4. CASE \/ StartSync \/ ListServices \/ ListSecretsOfSwarm \/ LoadExternalState
           \/ \E p \in Paths : GetSecretPayload(p)
           \/ ApplyServiceUpdate \/ RemoveOldVersion \/ PlanCleanup
           \/ Return \/ CallFails \/ Crash
    BY <1>4, PipelineParent
<1>5. CASE Environment \/ UNCHANGED vars
    <2>1. pc' = pc /\ todo' = todo /\ payload' = payload
        BY <1>5 DEF Environment, WriteValue, DeleteValue, OperatorCreates, Deploy,
                    OperatorRemoves, vars, syncVars
    <2>2. budget'.operator = MaxOperator => secrets' \subseteq secrets
        <3>1. ASSUME budget'.operator = MaxOperator, NEW p \in Paths, OperatorCreates(p)
              PROVE  FALSE
            BY <3>1, NoOneCreates
        <3>2. QED
            BY <1>5, <3>1 DEF Environment, WriteValue, DeleteValue, Deploy,
                              OperatorRemoves, RemoveSecret, vars, engineVars
    <2>3. QED
        BY <2>1, <2>2, WithinItself, SameRemaining, ParentFrame
<1>6. QED
    BY <1>1, <1>2, <1>3, <1>4, <1>5 DEF Next, SyncStep

\* Unless an operator has touched a secret, a synchronization that reports
\* success has left the parent of each listed path: step6 restores every parent
\* that step5 takes, and a failure on the way is not reported as success.  The
\* parent is the youngest secret of its path, and carries the listed version if
\* anything is left beside it: step3 plans the removal of all that it has not
\* just created itself.
THEOREM SuccessKeepsParents == Spec => []SuccessLeavesParent
<1> DEFINE Inv == RefsInv /\ KeepInv /\ QuietInv /\ ParentInv
<1>1. Init => Inv
    <2>1. Init => ParentInv
        BY DEF Init, ParentInv, Providing, Updating, Processing, Finishing
    <2>2. QED
        BY <2>1, InitRefsInv, InitKeep, InitQuiet
<1>2. Inv /\ [Next]_vars => Inv'
    BY NextRefsInv, NextKeep, NextQuiet, NextParent DEF RefsInv
<1>3. Inv => SuccessLeavesParent
    <2> SUFFICES ASSUME ParentInv, pc = "done", budget.operator = MaxOperator,
                        NEW p \in Paths, payload.listed[p] # 0
                 PROVE  \E parent \in ParentsOf(p) :
                            /\ \A other \in OfPath(p) : other.id <= parent.id
                            /\ parent.label = payload.listed[p] \/ OfPath(p) = {parent}
        BY DEF SuccessLeavesParent
    <2>1. PICK x \in secrets : Settles(x, secrets, p, payload.listed)
        BY DEF ParentInv, Finishing, Settled
    <2>2. x \in ParentsOf(p) /\ x \in OfPath(p)
        BY <2>1 DEF Settles, ParentsOf, OfPath
    <2>3. \A other \in OfPath(p) : other.id <= x.id
        BY <2>1 DEF Settles, OfPath
    <2>4. x.label = payload.listed[p] \/ OfPath(p) = {x}
        BY <2>1, <2>2 DEF Settles, OfPath
    <2>5. QED
        BY <2>2, <2>3, <2>4
<1>4. QED
    BY <1>1, <1>2, <1>3, PTL DEF Spec

-----------------------------------------------------------------------------
(* Version ids grow with the age of the secrets of a path.                   *)

\* What a secret of a path was labelled with is not newer than what is listed,
\* and that not newer than what the manager shows.
RestoresListed(restores, listed) ==
    \A i \in DOMAIN restores :
        restores[i].label = listed[restores[i].path] /\ restores[i].label # 0

OrderInv ==
    /\ \A p \in Paths : payload.listed[p] <= external[p].ver
    /\ \A x \in secrets :
            /\ x.label <= external[x.path].ver
            /\ payload.listed[x.path] # 0 => x.label <= payload.listed[x.path]
    /\ \A x, y \in secrets :
            x.path = y.path /\ x.id < y.id /\ y.path \notin HandMade
                => x.label <= y.label
    /\ RestoresListed(payload.restores, payload.listed)
    /\ pc \in Ahead => payload.restores = <<>>
    /\ pc \in Processing => \A p \in todo : payload.listed[p] # 0

\* A secret that is added has no label, or the listed one.
LabelledAsListed(x) ==
    /\ x.id = nextId
    /\ \/ x.label = 0 /\ x.path \in HandMade
       \/ x.label # 0 /\ x.label = payload.listed[x.path]

LEMMA OrderFrame ==
    ASSUME TypeOK, TypeOK', OrderInv,
           \A x \in secrets' : x \in secrets \/ LabelledAsListed(x),
           \A p \in Paths : external[p].ver <= external'[p].ver,
           payload'.listed = payload.listed,
           RestoresListed(payload'.restores, payload.listed),
           pc' \in Ahead => payload'.restores = <<>>,
           pc' \in Processing => pc \in Processing /\ todo' \subseteq todo
    PROVE  OrderInv'
<1>1. /\ nextId \in Nat /\ secrets \subseteq Secret /\ secrets' \subseteq Secret
      /\ \A x \in secrets : x.id < nextId
      /\ external \in [Paths -> External] /\ external' \in [Paths -> External]
      /\ payload.listed \in [Paths -> Nat]
    BY DEF TypeOK, EngineTypeOK, Payload, Listing
<1>2. \A x \in secrets' : x.path \in Paths /\ x.label \in Nat /\ x.id \in Nat
    BY <1>1 DEF Secret
<1>3. \A p \in Paths : /\ external[p].ver \in Nat /\ external'[p].ver \in Nat
                       /\ payload.listed[p] \in Nat
    BY <1>1 DEF External
<1>4. \A p \in Paths : payload.listed[p] <= external'[p].ver
    BY <1>3 DEF OrderInv
<1>5. \A x \in secrets' :
            /\ x.label <= external'[x.path].ver
            /\ payload.listed[x.path] # 0 => x.label <= payload.listed[x.path]
    <2> SUFFICES ASSUME NEW x \in secrets'
                 PROVE  /\ x.label <= external'[x.path].ver
                        /\ payload.listed[x.path] # 0 => x.label <= payload.listed[x.path]
        OBVIOUS
    <2>1. CASE x \in secrets
        <3>1. /\ x.label <= external[x.path].ver
              /\ payload.listed[x.path] # 0 => x.label <= payload.listed[x.path]
            BY <2>1 DEF OrderInv
        <3>2. QED
            BY <1>2, <1>3, <3>1
    <2>2. CASE LabelledAsListed(x)
        BY <1>2, <1>3, <1>4, <2>2 DEF LabelledAsListed
    <2>3. QED
        BY <2>1, <2>2
<1>6. \A x, y \in secrets' :
            x.path = y.path /\ x.id < y.id /\ y.path \notin HandMade
                => x.label <= y.label
    <2> SUFFICES ASSUME NEW x \in secrets', NEW y \in secrets', x.path = y.path,
                        x.id < y.id, y.path \notin HandMade
                 PROVE  x.label <= y.label
        OBVIOUS
    <2>1. x \in secrets
        <3>1. y.id <= nextId
            BY <1>1, <1>2 DEF LabelledAsListed
        <3>2. x.id # nextId
            BY <1>1, <1>2, <3>1
        <3>3. QED
            BY <3>2 DEF LabelledAsListed
    <2>2. CASE y \in secrets
        BY <2>1, <2>2 DEF OrderInv
    <2>3. CASE LabelledAsListed(y)
        BY <2>1, <2>3 DEF OrderInv, LabelledAsListed
    <2>4. QED
        BY <2>2, <2>3
<1>7. /\ pc' \in Ahead => payload'.restores = <<>>
      /\ pc' \in Processing => \A p \in todo' : payload'.listed[p] # 0
    BY DEF OrderInv
<1>8. QED
    BY <1>4, <1>5, <1>6, <1>7 DEF OrderInv

LEMMA OrderError ==
    ASSUME TypeOK, TypeOK', OrderInv, NEW pl \in Payload, StepError(pl),
           pl.listed = payload.listed, pl.restores = payload.restores,
           \A x \in secrets' : x \in secrets \/ LabelledAsListed(x),
           external' = external
    PROVE  OrderInv'
<1>1. payload' = pl \/ payload' = [pl EXCEPT !.result = NoResult]
    BY BoundsAssumption DEF StepError, TypeOK, RetriesOf
<1>2. payload'.listed = payload.listed /\ payload'.restores = payload.restores
    BY <1>1 DEF Payload
<1>3. \/ pc' \in {"failed", "done", "relist_services", "apply"}
      \/ pc = "list_external" /\ pc' = "list_external"
    BY BoundsAssumption DEF StepError, TypeOK, RetriesOf, StepStart, Go
<1>4. /\ pc' \in Ahead => payload'.restores = <<>>
      /\ pc' \notin Processing
    BY <1>2, <1>3 DEF OrderInv, Ahead, Processing
<1>5. \A p \in Paths : external[p].ver <= external'[p].ver
    BY DEF TypeOK, External
<1>6. QED
    BY <1>2, <1>4, <1>5, OrderFrame DEF OrderInv

\* Before a list is loaded nothing is listed.
LEMMA OrderForgotten ==
    ASSUME TypeOK, OrderInv, payload' = NewPayload, pc' \notin Processing,
           secrets' = secrets, external' = external
    PROVE  OrderInv'
<1>1. /\ \A p \in Paths : payload'.listed[p] = 0 /\ external[p].ver \in Nat
      /\ payload'.restores = <<>>
    BY DEF NewPayload, TypeOK, External
<1>2. secrets \subseteq Secret
    BY DEF TypeOK, EngineTypeOK
<1>3. \A x \in secrets : x.path \in Paths
    BY <1>2 DEF Secret
<1>4. \A p \in Paths : payload'.listed[p] <= external'[p].ver
    BY <1>1
<1>5. QED
    BY <1>1, <1>3, <1>4 DEF OrderInv, RestoresListed

LEMMA LoadExternalOrder ==
    ASSUME TypeOK, OrderInv, LoadExternalState
    PROVE  OrderInv'
<1>1. /\ payload'.listed = ListExternal /\ payload'.restores = payload.restores
      /\ payload.restores = <<>> /\ pc' = "process"
      /\ todo' = {p \in Paths : ListExternal[p] # 0}
      /\ secrets' = secrets /\ external' = external
    BY DEF LoadExternalState, TypeOK, Payload, Go, OrderInv, Ahead, engineVars
<1>2. \A p \in Paths : /\ external[p].ver \in Nat
                       /\ ListExternal[p] = 0 \/ ListExternal[p] = external[p].ver
    BY DEF ListExternal, TypeOK, External
<1>3. \A x \in secrets : x.path \in Paths
    BY DEF TypeOK, EngineTypeOK, Secret
<1>4. ASSUME NEW p \in Paths
      PROVE  ListExternal[p] <= external[p].ver
    <2>1. \A n \in Nat : 0 <= n /\ n <= n
        OBVIOUS
    <2>2. QED
        BY <1>2, <2>1
<1>5. \A x \in secrets : ListExternal[x.path] # 0 => x.label <= ListExternal[x.path]
    BY <1>2, <1>3 DEF OrderInv
<1>6. QED
    BY <1>1, <1>4, <1>5 DEF OrderInv, RestoresListed, Ahead

\* A step that creates a secret labels it as listed.
LEMMA CreateOrder ==
    ASSUME TypeOK, TypeOK', KeepInv, OrderInv,
           CreateMissingSecret \/ CreateUpdatedVersion
    PROVE  OrderInv'
<1>1. /\ payload \in Payload /\ pc \in {"create_secret", "create_version"}
      /\ nextId \in Nat /\ external' = external
    BY DEF TypeOK, EngineTypeOK, CreateMissingSecret, CreateUpdatedVersion
<1> DEFINE Created(f, secret) ==
            /\ secret \in {ParentSecret(f.path, payload.listed[f.path], f.data),
                           VersionSecret(f.path, payload.listed[f.path], f.data)}
            /\ \/ /\ AddSecret(secret)
                  /\ pc' = "process" /\ todo' = todo \ {f.path}
                  /\ \/ payload' = Counted(payload, "created")
                     \/ payload' \in UpdatePlanned(payload, f.path, f.data)
               \/ StepError(payload) /\ (UNCHANGED engineVars \/ AddSecret(secret))
<1>0. PICK f \in fetched : \E secret : Created(f, secret)
    BY DEF CreateMissingSecret, CreateUpdatedVersion, Go
<1>2. PICK secret : Created(f, secret)
    BY <1>0
<1>3. /\ f.path \in Paths /\ f.data \in Nat /\ f.path \in todo
      /\ payload.listed[f.path] # 0
    BY <1>1 DEF TypeOK, Fetched, KeepInv, OrderInv, Processing
<1>4. LabelledAsListed(secret)
    BY <1>2, <1>3 DEF LabelledAsListed, ParentSecret, VersionSecret
<1>5. AddSecret(secret) \/ UNCHANGED engineVars
        => \A x \in secrets' : x \in secrets \/ LabelledAsListed(x)
    BY <1>4 DEF AddSecret, engineVars
<1>6. \A p \in Paths : external[p].ver <= external'[p].ver
    BY <1>1 DEF TypeOK, External
<1>7. RestoresListed(payload.restores, payload.listed)
    BY DEF OrderInv
<1>8. CASE StepError(payload) /\ (UNCHANGED engineVars \/ AddSecret(secret))
    BY <1>1, <1>5, <1>8, OrderError
<1>9. CASE /\ AddSecret(secret) /\ pc' = "process" /\ todo' = todo \ {f.path}
           /\ \/ payload' = Counted(payload, "created")
              \/ payload' \in UpdatePlanned(payload, f.path, f.data)
    <2>1. payload'.listed = payload.listed /\ RestoresListed(payload'.restores, payload.listed)
        <3>1. CASE payload' = Counted(payload, "created")
            BY <1>1, <1>7, <3>1, CountedKeeps
        <3>2. CASE payload' \in UpdatePlanned(payload, f.path, f.data)
            <4> DEFINE z == [path |-> f.path, label |-> payload.listed[f.path], data |-> f.data]
            <4>1. /\ payload'.listed = payload.listed
                  /\ payload'.restores = Append(payload.restores, z)
                BY <1>3, <3>2, UpdatePlannedKeeps
            <4>2. z \in Restore /\ payload.restores \in Seq(Restore)
                BY <1>1, <1>3 DEF Restore, Payload, Listing
            <4>3. z.path = f.path /\ z.label = payload.listed[f.path]
                OBVIOUS
            <4> HIDE DEF z
            <4>4. /\ Len(payload.restores) \in Nat
                  /\ DOMAIN payload.restores = 1 .. Len(payload.restores)
                  /\ DOMAIN payload'.restores = 1 .. Len(payload.restores) + 1
                  /\ payload'.restores[Len(payload.restores) + 1] = z
                  /\ \A i \in 1 .. Len(payload.restores) :
                        payload'.restores[i] = payload.restores[i]
                BY <4>1, <4>2, AppendProperties
            <4>5. \A i \in 1 .. Len(payload.restores) + 1 :
                        i = Len(payload.restores) + 1 \/ i \in 1 .. Len(payload.restores)
                BY <4>4
            <4>6. QED
                BY <1>3, <1>7, <4>1, <4>3, <4>4, <4>5 DEF RestoresListed
        <3>3. QED
            BY <1>9, <3>1, <3>2
    <2>2. pc' \notin Ahead /\ pc \in Processing
        BY <1>1, <1>9 DEF Ahead, Processing
    <2>3. QED
        BY <1>5, <1>6, <1>9, <2>1, <2>2, OrderFrame
<1>10. QED
    BY <1>2, <1>8, <1>9

LEMMA RestoreOrder ==
    ASSUME TypeOK, TypeOK', OrderInv, RestoreParent
    PROVE  OrderInv'
<1> DEFINE z == Head(payload.restores)
           secret == ParentSecret(z.path, z.label, z.data)
<1>1. /\ payload.restores \in Seq(Restore) /\ payload.restores # <<>>
      /\ payload \in Payload /\ external' = external /\ pc = "restore"
    BY DEF TypeOK, Payload, RestoreParent
<1>2. /\ Len(payload.restores) \in Nat \ {0} /\ z = payload.restores[1]
      /\ DOMAIN payload.restores = 1 .. Len(payload.restores)
      /\ DOMAIN Tail(payload.restores) = 1 .. Len(payload.restores) - 1
      /\ \A i \in 1 .. Len(payload.restores) - 1 :
            Tail(payload.restores)[i] = payload.restores[i + 1]
    BY <1>1, HeadTailProperties, EmptySeq
<1> HIDE DEF z
<1>3. RestoresListed(payload.restores, payload.listed)
    BY DEF OrderInv
<1>4. z.label = payload.listed[z.path] /\ z.label # 0
    BY <1>2, <1>3 DEF RestoresListed
<1>5. LabelledAsListed(secret)
    BY <1>4 DEF LabelledAsListed, ParentSecret
<1> HIDE DEF secret
<1>6. RestoresListed(Tail(payload.restores), payload.listed)
    <2>1. \A i \in 1 .. Len(payload.restores) - 1 : i + 1 \in DOMAIN payload.restores
        BY <1>2
    <2>2. QED
        BY <1>2, <1>3, <2>1 DEF RestoresListed
<1>7. \A p \in Paths : external[p].ver <= external'[p].ver
    BY <1>1 DEF TypeOK, External
<1>8. AddSecret(secret) \/ UNCHANGED engineVars
        => \A x \in secrets' : x \in secrets \/ LabelledAsListed(x)
    BY <1>5 DEF AddSecret, engineVars
<1>9. CASE AddSecret(secret) /\ payload' = [payload EXCEPT !.restores = Tail(@)] /\ pc' = pc
    <2>1. payload'.restores = Tail(payload.restores) /\ payload'.listed = payload.listed
        BY <1>1, <1>9 DEF Payload
    <2>2. pc' \notin Ahead /\ pc' \notin Processing
        BY <1>1, <1>9 DEF Ahead, Processing
    <2>3. QED
        BY <1>6, <1>7, <1>8, <1>9, <2>1, <2>2, OrderFrame
<1>10. CASE StepError(payload) /\ (UNCHANGED engineVars \/ AddSecret(secret))
    BY <1>1, <1>8, <1>10, OrderError
<1>11. QED
    BY <1>9, <1>10 DEF RestoreParent, secret, z

\* The rest of the pipeline creates no secret and queues no restore.
LEMMA PipelineOrder ==
    ASSUME TypeOK, TypeOK', OrderInv,
           \/ StartSync \/ ListServices \/ ListSecretsOfSwarm
           \/ \E p \in Paths : ProcessSameVersion(p) \/ GetSecretPayload(p)
           \/ FinishProcess \/ ApplyServiceUpdate \/ FinishApply
           \/ RemoveOldVersion \/ FinishRemove \/ FinishRestore
           \/ PlanCleanup \/ Return \/ CallFails \/ Crash
    PROVE  OrderInv'
<1>1. payload \in Payload /\ \A p \in Paths : external[p].ver <= external[p].ver
    BY DEF TypeOK, External
<1>2. CASE StartSync \/ Return \/ Crash
    <2>1. /\ payload' = NewPayload /\ secrets' = secrets /\ external' = external
          /\ pc' \notin Processing
        BY <1>2 DEF StartSync, Return, Crash, Forget, Go, engineVars, Processing
    <2>2. QED
        BY <2>1, OrderForgotten
<1>3. ASSUME secrets' \subseteq secrets, external' = external,
             payload'.listed = payload.listed, payload'.restores = payload.restores,
             pc' \in Ahead => pc \in Ahead,
             pc' \in Processing => pc \in Processing /\ todo' \subseteq todo
      PROVE  OrderInv'
    BY <1>1, <1>3, OrderFrame DEF OrderInv
<1>4. ASSUME secrets' \subseteq secrets, external' = external, NEW pl \in Payload,
             StepError(pl), pl.listed = payload.listed, pl.restores = payload.restores
      PROVE  OrderInv'
    BY <1>4, OrderError
<1>5. CASE ListServices \/ ListSecretsOfSwarm \/ PlanCleanup
    <2>1. /\ payload'.listed = payload.listed /\ payload'.restores = payload.restores
          /\ secrets' = secrets /\ external' = external
        BY <1>1, <1>5
            DEF ListServices, ListSecretsOfSwarm, PlanCleanup, Payload, engineVars
    <2>2. (pc' \in Ahead => pc \in Ahead) /\ pc' \notin Processing
        BY <1>5 DEF ListServices, ListSecretsOfSwarm, PlanCleanup, Go, Ahead, Processing
    <2>3. QED
        BY <1>3, <2>1, <2>2
<1>6. ASSUME NEW p \in Paths, ProcessSameVersion(p)
      PROVE  OrderInv'
    <2>1. /\ payload'.listed = payload.listed /\ payload'.restores = payload.restores
          /\ secrets' = secrets /\ external' = external /\ pc' = pc
          /\ todo' = todo \ {p}
        BY <1>6, ProcessSameVersionKeeps DEF ProcessSameVersion, engineVars
    <2>2. QED
        BY <1>3, <2>1
<1>7. ASSUME NEW p \in Paths, GetSecretPayload(p)
      PROVE  OrderInv'
    <2>1. secrets' = secrets /\ external' = external /\ pc = "process"
        BY <1>7 DEF GetSecretPayload, engineVars
    <2>2. CASE pc' \in {"create_secret", "create_version"} /\ payload' = payload /\ todo' = todo
        BY <1>3, <2>1, <2>2 DEF Ahead, Processing
    <2>3. CASE StepError(payload)
        BY <1>1, <1>4, <2>1, <2>3
    <2>4. QED
        BY <1>7, <2>2, <2>3 DEF GetSecretPayload, Go
<1>8. CASE FinishProcess \/ FinishApply \/ FinishRemove \/ FinishRestore
    <2>1. payload' = payload /\ secrets' = secrets /\ external' = external
        BY <1>8 DEF FinishProcess, FinishApply, FinishRemove, FinishRestore, engineVars
    <2>2. pc' \notin Ahead /\ pc' \notin Processing
        BY <1>8 DEF FinishProcess, FinishApply, FinishRemove, FinishRestore, Go,
                    AfterProcess, AfterApply, AfterRemove, AfterRestore, Ahead, Processing
    <2>3. QED
        BY <1>3, <2>1, <2>2
<1>9. CASE ApplyServiceUpdate
    <2>1. secrets' = secrets /\ external' = external /\ pc = "apply"
        BY <1>9, ApplyKeeps DEF ApplyServiceUpdate
    <2>2. QED
        BY <1>3, <1>4, <1>9, <2>1, ApplyKeeps DEF Ahead, Processing
<1>10. CASE RemoveOldVersion
    <2>1. secrets' \subseteq secrets /\ external' = external /\ pc \in {"remove", "cleanup"}
        BY <1>10, RemoveKeeps DEF RemoveOldVersion
    <2>2. QED
        BY <1>1, <1>3, <1>4, <1>10, <2>1, RemoveKeeps DEF Ahead, Processing
<1>11. CASE CallFails
    BY <1>1, <1>4, <1>11 DEF CallFails, engineVars
<1>12. QED
    BY <1>2, <1>5, <1>6, <1>7, <1>8, <1>9, <1>10, <1>11

\* A write counts up.
LEMMA EnvironmentCountsUp ==
    ASSUME TypeOK, ~VersionsRestart, Environment \/ UNCHANGED vars, NEW p \in Paths
    PROVE  external[p].ver <= external'[p].ver
<1>1. external \in [Paths -> External] /\ \A q \in Paths : external[q].ver \in Nat
    BY DEF TypeOK, External
<1>2. ASSUME NEW q \in Paths, WriteValue(q)
      PROVE  external'[p].ver \in {external[p].ver, external[p].ver + 1}
    BY <1>1, <1>2 DEF WriteValue
<1>3. ASSUME NEW q \in Paths, DeleteValue(q)
      PROVE  external'[p].ver = external[p].ver
    BY <1>1, <1>3 DEF DeleteValue, External
<1>4. external' = external \/ \E q \in Paths : WriteValue(q) \/ DeleteValue(q)
    BY DEF Environment, OperatorCreates, Deploy, OperatorRemoves, vars
<1>5. QED
    BY <1>1, <1>2, <1>3, <1>4

\* An operator's secret has no version id.
LEMMA EnvironmentOrder ==
    ASSUME TypeOK, TypeOK', ~VersionsRestart, OrderInv, Environment \/ UNCHANGED vars
    PROVE  OrderInv'
<1>1. pc' = pc /\ payload' = payload /\ todo' = todo
    BY DEF Environment, WriteValue, DeleteValue, OperatorCreates, Deploy,
           OperatorRemoves, vars, syncVars
<1>2. \A p \in Paths : external[p].ver <= external'[p].ver
    BY EnvironmentCountsUp
<1>3. \A x \in secrets' : x \in secrets \/ LabelledAsListed(x)
    <2>1. ASSUME NEW p \in Paths, OperatorCreates(p)
          PROVE  \A x \in secrets' : x \in secrets \/ LabelledAsListed(x)
        BY <2>1 DEF OperatorCreates, AddSecret, ParentSecret, LabelledAsListed
    <2>2. \/ \E p \in Paths : OperatorCreates(p)
          \/ secrets' \subseteq secrets
        BY DEF Environment, WriteValue, DeleteValue, Deploy, OperatorRemoves, RemoveSecret,
               vars, engineVars
    <2>3. QED
        BY <2>1, <2>2
<1>4. QED
    BY <1>1, <1>2, <1>3, OrderFrame DEF OrderInv

LEMMA InitOrder == Init => OrderInv
<1> SUFFICES ASSUME Init
             PROVE  OrderInv
    OBVIOUS
<1>1. /\ \A p \in Paths : payload.listed[p] = 0 /\ external[p].ver \in Nat
      /\ payload.restores = <<>> /\ secrets = {} /\ pc = "idle"
    BY DEF Init, NewPayload
<1>2. \A n \in Nat : 0 <= n
    OBVIOUS
<1>3. \A p \in Paths : payload.listed[p] <= external[p].ver
    BY <1>1, <1>2
<1>4. QED
    BY <1>1, <1>3 DEF OrderInv, RestoresListed, Ahead, Processing

LEMMA NextOrder ==
    TypeOK /\ TypeOK' /\ KeepInv /\ ~VersionsRestart /\ OrderInv /\ [Next]_vars => OrderInv'
<1> SUFFICES ASSUME TypeOK, TypeOK', KeepInv, ~VersionsRestart, OrderInv, [Next]_vars
             PROVE  OrderInv'
    OBVIOUS
<1>1. CASE LoadExternalState
    BY <1>1, LoadExternalOrder
<1>2. CASE CreateMissingSecret \/ CreateUpdatedVersion
    BY <1>2, CreateOrder
<1>3. CASE RestoreParent
    BY <1>3, RestoreOrder
<1>4. CASE \/ StartSync \/ ListServices \/ ListSecretsOfSwarm
           \/ \E p \in Paths : ProcessSameVersion(p) \/ GetSecretPayload(p)
           \/ FinishProcess \/ ApplyServiceUpdate \/ FinishApply
           \/ RemoveOldVersion \/ FinishRemove \/ FinishRestore
           \/ PlanCleanup \/ Return \/ CallFails \/ Crash
    BY <1>4, PipelineOrder
<1>5. CASE Environment \/ UNCHANGED vars
    BY <1>5, EnvironmentOrder
<1>6. QED
    BY <1>1, <1>2, <1>3, <1>4, <1>5 DEF Next, SyncStep

\* Where the manager's version numbers never start again, of two secrets of a
\* path the younger one has the newer value, or both have the same: LatestVersion
\* finds the newest value by the time of creation.  Paths whose secrets an operator
\* may create by hand, without a version id, are left out.
THEOREM LabelsStayInOrder == Spec => []LabelsInOrder
<1> DEFINE Inv == RefsInv /\ KeepInv /\ (~VersionsRestart => OrderInv)
<1>1. Init => Inv
    BY InitRefsInv, InitKeep, InitOrder
<1>2. Inv /\ [Next]_vars => Inv'
    BY NextRefsInv, NextKeep, NextOrder DEF RefsInv
<1>3. Inv => LabelsInOrder
    BY DEF OrderInv, LabelsInOrder
<1>4. QED
    BY <1>1, <1>2, <1>3, PTL DEF Spec

-----------------------------------------------------------------------------
(* The names that a synchronization creates are free.                        *)

\* What was mapped for a path has all of its secrets, or it has no parent.
Known(ss, entry, p) ==
    \A x \in ss : x.path = p =>
        /\ entry.id = 0 => ~x.parent
        /\ entry.id # 0 => x.id \in entry.versions /\ x.label <= entry.latest

\* The call that creates is the one that the map asks for.
MapAsks(call, pl, fs) ==
    /\ call = "create_secret" => \A f \in fs : pl.map[f.path].id = 0
    /\ call = "create_version" => \A f \in fs :
            /\ pl.map[f.path].id # 0
            /\ pl.map[f.path].latest # pl.listed[f.path]

KnownInv ==
    /\ \A x \in secrets : x.parent \/ x.label # 0
    /\ \A p \in Paths : payload.map[p].latest <= external[p].ver
    /\ pc \in Processing => \A p \in todo : payload.map[p].latest <= payload.listed[p]
    /\ \A p \in Visited(pc, todo) \ HandMade : Known(secrets, payload.map[p], p)
    /\ MapAsks(pc, payload, fetched)

LEMMA KnownFrame ==
    ASSUME TypeOK, TypeOK', KnownInv,
           \A x \in secrets' : \/ x \in secrets
                               \/ /\ x.parent \/ x.label # 0
                                  /\ x.path \in HandMade \/ x.path \notin Visited(pc', todo'),
           \A p \in Paths : external[p].ver <= external'[p].ver,
           SameEntries(payload'.map, payload.map),
           payload'.listed = payload.listed,
           pc' = "list_external" => pc = "list_external",
           pc' \in Processing => pc \in Processing /\ todo' \subseteq todo,
           MapAsks(pc', payload, fetched')
    PROVE  KnownInv'
<1>1. /\ external \in [Paths -> External] /\ external' \in [Paths -> External]
      /\ payload.map \in [Paths -> ExistingSecret] /\ todo' \subseteq Paths
      /\ fetched' \subseteq Fetched
    BY DEF TypeOK, Payload
<1>2. \A p \in Paths : /\ external[p].ver \in Nat /\ external'[p].ver \in Nat
                       /\ payload.map[p].latest \in Nat
    BY <1>1 DEF External, ExistingSecret
<1>3. \A p \in Paths : payload'.map[p].latest <= external'[p].ver
    BY <1>2 DEF KnownInv, SameEntries
<1>4. pc' \in Processing => \A p \in todo' : payload'.map[p].latest <= payload'.listed[p]
    BY <1>1 DEF KnownInv, SameEntries
<1>5. ASSUME NEW p \in Visited(pc', todo'), p \notin HandMade
      PROVE  Known(secrets', payload'.map[p], p)
    <2>1. p \in Visited(pc, todo) /\ p \in Paths
        BY <1>1, <1>5 DEF Visited, Processing
    <2>2. Known(secrets, payload.map[p], p)
        BY <1>5, <2>1 DEF KnownInv
    <2>3. \A x \in secrets' : x.path = p => x \in secrets
        BY <1>5
    <2>4. QED
        BY <2>1, <2>2, <2>3 DEF Known, SameEntries
<1>6. MapAsks(pc', payload', fetched')
    <2>1. \A f \in fetched' : f.path \in Paths
        BY <1>1 DEF Fetched
    <2>2. QED
        BY <2>1 DEF MapAsks, SameEntries
<1>7. QED
    BY <1>3, <1>4, <1>5, <1>6 DEF KnownInv

\* Where nothing is processed there is less to show.
LEMMA KnownElsewhere ==
    ASSUME TypeOK, TypeOK', KnownInv,
           \A x \in secrets' : x \in secrets \/ x.parent \/ x.label # 0,
           external' = external, SameEntries(payload'.map, payload.map),
           payload'.listed = payload.listed,
           pc' \notin Processing, pc' # "list_external"
    PROVE  KnownInv'
<1>1. \A p \in Paths : external[p].ver <= external'[p].ver
    BY DEF TypeOK, External
<1>2. Visited(pc', todo') = {} /\ MapAsks(pc', payload, fetched')
    BY DEF Visited, MapAsks, Processing
<1>3. QED
    BY <1>1, <1>2, KnownFrame

LEMMA KnownError ==
    ASSUME TypeOK, TypeOK', KnownInv, NEW pl \in Payload, StepError(pl),
           pl.listed = payload.listed, pl.map = payload.map,
           \A x \in secrets' : x \in secrets \/ x.parent \/ x.label # 0,
           pc = "list_external" => secrets' \subseteq secrets,
           external' = external
    PROVE  KnownInv'
<1>1. payload' = pl \/ payload' = [pl EXCEPT !.result = NoResult]
    BY BoundsAssumption DEF StepError, TypeOK, RetriesOf
<1>2. payload'.listed = payload.listed /\ payload'.map = payload.map
    BY <1>1 DEF Payload
<1>3. \/ pc' \in {"failed", "done", "relist_services", "apply"}
      \/ pc = "list_external" /\ pc' = "list_external"
    BY BoundsAssumption DEF StepError, TypeOK, RetriesOf, StepStart, Go
<1>4. SameEntries(payload'.map, payload.map)
    BY <1>2 DEF SameEntries
<1>5. CASE pc = "list_external" /\ pc' = "list_external"
    <2>1. \A p \in Paths : external[p].ver <= external'[p].ver
        BY DEF TypeOK, External
    <2>2. MapAsks(pc', payload, fetched') /\ pc' \notin Processing
        BY <1>5 DEF MapAsks, Processing
    <2>3. QED
        BY <1>2, <1>4, <1>5, <2>1, <2>2, KnownFrame
<1>6. CASE pc' \in {"failed", "done", "relist_services", "apply"}
    <2>1. pc' \notin Processing /\ pc' # "list_external"
        BY <1>6 DEF Processing
    <2>2. QED
        BY <1>2, <1>4, <2>1, KnownElsewhere
<1>7. QED
    BY <1>3, <1>5, <1>6

LEMMA KnownForgotten ==
    ASSUME TypeOK, KnownInv, payload' = NewPayload, pc' \in {"idle", "list_services"},
           secrets' = secrets, external' = external
    PROVE  KnownInv'
<1>1. \A p \in Paths : payload'.map[p].latest = 0 /\ external[p].ver \in Nat
    BY DEF NewPayload, Unmapped, TypeOK, External
<1>2. \A n \in Nat : 0 <= n
    OBVIOUS
<1>3. \A p \in Paths : payload'.map[p].latest <= external'[p].ver
    BY <1>1, <1>2
<1>4. pc' \notin Processing /\ Visited(pc', todo') = {} /\ MapAsks(pc', payload', fetched')
    BY DEF Visited, MapAsks, Processing
<1>5. QED
    BY <1>3, <1>4 DEF KnownInv

\* The map has every secret of a path with a parent, and the latest label.
LEMMA MapKnows ==
    ASSUME TypeOK, Agreed, OrderInv, NEW p \in Paths
    PROVE  /\ MapSecrets[p].latest <= external[p].ver
           /\ p \notin HandMade => Known(secrets, MapSecrets[p], p)
<1>1. secrets \subseteq Secret /\ external[p].ver \in Nat
    BY DEF TypeOK, EngineTypeOK, External
<1>2. CASE ParentsOf(p) = {}
    <2>1. MapSecrets[p].id = 0 /\ MapSecrets[p].latest = 0
        BY <1>2 DEF MapSecrets, Unmapped
    <2>2. \A x \in secrets : x.path = p => ~x.parent
        BY <1>2 DEF ParentsOf, OfPath
    <2>3. \A n \in Nat : 0 <= n
        OBVIOUS
    <2>4. MapSecrets[p].latest <= external[p].ver
        BY <1>1, <2>1, <2>3
    <2>5. QED
        BY <2>1, <2>2, <2>4 DEF Known
<1>3. CASE ParentsOf(p) # {}
    <2>1. /\ MapSecrets[p].id = (CHOOSE secret \in ParentsOf(p) : TRUE).id
          /\ MapSecrets[p].versions = {secret.id : secret \in OfPath(p)}
          /\ MapSecrets[p].latest = Latest(p).label
        BY <1>3 DEF MapSecrets
    <2>2. (CHOOSE secret \in ParentsOf(p) : TRUE) \in ParentsOf(p)
        BY <1>3
    <2>3. MapSecrets[p].id # 0 /\ OfPath(p) # {}
        BY <1>1, <2>1, <2>2 DEF ParentsOf, OfPath, Secret
    <2>4. /\ Latest(p) \in secrets /\ Latest(p).path = p
          /\ \A x \in secrets : x.path = p => x.id <= Latest(p).id
        BY <2>3, LatestExists DEF OfPath
    <2>5. MapSecrets[p].latest <= external[p].ver
        BY <2>1, <2>4 DEF OrderInv
    <2>6. ASSUME NEW x \in secrets, x.path = p, p \notin HandMade
          PROVE  x.id \in MapSecrets[p].versions /\ x.label <= MapSecrets[p].latest
        <3>1. x.id \in MapSecrets[p].versions
            BY <2>1, <2>6 DEF OfPath
        <3>2. x.id \in Nat /\ Latest(p).id \in Nat /\ x.label \in Nat
            BY <1>1, <2>4 DEF Secret
        <3>3. CASE x.id = Latest(p).id
            <4>1. x = Latest(p)
                BY <2>4, <3>3, AgreedFacts
            <4>2. x.label <= x.label
                BY <3>2
            <4>3. QED
                BY <2>1, <3>1, <4>1, <4>2
        <3>4. CASE x.id # Latest(p).id
            <4>1. x.id < Latest(p).id
                BY <2>4, <2>6, <3>2, <3>4
            <4>2. x.label <= Latest(p).label
                BY <2>4, <2>6, <4>1 DEF OrderInv
            <4>3. QED
                BY <2>1, <3>1, <4>2
        <3>5. QED
            BY <3>3, <3>4
    <2>7. QED
        BY <2>3, <2>5, <2>6 DEF Known
<1>4. QED
    BY <1>2, <1>3

LEMMA ListSecretsKnown ==
    ASSUME TypeOK, Agreed, OrderInv, KnownInv, ListSecretsOfSwarm
    PROVE  KnownInv'
<1>1. /\ payload'.map = MapSecrets /\ secrets' = secrets /\ external' = external
      /\ pc' \in {"list_external", "plan_cleanup"}
    BY DEF ListSecretsOfSwarm, TypeOK, Payload, Go, engineVars
<1>2. /\ pc' \notin Processing /\ MapAsks(pc', payload', fetched')
      /\ Visited(pc', todo') \subseteq Paths
    BY <1>1 DEF Visited, MapAsks, Processing
<1>3. QED
    BY <1>1, <1>2, MapKnows DEF KnownInv

LEMMA LoadExternalKnown ==
    ASSUME TypeOK, KnownInv, LoadExternalState
    PROVE  KnownInv'
<1>1. /\ payload'.listed = ListExternal /\ payload'.map = payload.map
      /\ pc = "list_external" /\ pc' = "process"
      /\ todo' = {p \in Paths : ListExternal[p] # 0}
      /\ secrets' = secrets /\ external' = external
    BY DEF LoadExternalState, TypeOK, Payload, Go, engineVars
<1>2. \A p \in todo' : payload'.map[p].latest <= payload'.listed[p]
    BY <1>1 DEF ListExternal, KnownInv
<1>3. Visited(pc', todo') \subseteq Visited(pc, todo) /\ MapAsks(pc', payload', fetched')
    BY <1>1 DEF Visited, MapAsks, Processing
<1>4. QED
    BY <1>1, <1>2, <1>3 DEF KnownInv

\* A path whose secret is created is not visited again.
LEMMA CreateKnown ==
    ASSUME TypeOK, TypeOK', KeepInv, OrderInv, KnownInv,
           CreateMissingSecret \/ CreateUpdatedVersion
    PROVE  KnownInv'
<1>1. /\ payload \in Payload /\ pc \in {"create_secret", "create_version"}
      /\ external' = external
    BY DEF TypeOK, CreateMissingSecret, CreateUpdatedVersion
<1> DEFINE Created(f, secret) ==
            /\ secret \in {ParentSecret(f.path, payload.listed[f.path], f.data),
                           VersionSecret(f.path, payload.listed[f.path], f.data)}
            /\ \/ /\ AddSecret(secret)
                  /\ pc' = "process" /\ todo' = todo \ {f.path}
                  /\ \/ payload' = Counted(payload, "created")
                     \/ payload' \in UpdatePlanned(payload, f.path, f.data)
               \/ StepError(payload) /\ (UNCHANGED engineVars \/ AddSecret(secret))
<1>0. PICK f \in fetched : \E secret : Created(f, secret)
    BY DEF CreateMissingSecret, CreateUpdatedVersion, Go
<1>2. PICK secret : Created(f, secret)
    BY <1>0
<1>3. /\ f.path \in Paths /\ f.data \in Nat /\ f.path \in todo
      /\ payload.listed[f.path] # 0
    BY <1>1 DEF TypeOK, Fetched, KeepInv, OrderInv, Processing
<1>4. secret.path = f.path /\ (secret.parent \/ secret.label # 0)
    BY <1>2, <1>3 DEF ParentSecret, VersionSecret
<1>5. AddSecret(secret) \/ UNCHANGED engineVars
        => \A x \in secrets' : x \in secrets \/ x = secret
    BY DEF AddSecret, engineVars
<1>6. CASE StepError(payload) /\ (UNCHANGED engineVars \/ AddSecret(secret))
    BY <1>1, <1>4, <1>5, <1>6, KnownError
<1>7. CASE /\ AddSecret(secret) /\ pc' = "process" /\ todo' = todo \ {f.path}
           /\ \/ payload' = Counted(payload, "created")
              \/ payload' \in UpdatePlanned(payload, f.path, f.data)
    <2>1. payload'.listed = payload.listed /\ SameEntries(payload'.map, payload.map)
        <3>1. CASE payload' = Counted(payload, "created")
            BY <1>1, <3>1, CountedKeeps DEF SameEntries
        <3>2. CASE payload' \in UpdatePlanned(payload, f.path, f.data)
            <4>1. /\ payload'.listed = payload.listed
                  /\ payload'.map = [payload.map EXCEPT ![f.path].managed = TRUE]
                BY <1>3, <3>2, UpdatePlannedKeeps, ZenonT(60)
            <4>2. payload.map \in [Paths -> ExistingSecret]
                BY <1>1 DEF Payload
            <4>3. QED
                BY <1>3, <4>1, <4>2, ManagedKeepsEntries
        <3>3. QED
            BY <1>7, <3>1, <3>2
    <2>2. /\ pc \in Processing /\ pc' # "list_external"
          /\ f.path \notin Visited(pc', todo') /\ MapAsks(pc', payload, fetched')
        BY <1>1, <1>7 DEF Visited, MapAsks, Processing
    <2>3. \A p \in Paths : external[p].ver <= external'[p].ver
        BY <1>1 DEF TypeOK, External
    <2>4. QED
        BY <1>4, <1>5, <1>7, <2>1, <2>2, <2>3, KnownFrame
<1>8. QED
    BY <1>2, <1>6, <1>7

\* The rest of the pipeline leaves the map, and creates parents only.
LEMMA PipelineKnown ==
    ASSUME TypeOK, TypeOK', KnownInv,
           \/ StartSync \/ ListServices
           \/ \E p \in Paths : ProcessSameVersion(p) \/ GetSecretPayload(p)
           \/ FinishProcess \/ ApplyServiceUpdate \/ FinishApply
           \/ RemoveOldVersion \/ FinishRemove \/ RestoreParent \/ FinishRestore
           \/ PlanCleanup \/ Return \/ CallFails \/ Crash
    PROVE  KnownInv'
<1>1. /\ payload \in Payload /\ \A p \in Paths : external[p].ver <= external[p].ver
      /\ SameEntries(payload.map, payload.map)
    BY DEF TypeOK, External, SameEntries
<1>2. CASE StartSync \/ Return \/ Crash
    <2>1. /\ payload' = NewPayload /\ secrets' = secrets /\ external' = external
          /\ pc' \in {"idle", "list_services"}
        BY <1>2 DEF StartSync, Return, Crash, Forget, Go, engineVars
    <2>2. QED
        BY <2>1, KnownForgotten
<1>3. CASE \/ ListServices \/ FinishProcess \/ FinishApply \/ FinishRemove
           \/ FinishRestore \/ PlanCleanup
    <2>1. /\ payload'.listed = payload.listed /\ payload'.map = payload.map
          /\ secrets' = secrets /\ external' = external
        BY <1>1, <1>3 DEF ListServices, FinishProcess, FinishApply, FinishRemove,
                          FinishRestore, PlanCleanup, Payload, engineVars
    <2>2. pc' \notin Processing /\ pc' # "list_external"
        BY <1>3 DEF ListServices, FinishProcess, FinishApply, FinishRemove, FinishRestore,
                    PlanCleanup, Go, AfterProcess, AfterApply, AfterRemove, AfterRestore,
                    Processing
    <2>3. QED
        BY <1>1, <2>1, <2>2, KnownElsewhere
<1>4. ASSUME NEW p \in Paths, ProcessSameVersion(p)
      PROVE  KnownInv'
    <2>0. payload'.listed = payload.listed /\ payload'.map = payload.map
        BY <1>4, ProcessSameVersionKeeps, ProcessSameVersionPlans
    <2>1. /\ payload'.listed = payload.listed /\ payload'.map = payload.map
          /\ secrets' = secrets /\ external' = external /\ pc' = pc /\ pc = "process"
          /\ todo' = todo \ {p}
        BY <1>4, <2>0 DEF ProcessSameVersion, engineVars
    <2>2. MapAsks(pc', payload, fetched') /\ pc \in Processing /\ todo' \subseteq todo
        BY <2>1 DEF MapAsks, Processing
    <2>3. QED
        BY <1>1, <2>1, <2>2, KnownFrame
<1>5. ASSUME NEW p \in Paths, GetSecretPayload(p)
      PROVE  KnownInv'
    <2>1. secrets' = secrets /\ external' = external /\ pc = "process"
        BY <1>5 DEF GetSecretPayload, engineVars
    <2>2. CASE /\ pc' = IF IsMissing(p) THEN "create_secret" ELSE "create_version"
               /\ fetched' = {[path |-> p, data |-> external[p].val]}
               /\ payload' = payload /\ todo' = todo
        <3>1. NeedsPayload(p)
            BY <1>5 DEF GetSecretPayload
        <3>2. MapAsks(pc', payload, fetched') /\ pc \in Processing /\ pc' # "list_external"
            BY <2>1, <2>2, <3>1 DEF MapAsks, Processing, NeedsPayload, SameVersion, IsMissing
        <3>3. QED
            BY <1>1, <2>1, <2>2, <3>2, KnownFrame
    <2>3. CASE StepError(payload)
        BY <1>1, <2>1, <2>3, KnownError
    <2>4. QED
        BY <1>5, <2>2, <2>3 DEF GetSecretPayload, Go
<1>6. CASE ApplyServiceUpdate
    <2>1. secrets' = secrets /\ external' = external /\ pc = "apply"
        BY <1>6, ApplyKeeps DEF ApplyServiceUpdate
    <2>2. CASE payload'.listed = payload.listed /\ payload'.map = payload.map /\ pc' = pc
        BY <1>1, <2>1, <2>2, KnownElsewhere DEF Processing
    <2>3. ASSUME NEW pl \in Payload, StepError(pl), pl.listed = payload.listed,
                 pl.map = payload.map
          PROVE  KnownInv'
        BY <2>1, <2>3, KnownError
    <2>4. QED
        BY <1>6, <2>2, <2>3, ApplyKeeps
<1>7. CASE RemoveOldVersion
    <2>1. /\ secrets' \subseteq secrets /\ external' = external
          /\ pc \in {"remove", "cleanup"} /\ payload.removals # <<>>
        BY <1>7, RemoveKeeps DEF RemoveOldVersion
    <2>2. PICK id :
            \/ /\ pc' = pc
               /\ \/ \E counter : payload' = Counted(CrossedOff(payload, id), counter)
                  \/ payload' = CrossedOff(payload, id)
            \/ StepError(payload)
        BY <1>7 DEF RemoveOldVersion
    <2>3. CASE /\ pc' = pc
               /\ \/ \E counter : payload' = Counted(CrossedOff(payload, id), counter)
                  \/ payload' = CrossedOff(payload, id)
        <3>1. CrossedOff(payload, id) \in Payload
            BY <1>1, <2>1, CrossedOffType
        <3>2. payload'.map = payload.map /\ payload'.listed = payload.listed
            BY <1>1, <2>1, <2>3, <3>1, CrossedOffWithin, CountedKeeps
        <3>3. QED
            BY <1>1, <2>1, <2>3, <3>2, KnownElsewhere DEF Processing
    <2>4. CASE StepError(payload)
        BY <1>1, <2>1, <2>4, KnownError
    <2>5. QED
        BY <2>2, <2>3, <2>4
<1>8. CASE RestoreParent
    <2>1. /\ external' = external /\ pc = "restore"
          /\ \A x \in secrets' : x \in secrets \/ x.parent
        BY <1>8 DEF RestoreParent, AddSecret, ParentSecret, engineVars
    <2>2. CASE payload' = [payload EXCEPT !.restores = Tail(@)] /\ pc' = pc
        <3>1. payload'.listed = payload.listed /\ payload'.map = payload.map
            BY <1>1, <2>2 DEF Payload
        <3>2. QED
            BY <1>1, <2>1, <2>2, <3>1, KnownElsewhere DEF Processing
    <2>3. CASE StepError(payload)
        BY <1>1, <2>1, <2>3, KnownError
    <2>4. QED
        BY <1>8, <2>2, <2>3 DEF RestoreParent
<1>9. CASE CallFails
    BY <1>1, <1>9, KnownError DEF CallFails, engineVars
<1>10. QED
    BY <1>2, <1>3, <1>4, <1>5, <1>6, <1>7, <1>8, <1>9

\* An operator creates parents by hand, of paths that nothing is said of.
LEMMA EnvironmentKnown ==
    ASSUME TypeOK, TypeOK', ~VersionsRestart, KnownInv, Environment \/ UNCHANGED vars
    PROVE  KnownInv'
<1>1. pc' = pc /\ payload' = payload /\ todo' = todo /\ fetched' = fetched
    BY DEF Environment, WriteValue, DeleteValue, OperatorCreates, Deploy,
           OperatorRemoves, vars, syncVars
<1>2. \A p \in Paths : external[p].ver <= external'[p].ver
    BY EnvironmentCountsUp
<1>3. \A x \in secrets' : x \in secrets \/ (x.parent /\ x.path \in HandMade)
    <2>1. \/ \E p \in Paths : OperatorCreates(p)
          \/ secrets' \subseteq secrets
        BY DEF Environment, WriteValue, DeleteValue, Deploy, OperatorRemoves, RemoveSecret,
               vars, engineVars
    <2>2. QED
        BY <2>1 DEF OperatorCreates, AddSecret, ParentSecret
<1>4. SameEntries(payload'.map, payload.map) /\ MapAsks(pc', payload, fetched')
    BY <1>1 DEF SameEntries, KnownInv
<1>5. QED
    BY <1>1, <1>2, <1>3, <1>4, KnownFrame

\* Each parent that is to be restored is to be taken before.
TakenFirst(ss, pl) ==
    \A i \in DOMAIN pl.restores : \A x \in ss :
        x.path = pl.restores[i].path /\ x.parent /\ x.path \notin HandMade
            => \E j \in DOMAIN pl.removals : x.id \in pl.removals[j].left

\* At most one restore for a path, and none while the path is to be processed.
RestoredOnce(restores) ==
    \A i, j \in DOMAIN restores : restores[i].path = restores[j].path => i = j

NoRestoreOf(restores, paths) ==
    \A i \in DOMAIN restores : restores[i].path \notin paths

TakenInv ==
    /\ RestoredOnce(payload.restores)
    /\ pc \in Processing => NoRestoreOf(payload.restores, todo)
    /\ pc \in Providing => TakenFirst(secrets, payload)
    /\ pc = "restore" => payload.removals = <<>>

LEMMA TakenFrame ==
    ASSUME TakenInv,
           payload'.restores = payload.restores,
           pc' \in Processing => pc \in Processing /\ todo' \subseteq todo,
           pc' \in Providing =>
                /\ pc \in Providing
                /\ \A x \in secrets' : \/ x \in secrets
                                       \/ ~x.parent \/ x.path \in HandMade
                                       \/ NoRestoreOf(payload.restores, {x.path})
                /\ \A x \in secrets' : \A i \in DOMAIN payload.removals :
                        x.id \in payload.removals[i].left =>
                            \E j \in DOMAIN payload'.removals :
                                x.id \in payload'.removals[j].left,
           pc' = "restore" => payload'.removals = <<>>
    PROVE  TakenInv'
<1>1. RestoredOnce(payload'.restores)
    BY DEF TakenInv
<1>2. pc' \in Processing => NoRestoreOf(payload'.restores, todo')
    BY DEF TakenInv, NoRestoreOf
<1>3. ASSUME pc' \in Providing
      PROVE  TakenFirst(secrets', payload')
    <2> SUFFICES ASSUME NEW i \in DOMAIN payload.restores, NEW x \in secrets',
                        x.path = payload.restores[i].path, x.parent, x.path \notin HandMade
                 PROVE  \E j \in DOMAIN payload'.removals : x.id \in payload'.removals[j].left
        BY DEF TakenFirst
    <2>1. x \in secrets
        BY <1>3 DEF NoRestoreOf
    <2>2. \E j \in DOMAIN payload.removals : x.id \in payload.removals[j].left
        BY <1>3, <2>1 DEF TakenInv, TakenFirst
    <2>3. QED
        BY <1>3, <2>2
<1>4. QED
    BY <1>1, <1>2, <1>3 DEF TakenInv

\* Removals that are the same, or one more.
LEMMA TakenGrows ==
    ASSUME NEW rs \in Seq(Removal), NEW new,
           new = rs \/ \E r \in Removal : new = Append(rs, r),
           NEW i \in DOMAIN rs, NEW id, id \in rs[i].left
    PROVE  \E j \in DOMAIN new : id \in new[j].left
<1>1. CASE new = rs
    BY <1>1
<1>2. ASSUME NEW r \in Removal, new = Append(rs, r)
      PROVE  \E j \in DOMAIN new : id \in new[j].left
    BY <1>2, AppendProperties
<1>3. QED
    BY <1>1, <1>2

\* Nothing is to be restored.
LEMMA TakenNone ==
    ASSUME payload'.restores = <<>>, pc' # "restore"
    PROVE  TakenInv'
BY DEF TakenInv, RestoredOnce, NoRestoreOf, TakenFirst

\* Where no secret waits for its restore only the queue is told.
LEMMA TakenElsewhere ==
    ASSUME TakenInv, payload'.restores = payload.restores, pc' \notin Providing
    PROVE  TakenInv'
<1>1. pc' \notin Processing /\ pc' # "restore"
    BY DEF Providing, Updating
<1>2. QED
    BY <1>1, TakenFrame

LEMMA TakenError ==
    ASSUME TypeOK, TakenInv, NEW pl \in Payload, StepError(pl),
           pl.restores = payload.restores, pl.removals = payload.removals,
           pc = "apply" => secrets' \subseteq secrets
    PROVE  TakenInv'
<1>1. payload' = pl \/ payload' = [pl EXCEPT !.result = NoResult]
    BY BoundsAssumption DEF StepError, TypeOK, RetriesOf
<1>2. payload'.restores = payload.restores /\ payload'.removals = payload.removals
    BY <1>1 DEF Payload
<1>3. \/ pc' \in {"failed", "done", "relist_services", "list_external"}
      \/ pc = "apply" /\ pc' = "apply"
    BY BoundsAssumption DEF StepError, TypeOK, RetriesOf, StepStart, Go
<1>4. CASE pc' \in {"failed", "done", "relist_services", "list_external"}
    <2>1. pc' \notin Providing
        BY <1>4 DEF Providing, Updating, Processing
    <2>2. QED
        BY <1>2, <2>1, TakenElsewhere
<1>5. CASE pc = "apply" /\ pc' = "apply"
    <2>1. pc \in Providing /\ pc' \notin Processing
        BY <1>5 DEF Providing, Updating, Processing
    <2>2. QED
        BY <1>2, <1>5, <2>1, TakenFrame
<1>6. QED
    BY <1>3, <1>4, <1>5

\* A path whose parent is missing has no restore.
LEMMA CreateMissingTaken ==
    ASSUME TypeOK, KeepInv, TakenInv, CreateMissingSecret
    PROVE  TakenInv'
<1>1. PICK f \in fetched :
        LET secret == ParentSecret(f.path, payload.listed[f.path], f.data)
        IN \/ /\ AddSecret(secret)
              /\ pc' = "process" /\ todo' = todo \ {f.path}
              /\ payload' = Counted(payload, "created")
           \/ StepError(payload)
    BY DEF CreateMissingSecret, Go
<1>2. payload \in Payload /\ pc = "create_secret" /\ f.path \in todo
    BY DEF TypeOK, KeepInv, CreateMissingSecret
<1>3. CASE StepError(payload)
    BY <1>2, <1>3, TakenError
<1>4. ASSUME NEW secret, AddSecret(secret), secret.path = f.path,
             pc' = "process", todo' = todo \ {f.path},
             payload' = Counted(payload, "created")
      PROVE  TakenInv'
    <2>1. payload'.restores = payload.restores /\ payload'.removals = payload.removals
        BY <1>2, <1>4, CountedKeeps
    <2>2. pc \in Processing /\ pc \in Providing
        BY <1>2 DEF Processing, Providing, Updating
    <2>3. NoRestoreOf(payload.restores, {f.path})
        BY <1>2, <2>2 DEF TakenInv, NoRestoreOf
    <2>4. secrets' = secrets \cup {secret}
        BY <1>4 DEF AddSecret
    <2>5. QED
        BY <1>4, <2>1, <2>2, <2>3, <2>4, TakenFrame
<1>5. QED
    BY <1>1, <1>3, <1>4 DEF ParentSecret

\* All parents of a path whose new version is created are to be taken.
LEMMA CreateUpdatedTaken ==
    ASSUME TypeOK, KeepInv, KnownInv, TakenInv, CreateUpdatedVersion
    PROVE  TakenInv'
<1> PICK f \in fetched :
        LET secret == VersionSecret(f.path, payload.listed[f.path], f.data)
        IN \/ /\ AddSecret(secret)
              /\ pc' = "process" /\ todo' = todo \ {f.path}
              /\ payload' \in UpdatePlanned(payload, f.path, f.data)
           \/ StepError(payload)
    BY DEF CreateUpdatedVersion, Go
<1> DEFINE p == f.path
           secret == VersionSecret(p, payload.listed[p], f.data)
           r == [path |-> p, parent |-> payload.map[p].id,
                 left |-> payload.map[p].versions]
           z == [path |-> p, label |-> payload.listed[p], data |-> f.data]
           rs == payload.removals
           zs == payload.restores
<1>1. /\ payload \in Payload /\ pc = "create_version" /\ p \in Paths /\ f.data \in Nat
      /\ p \in todo /\ ~secret.parent
    BY DEF TypeOK, Fetched, KeepInv, CreateUpdatedVersion, VersionSecret
<1>2. CASE StepError(payload)
    BY <1>1, <1>2, TakenError
<1>3. CASE /\ AddSecret(secret) /\ pc' = "process" /\ todo' = todo \ {p}
           /\ payload' \in UpdatePlanned(payload, p, f.data)
    <2>1. payload'.removals = Append(rs, r) /\ payload'.restores = Append(zs, z)
        BY <1>1, <1>3, UpdatePlannedKeeps
    <2>2. /\ r \in Removal /\ r.left = payload.map[p].versions
          /\ z \in Restore /\ z.path = p /\ rs \in Seq(Removal) /\ zs \in Seq(Restore)
        BY <1>1 DEF Removal, Restore, Payload, ExistingSecret, Listing
    <2>3. secrets' = secrets \cup {secret}
        BY <1>3 DEF AddSecret
    <2>4. /\ RestoredOnce(zs) /\ NoRestoreOf(zs, todo) /\ TakenFirst(secrets, payload)
        BY <1>1 DEF TakenInv, Processing, Providing, Updating
    <2>5. \A x \in secrets : x.path = p /\ p \notin HandMade /\ x.parent => x.id \in r.left
        <3>1. p \in Visited(pc, todo) /\ payload.map[p].id # 0
            BY <1>1 DEF Visited, Processing, KnownInv, MapAsks
        <3>2. QED
            BY <2>2, <3>1 DEF KnownInv, Known
    <2> HIDE DEF p, secret, r, z, rs, zs
    <2>6. /\ Len(zs) \in Nat /\ DOMAIN zs = 1 .. Len(zs)
          /\ DOMAIN payload'.restores = 1 .. Len(zs) + 1
          /\ payload'.restores[Len(zs) + 1] = z
          /\ \A i \in 1 .. Len(zs) : payload'.restores[i] = zs[i]
          /\ \A i \in 1 .. Len(zs) + 1 : i = Len(zs) + 1 \/ i \in 1 .. Len(zs)
        BY <2>1, <2>2, AppendProperties
    <2>7. /\ Len(rs) + 1 \in DOMAIN payload'.removals
          /\ payload'.removals[Len(rs) + 1] = r
        BY <2>1, <2>2, AppendProperties
    <2>8. RestoredOnce(payload'.restores)
        <3>1. \A i \in 1 .. Len(zs) : zs[i].path # p
            BY <1>1, <2>4, <2>6 DEF NoRestoreOf
        <3>2. QED
            BY <2>2, <2>4, <2>6, <3>1 DEF RestoredOnce
    <2>9. NoRestoreOf(payload'.restores, todo')
        BY <1>3, <2>2, <2>4, <2>6 DEF NoRestoreOf
    <2>10. TakenFirst(secrets', payload')
        <3> SUFFICES ASSUME NEW i \in DOMAIN payload'.restores, NEW x \in secrets',
                            x.path = payload'.restores[i].path, x.parent,
                            x.path \notin HandMade
                     PROVE  \E j \in DOMAIN payload'.removals :
                                x.id \in payload'.removals[j].left
            BY DEF TakenFirst
        <3>1. x \in secrets
            BY <1>1, <2>3
        <3>2. CASE i = Len(zs) + 1
            BY <2>2, <2>5, <2>6, <2>7, <3>1, <3>2
        <3>3. CASE i \in 1 .. Len(zs)
            <4>1. \E j \in DOMAIN rs : x.id \in rs[j].left
                BY <2>4, <2>6, <3>1, <3>3 DEF TakenFirst, rs, zs
            <4>2. QED
                BY <2>1, <2>2, <4>1, TakenGrows
        <3>4. QED
            BY <2>6, <3>2, <3>3
    <2>11. pc' # "restore"
        BY <1>3
    <2>12. QED
        BY <2>8, <2>9, <2>10, <2>11 DEF TakenInv
<1>4. QED
    BY <1>2, <1>3

\* The restored parent is of a path that is not to be restored again.
LEMMA RestoreTaken ==
    ASSUME TypeOK, TakenInv, RestoreParent
    PROVE  TakenInv'
<1> DEFINE zs == payload.restores
<1>1. /\ zs \in Seq(Restore) /\ zs # <<>> /\ payload \in Payload /\ pc = "restore"
    BY DEF TypeOK, Payload, RestoreParent
<1>2. PICK secret :
        /\ secret.path = Head(zs).path
        /\ \/ /\ AddSecret(secret)
              /\ payload' = [payload EXCEPT !.restores = Tail(@)] /\ pc' = pc
           \/ StepError(payload)
    BY DEF RestoreParent, ParentSecret
<1>3. CASE StepError(payload)
    BY <1>1, <1>3, TakenError
<1>4. CASE AddSecret(secret) /\ payload' = [payload EXCEPT !.restores = Tail(@)] /\ pc' = pc
    <2>1. /\ payload'.restores = Tail(zs) /\ payload'.removals = payload.removals
          /\ secrets' = secrets \cup {secret}
        BY <1>1, <1>4 DEF Payload, AddSecret
    <2>2. /\ RestoredOnce(zs) /\ TakenFirst(secrets, payload) /\ payload.removals = <<>>
        BY <1>1 DEF TakenInv, Providing
    <2> HIDE DEF zs
    <2>3. /\ Len(zs) \in Nat \ {0} /\ DOMAIN zs = 1 .. Len(zs) /\ Head(zs) = zs[1]
          /\ DOMAIN Tail(zs) = 1 .. Len(zs) - 1
          /\ \A i \in 1 .. Len(zs) - 1 : Tail(zs)[i] = zs[i + 1]
        BY <1>1, HeadTailProperties, EmptySeq
    <2>4. \A i \in 1 .. Len(zs) - 1 : i \in Nat /\ i + 1 \in DOMAIN zs /\ i + 1 # 1
        BY <2>3
    <2>5. RestoredOnce(Tail(zs))
        <3> SUFFICES ASSUME NEW i \in 1 .. Len(zs) - 1, NEW j \in 1 .. Len(zs) - 1,
                            zs[i + 1].path = zs[j + 1].path
                     PROVE  i = j
            BY <2>3 DEF RestoredOnce
        <3>1. i + 1 = j + 1
            BY <2>2, <2>4 DEF RestoredOnce
        <3>2. QED
            BY <2>4, <3>1
    <2>6. TakenFirst(secrets', payload')
        <3> SUFFICES ASSUME NEW i \in 1 .. Len(zs) - 1, NEW x \in secrets',
                            x.path = zs[i + 1].path, x.parent, x.path \notin HandMade
                     PROVE  \E j \in DOMAIN payload.removals :
                                x.id \in payload.removals[j].left
            BY <2>1, <2>3 DEF TakenFirst
        <3>1. 1 \in DOMAIN zs
            BY <2>3
        <3>2. x # secret
            BY <1>2, <2>2, <2>3, <2>4, <3>1 DEF RestoredOnce
        <3>3. QED
            BY <2>1, <2>2, <2>4, <3>2 DEF TakenFirst, zs
    <2>7. pc' \notin Processing
        BY <1>1, <1>4 DEF Processing
    <2>8. QED
        BY <2>1, <2>2, <2>5, <2>6, <2>7 DEF TakenInv
<1>5. QED
    BY <1>2, <1>3, <1>4

\* What is crossed off is gone.
LEMMA RemoveTaken ==
    ASSUME TypeOK, TakenInv, RemoveOldVersion
    PROVE  TakenInv'
<1>1. /\ payload \in Payload /\ pc \in {"remove", "cleanup"} /\ payload.removals # <<>>
    BY DEF TypeOK, RemoveOldVersion
<1>2. PICK id :
        \/ /\ RemoveSecret(id) \/ (~Live(id) /\ UNCHANGED engineVars)
           /\ pc' = pc
           /\ \/ \E counter : payload' = Counted(CrossedOff(payload, id), counter)
              \/ payload' = CrossedOff(payload, id)
        \/ StepError(payload)
    BY DEF RemoveOldVersion
<1>3. CASE StepError(payload)
    BY <1>1, <1>3, TakenError
<1>4. CASE /\ RemoveSecret(id) \/ (~Live(id) /\ UNCHANGED engineVars)
           /\ pc' = pc
           /\ \/ \E counter : payload' = Counted(CrossedOff(payload, id), counter)
              \/ payload' = CrossedOff(payload, id)
    <2>1. /\ CrossedOff(payload, id) \in Payload
          /\ CrossedOff(payload, id).restores = payload.restores
        BY <1>1, CrossedOffType DEF CrossedOff, Payload
    <2>2. /\ payload'.restores = payload.restores
          /\ payload'.removals = CrossedOff(payload, id).removals
        BY <1>4, <2>1, CountedKeeps
    <2>3. secrets' \subseteq secrets /\ \A x \in secrets' : x.id # id
        BY <1>4 DEF RemoveSecret, Live, engineVars
    <2>4. \A x \in secrets' : \A i \in DOMAIN payload.removals :
            x.id \in payload.removals[i].left =>
                \E j \in DOMAIN payload'.removals : x.id \in payload'.removals[j].left
        BY <1>1, <2>2, <2>3, CrossedOffKeeps
    <2>5. pc' \notin Processing /\ pc' # "restore"
        BY <1>1, <1>4 DEF Processing
    <2>6. QED
        BY <1>4, <2>2, <2>3, <2>4, <2>5, TakenFrame
<1>5. QED
    BY <1>2, <1>3, <1>4

\* The rest of the pipeline creates and takes no secret.
LEMMA PipelineTaken ==
    ASSUME TypeOK, OrderInv, TakenInv,
           \/ StartSync \/ ListServices \/ ListSecretsOfSwarm \/ LoadExternalState
           \/ \E p \in Paths : ProcessSameVersion(p) \/ GetSecretPayload(p)
           \/ FinishProcess \/ ApplyServiceUpdate \/ FinishApply
           \/ FinishRemove \/ FinishRestore
           \/ PlanCleanup \/ Return \/ CallFails \/ Crash
    PROVE  TakenInv'
<1>1. payload \in Payload /\ payload.removals \in Seq(Removal)
    BY DEF TypeOK, Payload
<1>2. CASE StartSync \/ Return \/ Crash
    <2>1. payload'.restores = <<>> /\ pc' # "restore"
        BY <1>2 DEF StartSync, Return, Crash, Forget, NewPayload, Go
    <2>2. QED
        BY <2>1, TakenNone
<1>3. CASE ListServices \/ ListSecretsOfSwarm \/ PlanCleanup
    <2>1. payload'.restores = payload.restores
        BY <1>1, <1>3 DEF ListServices, ListSecretsOfSwarm, PlanCleanup, Payload
    <2>2. pc' \notin Providing
        BY <1>3 DEF ListServices, ListSecretsOfSwarm, PlanCleanup, Go, Providing, Updating,
                    Processing
    <2>3. QED
        BY <2>1, <2>2, TakenElsewhere
<1>4. CASE LoadExternalState
    <2>1. payload'.restores = <<>> /\ pc' # "restore"
        BY <1>1, <1>4 DEF LoadExternalState, Payload, Go, OrderInv, Ahead
    <2>2. QED
        BY <2>1, TakenNone
<1>5. ASSUME NEW p \in Paths, ProcessSameVersion(p)
      PROVE  TakenInv'
    <2>1. /\ payload'.restores = payload.restores /\ secrets' = secrets
          /\ pc = "process" /\ pc' = pc /\ todo' = todo \ {p}
        BY <1>5, ProcessSameVersionKeeps DEF ProcessSameVersion, engineVars
    <2>2. \/ payload'.removals = payload.removals
          \/ \E r \in Removal : payload'.removals = Append(payload.removals, r)
        BY <1>5, ProcessSameVersionPlans
    <2>3. \A i \in DOMAIN payload.removals : \A id \in payload.removals[i].left :
            \E j \in DOMAIN payload'.removals : id \in payload'.removals[j].left
        <3>1. payload.removals \in Seq(Removal)
            BY <1>1
        <3> DEFINE rs == payload.removals
                   new == payload'.removals
        <3>2. new = rs \/ \E r \in Removal : new = Append(rs, r)
            BY <2>2
        <3> HIDE DEF rs, new
        <3>3. \A i \in DOMAIN rs : \A id \in rs[i].left :
                \E j \in DOMAIN new : id \in new[j].left
            BY <3>1, <3>2, TakenGrows DEF rs
        <3>4. QED
            BY <3>3 DEF rs, new
    <2>4. pc \in Processing /\ pc \in Providing
        BY <2>1 DEF Processing, Providing, Updating
    <2>5. QED
        BY <2>1, <2>3, <2>4, TakenFrame
<1>6. ASSUME NEW p \in Paths, GetSecretPayload(p)
      PROVE  TakenInv'
    <2>1. secrets' = secrets /\ pc = "process"
        BY <1>6 DEF GetSecretPayload, engineVars
    <2>2. CASE /\ pc' \in {"create_secret", "create_version"}
               /\ payload' = payload /\ todo' = todo
        <3>1. pc \in Processing /\ pc \in Providing
            BY <2>1 DEF Processing, Providing, Updating
        <3>2. QED
            BY <2>1, <2>2, <3>1, TakenFrame
    <2>3. CASE StepError(payload)
        BY <1>1, <2>1, <2>3, TakenError
    <2>4. QED
        BY <1>6, <2>2, <2>3 DEF GetSecretPayload, Go
<1>7. CASE FinishProcess \/ FinishApply \/ FinishRemove \/ FinishRestore
    <2>1. payload' = payload /\ secrets' = secrets
        BY <1>7 DEF FinishProcess, FinishApply, FinishRemove, FinishRestore, engineVars
    <2>2. /\ pc' \notin Processing
          /\ pc' \in Providing => pc \in Providing
          /\ pc' = "restore" => payload.removals = <<>>
        BY <1>7 DEF FinishProcess, FinishApply, FinishRemove, FinishRestore, Go,
                    AfterProcess, AfterApply, AfterRemove, AfterRestore,
                    Providing, Updating, Processing
    <2>3. QED
        BY <2>1, <2>2, TakenFrame
<1>8. CASE ApplyServiceUpdate
    <2>1. secrets' = secrets /\ pc = "apply"
        BY <1>8, ApplyKeeps DEF ApplyServiceUpdate
    <2>2. CASE /\ payload'.restores = payload.restores
               /\ payload'.removals = payload.removals /\ pc' = pc
        <3>1. pc \in Providing /\ pc' \notin Processing /\ pc' # "restore"
            BY <2>1, <2>2 DEF Providing, Updating, Processing
        <3>2. QED
            BY <2>1, <2>2, <3>1, TakenFrame
    <2>3. ASSUME NEW pl \in Payload, StepError(pl), pl.restores = payload.restores,
                 pl.removals = payload.removals
          PROVE  TakenInv'
        BY <2>1, <2>3, TakenError
    <2>4. QED
        BY <1>8, <2>2, <2>3, ApplyKeeps
<1>9. CASE CallFails
    <2>1. secrets' = secrets /\ StepError(payload)
        BY <1>9 DEF CallFails, engineVars
    <2>2. QED
        BY <1>1, <2>1, TakenError
<1>10. QED
    BY <1>2, <1>3, <1>4, <1>5, <1>6, <1>7, <1>8, <1>9

LEMMA EnvironmentTaken ==
    ASSUME TakenInv, Environment \/ UNCHANGED vars
    PROVE  TakenInv'
<1>1. pc' = pc /\ payload' = payload /\ todo' = todo
    BY DEF Environment, WriteValue, DeleteValue, OperatorCreates, Deploy,
           OperatorRemoves, vars, syncVars
<1>2. \A x \in secrets' : x \in secrets \/ x.path \in HandMade
    <2>1. \/ \E p \in Paths : OperatorCreates(p)
          \/ secrets' \subseteq secrets
        BY DEF Environment, WriteValue, DeleteValue, Deploy, OperatorRemoves, RemoveSecret,
               vars, engineVars
    <2>2. QED
        BY <2>1 DEF OperatorCreates, AddSecret, ParentSecret
<1>3. QED
    BY <1>1, <1>2, TakenFrame DEF TakenInv

NamesInv == OrderInv /\ KnownInv /\ TakenInv

LEMMA InitNames == Init => NamesInv
<1> SUFFICES ASSUME Init
             PROVE  NamesInv
    OBVIOUS
<1>1. /\ \A p \in Paths : payload.map[p].latest = 0 /\ external[p].ver \in Nat
      /\ payload.restores = <<>> /\ secrets = {} /\ pc = "idle"
    BY DEF Init, NewPayload, Unmapped
<1>2. \A n \in Nat : 0 <= n
    OBVIOUS
<1>3. \A p \in Paths : payload.map[p].latest <= external[p].ver
    BY <1>1, <1>2
<1>4. KnownInv
    BY <1>1, <1>3 DEF KnownInv, Visited, MapAsks, Processing
<1>5. TakenInv
    BY <1>1 DEF TakenInv, RestoredOnce, Providing, Updating, Processing
<1>6. QED
    BY <1>4, <1>5, InitOrder DEF NamesInv

LEMMA NextNames ==
    TypeOK /\ TypeOK' /\ Agreed /\ KeepInv /\ ~VersionsRestart /\ NamesInv /\ [Next]_vars
        => NamesInv'
<1> SUFFICES ASSUME TypeOK, TypeOK', Agreed, KeepInv, ~VersionsRestart, NamesInv, [Next]_vars
             PROVE  NamesInv'
    OBVIOUS
<1>1. OrderInv /\ KnownInv /\ TakenInv
    BY DEF NamesInv
<1>2. OrderInv'
    BY <1>1, NextOrder
<1>3. KnownInv'
    <2>1. CASE ListSecretsOfSwarm
        BY <1>1, <2>1, ListSecretsKnown
    <2>2. CASE LoadExternalState
        BY <1>1, <2>2, LoadExternalKnown
    <2>3. CASE CreateMissingSecret \/ CreateUpdatedVersion
        BY <1>1, <2>3, CreateKnown
    <2>4. CASE \/ StartSync \/ ListServices
               \/ \E p \in Paths : ProcessSameVersion(p) \/ GetSecretPayload(p)
               \/ FinishProcess \/ ApplyServiceUpdate \/ FinishApply
               \/ RemoveOldVersion \/ FinishRemove \/ RestoreParent \/ FinishRestore
               \/ PlanCleanup \/ Return \/ CallFails \/ Crash
        BY <1>1, <2>4, PipelineKnown
    <2>5. CASE Environment \/ UNCHANGED vars
        BY <1>1, <2>5, EnvironmentKnown
    <2>6. QED
        BY <2>1, <2>2, <2>3, <2>4, <2>5 DEF Next, SyncStep
<1>4. TakenInv'
    <2>1. CASE CreateMissingSecret
        BY <1>1, <2>1, CreateMissingTaken
    <2>2. CASE CreateUpdatedVersion
        BY <1>1, <2>2, CreateUpdatedTaken
    <2>3. CASE RestoreParent
        BY <1>1, <2>3, RestoreTaken
    <2>4. CASE RemoveOldVersion
        BY <1>1, <2>4, RemoveTaken
    <2>5. CASE \/ StartSync \/ ListServices \/ ListSecretsOfSwarm \/ LoadExternalState
               \/ \E p \in Paths : ProcessSameVersion(p) \/ GetSecretPayload(p)
               \/ FinishProcess \/ ApplyServiceUpdate \/ FinishApply
               \/ FinishRemove \/ FinishRestore
               \/ PlanCleanup \/ Return \/ CallFails \/ Crash
        BY <1>1, <2>5, PipelineTaken
    <2>6. CASE Environment \/ UNCHANGED vars
        BY <1>1, <2>6, EnvironmentTaken
    <2>7. QED
        BY <2>1, <2>2, <2>3, <2>4, <2>5, <2>6 DEF Next, SyncStep
<1>5. QED
    BY <1>2, <1>3, <1>4 DEF NamesInv

\* A version is never named like its parent, nor two versions alike.
LEMMA GenerateApart ==
    ASSUME NEW p \in Paths, NEW v \in Nat, NEW w \in Nat, NEW i \in Nat, NEW j \in Nat
    PROVE  /\ Generate(p, v, i) # p
           /\ Generate(p, v, i) = Generate(p, w, j) => v = w \/ i = j
<1>1. /\ p \in Seq(Words \cup (Nat \ {0})) /\ Len(p) \in Nat \ {0} /\ 1 \in DOMAIN p
      /\ p[1] # 0
    <2>1. p \in Seq(Words \cup (Nat \ {0})) /\ p # <<>> /\ 0 \notin Words
        BY NamesAssumption
    <2>2. Len(p) \in Nat \ {0} /\ 1 \in DOMAIN p
        BY <2>1, EmptySeq
    <2>3. p[1] \in Words \cup (Nat \ {0})
        BY <2>1, <2>2, ElementOfSeq
    <2>4. QED
        BY <2>1, <2>2, <2>3
<1>2. p \in Seq(Words \cup Nat)
    BY <1>1
<1>3. ASSUME NEW n \in Nat
      PROVE  /\ Len(Append(p, n)) = Len(p) + 1
             /\ Append(p, n)[1] = p[1]
             /\ Append(p, n)[Len(p) + 1] = n
    BY <1>1, <1>2, AppendProperties
<1>4. \A k, n \in Nat : /\ <<0, k>> # p
                        /\ <<0, k>> # Append(p, n)
                        /\ <<0, k>> = <<0, n>> => k = n
    <2>1. \A k, n \in Nat : <<0, k>>[1] = 0 /\ <<0, k>>[2] = k
        OBVIOUS
    <2>2. QED
        BY <1>1, <1>3, <2>1
<1>5. \A n \in Nat : Append(p, n) # p
    BY <1>1, <1>3
<1>6. Append(p, v) = Append(p, w) => v = w
    BY <1>3
<1>7. QED
    BY <1>4, <1>5, <1>6 DEF Generate

\* The names that are about to be created are not taken by their own paths.
LEMMA NamesFree ==
    ASSUME TypeOK, KeepInv, ~VersionsRestart, NamesInv
    PROVE  ConflictsAreNamesakes
<1>1. OrderInv /\ KnownInv /\ TakenInv /\ secrets \subseteq Secret
    BY DEF NamesInv, TypeOK, EngineTypeOK
<1>2. \A x \in secrets : /\ x.id \in Nat /\ x.label \in Nat
                         /\ x.id < nextId
    BY <1>1 DEF Secret, TypeOK, EngineTypeOK
<1>3. ASSUME NEW p \in Paths, \A x \in secrets : x.path = p => ~x.parent
      PROVE  ~TakenByItself(p, p)
    <2>1. ASSUME NEW x \in secrets, x.path = p
          PROVE  NameOf(x) # p
        BY <1>2, <1>3, <2>1, GenerateApart DEF NameOf
    <2>2. QED
        BY <2>1 DEF TakenByItself, OfPath
<1>4. ASSUME NEW f \in fetched, f.path \notin HandMade,
             pc \in {"create_secret", "create_version"}
      PROVE  ~TakenByItself(f.path, IF pc = "create_secret" THEN f.path
                                    ELSE VersionName(f.path))
    <2> DEFINE p == f.path
    <2>1. p \in Paths /\ p \in todo /\ pc \in Processing /\ p \in Visited(pc, todo)
        BY <1>4 DEF TypeOK, Fetched, KeepInv, Processing, Visited
    <2>2. Known(secrets, payload.map[p], p)
        BY <1>1, <1>4, <2>1 DEF KnownInv
    <2>3. CASE pc = "create_secret"
        <3>1. payload.map[p].id = 0
            BY <1>1, <2>3 DEF KnownInv, MapAsks
        <3>2. ~TakenByItself(p, p)
            BY <1>3, <2>1, <2>2, <3>1 DEF Known
        <3>3. QED
            BY <2>3, <3>2
    <2>4. CASE pc = "create_version"
        <3>1. /\ payload.map[p].id # 0 /\ payload.map[p].latest # payload.listed[p]
              /\ payload.map[p].latest <= payload.listed[p] /\ payload.listed[p] # 0
              /\ payload.map[p].latest \in Nat /\ payload.listed[p] \in Nat
            BY <1>1, <2>1, <2>4
                DEF KnownInv, MapAsks, OrderInv, TypeOK, Payload, ExistingSecret, Listing
        <3>2. \A x \in secrets : x.path = p => x.label # payload.listed[p]
            <4>1. \A x \in secrets : x.label \in Nat
                BY <1>1 DEF Secret
            <4>2. \A x \in secrets : x.path = p => x.label <= payload.map[p].latest
                BY <2>2, <3>1 DEF Known
            <4>3. \A n \in Nat : n <= payload.map[p].latest => n # payload.listed[p]
                BY <3>1
            <4>4. QED
                BY <4>1, <4>2, <4>3
        <3>3. ASSUME NEW x \in secrets, x.path = p
              PROVE  NameOf(x) # VersionName(p)
            <4>1. nextId \in Nat /\ x.id # nextId /\ x.id \in Nat /\ x.label \in Nat
                BY <1>2 DEF TypeOK, EngineTypeOK
            <4>2. CASE x.parent
                BY <2>1, <3>1, <3>3, <4>1, <4>2, GenerateApart DEF NameOf, VersionName
            <4>3. CASE ~x.parent
                <5>1. NameOf(x) = Generate(p, x.label, x.id)
                    BY <3>3, <4>3 DEF NameOf
                <5>2. x.label # payload.listed[p]
                    BY <3>2, <3>3
                <5> HIDE DEF p
                <5>3. QED
                    BY <2>1, <3>1, <4>1, <5>1, <5>2, GenerateApart DEF VersionName
            <4>4. QED
                BY <4>2, <4>3
        <3>4. ~TakenByItself(p, VersionName(p))
            BY <3>3 DEF TakenByItself, OfPath
        <3>5. QED
            BY <2>4, <3>4
    <2>5. QED
        BY <1>4, <2>3, <2>4
<1>5. ASSUME pc = "restore", NEW i \in DOMAIN payload.restores,
             payload.restores[i].path \notin HandMade
      PROVE  ~TakenByItself(payload.restores[i].path, payload.restores[i].path)
    <2>1. TakenFirst(secrets, payload) /\ payload.removals = <<>>
        BY <1>1, <1>5 DEF TakenInv, Providing
    <2>2. payload.restores \in Seq(Restore)
        BY DEF TypeOK, Payload
    <2>3. payload.restores[i] \in Restore
        BY <1>5, <2>2, ElementOfSeq
    <2>4. payload.restores[i].path \in Paths
        BY <2>3 DEF Restore
    <2>5. \A x \in secrets : x.path = payload.restores[i].path => ~x.parent
        BY <1>5, <2>1 DEF TakenFirst
    <2>6. QED
        BY <1>3, <2>4, <2>5
<1>6. QED
    BY <1>4, <1>5 DEF ConflictsAreNamesakes

\* Where the manager's version numbers never start again, a synchronization never
\* gives a path a name that another secret of the path has: leftovers of a failed
\* one have older version ids, and a parent that is restored was taken before.  So
\* Docker refuses to create a secret only for the sake of another path's, whose
\* name is the same (db at version 2, and the path db-2).  Paths whose parent an
\* operator may create by hand are left out.
THEOREM OnlyNamesakesConflict == Spec => []ConflictsAreNamesakes
<1> DEFINE Inv == RefsInv /\ KeepInv /\ (~VersionsRestart => NamesInv)
<1>1. Init => Inv
    BY InitRefsInv, InitKeep, InitNames
<1>2. Inv /\ [Next]_vars => Inv'
    BY NextRefsInv, NextKeep, NextNames DEF RefsInv
<1>3. Inv => ConflictsAreNamesakes
    <2>1. VersionsRestart => ConflictsAreNamesakes
        BY DEF ConflictsAreNamesakes
    <2>2. QED
        BY <2>1, NamesFree DEF RefsInv
<1>4. QED
    BY <1>1, <1>2, <1>3, PTL DEF Spec

-----------------------------------------------------------------------------
(* A synchronization moves the references it knows of before it takes what   *)
(* they lead to.                                                             *)

\* An id that a removal is going to take.
Planned(removals, id) == \E i \in DOMAIN removals : id \in removals[i].left

\* No reference is to such an id ...
Clear(refs, removals) == \A ref \in refs : ~Planned(removals, ref.id)

\* ... or each one that is has a move, and no move leads to such an id.
MovedAway(refs, moves, removals) ==
    /\ \A ref \in refs : Planned(removals, ref.id)
            => \E move \in moves : move.from = ref.id
    /\ \A move \in moves : ~Planned(removals, move.id)

\* Each service with a task has its place.
InOrder(tasks, order) ==
    \A s \in Services : tasks[s] # {} => \E k \in DOMAIN order : order[k] = s

PlanInv ==
    /\ InOrder(payload.tasks, payload.order)
    /\ payload.offset <= Len(payload.order)
    /\ pc \in Ahead => payload.order = <<>>
    /\ pc \in Ahead \cup Processing => payload.offset = 0
    /\ pc \in Processing => \A i \in DOMAIN payload.removals :
            payload.removals[i].left \subseteq payload.map[payload.removals[i].path].versions
    /\ pc \in Processing \cup {"apply"} => \A s \in Services :
            MovedAway(payload.services[s].refs, payload.tasks[s], payload.removals)
    /\ pc = "apply" => \A k \in DOMAIN payload.order : k <= payload.offset =>
            Clear(payload.services[payload.order[k]].refs, payload.removals)
    /\ pc \in {"remove", "cleanup"} => \A s \in Services :
            Clear(payload.services[s].refs, payload.removals)

LEMMA ArrangementCovers ==
    ASSUME NEW S, IsFiniteSet(S), NEW q \in SetToSeqs(S), NEW x \in S
    PROVE  \E k \in DOMAIN q : q[k] = x
<1>1. Cardinality(S) \in Nat
    BY FS_CardinalityType
<1>2. q \in [1 .. Cardinality(S) -> S] /\ q \in Injection(1 .. Cardinality(S), S)
    BY DEF SetToSeqs, Injection, IsInjective
<1>3. Cardinality(1 .. Cardinality(S)) = Cardinality(S)
    BY <1>1, FS_Interval
<1>4. q \in Surjection(1 .. Cardinality(S), S)
    BY <1>2, <1>3, FS_Injection
<1>5. QED
    BY <1>2, <1>4 DEF Surjection

\* Queueing gives each service with a move its place, replaces the moves of the
\* ids that move now, and adds one for each of them.
LEMMA EnqueuedPlan ==
    ASSUME NEW pl \in Payload, NEW moved \in [Services -> SUBSET Nat],
           NEW target, NEW queued \in Enqueued(pl, moved, target)
    PROVE  /\ queued.offset = pl.offset
           /\ Len(pl.order) <= Len(queued.order)
           /\ InOrder(pl.tasks, pl.order) => InOrder(queued.tasks, queued.order)
           /\ \A s \in Services :
                /\ \A move \in queued.tasks[s] : move \in pl.tasks[s] \/ move.id = target.id
                /\ \A id \in moved[s] : \E move \in queued.tasks[s] : move.from = id
                /\ \A move \in pl.tasks[s] : \E new \in queued.tasks[s] : new.from = move.from
<1> DEFINE newly == {s \in Services : moved[s] # {}
                        /\ \A i \in DOMAIN pl.order : pl.order[i] # s}
           tasks == [s \in Services |->
                        {move \in pl.tasks[s] : move.from \notin moved[s]} \cup
                        {[from |-> id, id |-> target.id, name |-> target.name] :
                            id \in moved[s]}]
<1>1. PICK arrivals \in SetToSeqs(newly) :
            queued = [pl EXCEPT !.tasks = tasks, !.order = @ \o arrivals]
    BY DEF Enqueued
<1>2. /\ queued.tasks = tasks /\ queued.offset = pl.offset
      /\ queued.order = pl.order \o arrivals
    BY <1>1 DEF Payload
<1>3. IsFiniteSet(newly) /\ newly \subseteq Services
    BY FinitenessAssumption, FS_Subset
<1>4. arrivals \in Seq(Services) /\ pl.order \in Seq(Services)
    BY <1>3, ArrangementIsSeq DEF Payload
<1>5. /\ Len(pl.order) \in Nat /\ Len(arrivals) \in Nat
      /\ Len(queued.order) = Len(pl.order) + Len(arrivals)
      /\ \A k \in DOMAIN pl.order : /\ k \in DOMAIN queued.order
                                    /\ queued.order[k] = pl.order[k]
      /\ \A k \in DOMAIN arrivals : /\ Len(pl.order) + k \in DOMAIN queued.order
                                    /\ queued.order[Len(pl.order) + k] = arrivals[k]
    BY <1>2, <1>4
<1>6. \A s \in Services :
        /\ \A move \in tasks[s] : move \in pl.tasks[s] \/ move.id = target.id
        /\ \A id \in moved[s] : \E move \in tasks[s] : move.from = id
        /\ \A move \in pl.tasks[s] : \E new \in tasks[s] : new.from = move.from
    <2> SUFFICES ASSUME NEW s \in Services
                 PROVE  /\ \A move \in tasks[s] : move \in pl.tasks[s] \/ move.id = target.id
                        /\ \A id \in moved[s] : \E move \in tasks[s] : move.from = id
                        /\ \A move \in pl.tasks[s] : \E new \in tasks[s] :
                                new.from = move.from
        OBVIOUS
    <2>1. \A id \in moved[s] : \E move \in tasks[s] : move.from = id
        <3> SUFFICES ASSUME NEW id \in moved[s]
                     PROVE  \E move \in tasks[s] : move.from = id
            OBVIOUS
        <3>1. [from |-> id, id |-> target.id, name |-> target.name] \in tasks[s]
            OBVIOUS
        <3>2. QED
            BY <3>1
    <2>2. \A move \in pl.tasks[s] : \E new \in tasks[s] : new.from = move.from
        BY <2>1
    <2>3. \A move \in tasks[s] : move \in pl.tasks[s] \/ move.id = target.id
        OBVIOUS
    <2>4. QED
        BY <2>1, <2>2, <2>3
<1>7. ASSUME InOrder(pl.tasks, pl.order), NEW s \in Services, tasks[s] # {}
      PROVE  \E k \in DOMAIN queued.order : queued.order[k] = s
    <2>1. pl.tasks[s] # {} \/ moved[s] # {}
        BY <1>7
    <2>2. CASE \E k \in DOMAIN pl.order : pl.order[k] = s
        BY <1>5, <2>2
    <2>3. CASE s \in newly
        <3>1. PICK k \in DOMAIN arrivals : arrivals[k] = s
            BY <1>3, <2>3, ArrangementCovers
        <3>2. QED
            BY <1>5, <3>1
    <2>4. QED
        BY <1>7, <2>1, <2>2, <2>3 DEF InOrder
<1> HIDE DEF tasks, newly
<1>8. QED
    BY <1>2, <1>5, <1>6, <1>7 DEF InOrder

\* Both branches only queue moves and plan removals.
SameQueue(pl, new) ==
    new.tasks = pl.tasks /\ new.order = pl.order /\ new.offset = pl.offset

LEMMA BesidesQueue ==
    ASSUME NEW pl \in Payload, NEW p \in Paths, NEW left \in SUBSET Nat,
           NEW counter \in {"created", "updated", "skipped",
                            "removedSecrets", "removedVersions"}
    PROVE  SameQueue(pl, Counted(pl, counter)) /\ SameQueue(pl, WithRemoval(pl, p, left))
BY DEF SameQueue, Counted, WithRemoval, Payload

LEMMA ProcessSameVersionEnqueues ==
    ASSUME TypeOK, NEW p \in Paths, ProcessSameVersion(p)
    PROVE  \E pl \in Enqueued(payload, [s \in Services |-> SameVersionRefs(s, p)],
                              BackToParent(p)) :
                SameQueue(pl, payload')
<1> DEFINE secret == payload.map[p]
           old    == secret.versions \ {secret.id}
           moved  == [s \in Services |-> SameVersionRefs(s, p)]
<1>1. payload \in Payload /\ secret \in ExistingSecret
    BY DEF TypeOK, Payload
<1>2. BackToParent(p) \in [id : Nat \ {0}, name : Name]
    BY ProcessSameVersionQueues
<1>3. moved \in [Services -> SUBSET Nat] /\ old \in SUBSET Nat
    BY <1>1, MovedType DEF ExistingSecret
<1>4. \E pl \in Enqueued(payload, moved, BackToParent(p)) :
            payload' = Counted(IF secret.managed /\ old # {}
                                THEN WithRemoval(pl, p, old) ELSE pl, "skipped")
    BY DEF ProcessSameVersion, BackToParent
<1> HIDE DEF moved, old, secret
<1>5. PICK pl \in Enqueued(payload, moved, BackToParent(p)) :
            \/ payload' = Counted(pl, "skipped")
            \/ payload' = Counted(WithRemoval(pl, p, old), "skipped")
    BY <1>4
<1>6. pl \in Payload
    BY <1>1, <1>2, <1>3, EnqueuedType
<1>7. /\ WithRemoval(pl, p, old) \in Payload
      /\ SameQueue(pl, WithRemoval(pl, p, old))
    BY <1>3, <1>6, WithRemovalType, BesidesQueue
<1>8. SameQueue(pl, payload')
    <2>1. CASE payload' = Counted(pl, "skipped")
        BY <1>3, <1>6, <2>1, BesidesQueue
    <2>2. CASE payload' = Counted(WithRemoval(pl, p, old), "skipped")
        <3>1. SameQueue(WithRemoval(pl, p, old), payload')
            BY <1>3, <1>7, <2>2, BesidesQueue
        <3>2. QED
            BY <1>7, <3>1 DEF SameQueue
    <2>3. QED
        BY <1>5, <2>1, <2>2
<1>9. QED
    BY <1>8 DEF moved

LEMMA UpdatePlannedEnqueues ==
    ASSUME TypeOK, NEW p \in Paths, NEW data \in Nat,
           NEW pl \in UpdatePlanned(payload, p, data)
    PROVE  \E planned \in Payload :
                /\ SameQueue(payload, planned)
                /\ \E queued \in Enqueued(planned, [s \in Services |-> UpdatedRefs(s, p)],
                                          NewVersion(p)) :
                        SameQueue(queued, pl)
<1> DEFINE moved   == [s \in Services |-> UpdatedRefs(s, p)]
           restore == [path |-> p, label |-> payload.listed[p], data |-> data]
           removing == WithRemoval(payload, p, payload.map[p].versions)
           planned == [removing EXCEPT !.map[p].managed = TRUE,
                                       !.restores = Append(@, restore)]
<1>1. /\ payload \in Payload /\ payload.listed[p] \in Nat
      /\ payload.map[p].versions \in SUBSET Nat
    BY DEF TypeOK, Payload, ExistingSecret, Listing
<1>2. removing \in Payload /\ SameQueue(payload, removing)
    BY <1>1, WithRemovalType, BesidesQueue
<1>3. NewVersion(p) \in [id : Nat \ {0}, name : Name]
    BY UpdatePlannedQueues
<1>4. Append(removing.restores, restore) \in Seq(Restore)
    <2>1. restore \in Restore
        BY <1>1 DEF Restore
    <2>2. QED
        BY <1>2, <2>1 DEF Payload
<1>5. [removing.map EXCEPT ![p].managed = TRUE] \in [Paths -> ExistingSecret]
    BY <1>2 DEF Payload, ExistingSecret
<1> HIDE DEF removing
<1>6. planned \in Payload /\ SameQueue(removing, planned)
    BY <1>2, <1>4, <1>5 DEF Payload, SameQueue
<1>7. PICK queued \in Enqueued(planned, moved, NewVersion(p)) : pl = Counted(queued, "updated")
    BY DEF UpdatePlanned, RestoreOf, NewVersion, VersionName, removing
<1>8. moved \in [Services -> SUBSET Nat]
    BY MovedType
<1>9. SameQueue(payload, planned)
    BY <1>2, <1>6 DEF SameQueue
<1> HIDE DEF planned, moved
<1>10. queued \in Payload
    BY <1>3, <1>6, <1>7, <1>8, EnqueuedType
<1>11. SameQueue(queued, pl)
    BY <1>7, <1>10 DEF SameQueue, Counted, Payload
<1>12. QED
    BY <1>6, <1>7, <1>9, <1>11 DEF moved

\* What an added removal takes is planned as well.
LEMMA PlannedMore ==
    ASSUME NEW rs \in Seq(Removal), NEW r \in Removal
    PROVE  \A id : Planned(Append(rs, r), id) <=> Planned(rs, id) \/ id \in r.left
<1>1. /\ Len(rs) \in Nat /\ DOMAIN rs = 1 .. Len(rs)
      /\ DOMAIN Append(rs, r) = 1 .. Len(rs) + 1
      /\ Append(rs, r)[Len(rs) + 1] = r
      /\ \A i \in 1 .. Len(rs) : Append(rs, r)[i] = rs[i]
    BY AppendProperties
<1>2. \A i \in 1 .. Len(rs) + 1 : i = Len(rs) + 1 \/ i \in 1 .. Len(rs)
    BY <1>1
<1>3. Len(rs) + 1 \in 1 .. Len(rs) + 1 /\ \A i \in 1 .. Len(rs) : i \in 1 .. Len(rs) + 1
    BY <1>1
<1>4. QED
    BY <1>1, <1>2, <1>3 DEF Planned

\* Ids of one path are not of another one: neither the moves of another path, nor
\* its parent, lead to what is mapped for p.
LEMMA PathsApart ==
    ASSUME Agreed, NEW p \in Paths
    PROVE  /\ \A s \in Services : \A move \in payload.tasks[s] : \A q \in Paths :
                q # p /\ MoveOf(payload, s, move, q)
                    => move.id \notin payload.map[p].versions
           /\ \A q \in Paths : payload.map[p].id # 0
                    /\ payload.map[p].id \in payload.map[q].versions => q = p
<1>1. PICK name \in Naming : PayloadAgrees(name, nextId, payload)
    BY DEF Agreed
<1>2. \A q, o \in Paths : payload.map[q].id # 0
        /\ payload.map[q].id \in payload.map[o].versions => q = o
    BY <1>1 DEF PayloadAgrees, EntryAgrees, OfPathNamed
<1>3. ASSUME NEW s \in Services, NEW move \in payload.tasks[s], NEW q \in Paths,
             q # p, MoveOf(payload, s, move, q)
      PROVE  move.id \notin payload.map[p].versions
    <2>1. \/ payload.map[q].id # 0 /\ move.id = payload.map[q].id
          \/ Unseen(payload, s, move.id)
        BY <1>3 DEF MoveOf
    <2>2. QED
        BY <1>2, <1>3, <2>1 DEF Unseen
<1>4. QED
    BY <1>2, <1>3

\* A visit: the ids it plans to take are among those mapped for the path, each
\* reference to one of them moves, and none moves to one.
LEMMA PlanVisited ==
    ASSUME TypeOK, TypeOK', Agreed, TasksApart, KeepInv, PlanInv,
           pc \in Processing, pc' = "process", NEW p \in todo, p \in Paths,
           NEW moved \in [Services -> SUBSET Nat], NEW target,
           NEW planned \in Payload, SameQueue(payload, planned),
           NEW queued \in Enqueued(planned, moved, target), SameQueue(queued, payload'),
           payload'.services = payload.services,
           \A q \in Paths : payload'.map[q].versions = payload.map[q].versions,
           NEW left, left \subseteq payload.map[p].versions,
           \/ payload'.removals = payload.removals /\ left = {}
           \/ \E r \in Removal :
                /\ r.path = p /\ r.left = left
                /\ payload'.removals = Append(payload.removals, r),
           target.id \notin left, ~Planned(payload.removals, target.id),
           \A s \in Services : \A ref \in payload.services[s].refs :
                ref.id \in left => ref.id \in moved[s]
    PROVE  PlanInv'
<1> DEFINE rs == payload.removals
           new == payload'.removals
<1>1. /\ payload \in Payload /\ rs \in Seq(Removal)
      /\ payload.order \in Seq(Services) /\ payload.offset \in Nat
    BY DEF TypeOK, Payload
<1>2. \A id : Planned(new, id) <=> Planned(rs, id) \/ id \in left
    <2> HIDE DEF rs, new
    <2>1. CASE new = rs /\ left = {}
        BY <2>1
    <2>2. ASSUME NEW r \in Removal, r.left = left, new = Append(rs, r)
          PROVE  \A id : Planned(new, id) <=> Planned(rs, id) \/ id \in left
        BY <1>1, <2>2, PlannedMore
    <2>3. QED
        BY <2>1, <2>2 DEF new, rs
<1>3. /\ payload'.offset = payload.offset /\ Len(payload.order) <= Len(payload'.order)
      /\ InOrder(payload.tasks, payload.order) => InOrder(payload'.tasks, payload'.order)
      /\ \A s \in Services :
            /\ \A move \in payload'.tasks[s] :
                    move \in payload.tasks[s] \/ move.id = target.id
            /\ \A id \in moved[s] : \E move \in payload'.tasks[s] : move.from = id
            /\ \A move \in payload.tasks[s] :
                    \E other \in payload'.tasks[s] : other.from = move.from
    BY EnqueuedPlan DEF SameQueue
<1>4. InOrder(payload'.tasks, payload'.order) /\ payload'.offset = 0
    BY <1>3 DEF PlanInv
<1>5. 0 <= Len(payload'.order)
    <2>1. Len(payload.order) \in Nat /\ payload'.order \in Seq(Services)
        BY <1>1 DEF TypeOK, Payload
    <2>2. QED
        BY <1>3, <2>1
<1>6. ASSUME NEW i \in DOMAIN new
      PROVE  new[i].left \subseteq payload'.map[new[i].path].versions
    <2>1. \A j \in DOMAIN rs : rs[j].left \subseteq payload.map[rs[j].path].versions
        BY DEF PlanInv
    <2> HIDE DEF rs, new
    <2>2. \A j \in DOMAIN rs : rs[j].path \in Paths
        <3>1. \A j \in DOMAIN rs : rs[j] \in Removal
            BY <1>1, ElementOfSeq
        <3>2. QED
            BY <3>1 DEF Removal
    <2>3. \A j \in DOMAIN rs : rs[j].left \subseteq payload'.map[rs[j].path].versions
        BY <2>1, <2>2
    <2>4. ASSUME NEW r \in Removal, r.path = p, r.left = left, new = Append(rs, r)
          PROVE  new[i].left \subseteq payload'.map[new[i].path].versions
        <3>1. new[i] = r \/ (i \in DOMAIN rs /\ new[i] = rs[i])
            BY <1>1, <1>6, <2>4, AppendProperties
        <3>2. r.left \subseteq payload'.map[r.path].versions
            BY <2>4
        <3>3. QED
            BY <2>3, <3>1, <3>2
    <2>5. QED
        BY <1>6, <2>3, <2>4 DEF new, rs
<1>7. ASSUME NEW s \in Services
      PROVE  MovedAway(payload'.services[s].refs, payload'.tasks[s], new)
    <2>1. MovedAway(payload.services[s].refs, payload.tasks[s], rs)
        BY DEF PlanInv
    <2>2. ASSUME NEW ref \in payload.services[s].refs, Planned(new, ref.id)
          PROVE  \E move \in payload'.tasks[s] : move.from = ref.id
        BY <1>2, <1>3, <2>1, <2>2 DEF MovedAway
    <2>3. ASSUME NEW move \in payload'.tasks[s]
          PROVE  ~Planned(new, move.id)
        <3>1. CASE move.id = target.id
            BY <1>2, <3>1
        <3>2. CASE move \in payload.tasks[s]
            <4>1. PICK q \in Paths : q \notin todo /\ MoveOf(payload, s, move, q)
                BY <3>2 DEF TasksApart
            <4>2. move.id \notin left
                BY <3>2, <4>1, PathsApart
            <4>3. QED
                BY <1>2, <2>1, <3>2, <4>2 DEF MovedAway
        <3>3. QED
            BY <1>3, <2>3, <3>1, <3>2
    <2>4. QED
        BY <2>2, <2>3 DEF MovedAway
<1> HIDE DEF new, rs
<1>8. QED
    BY <1>4, <1>5, <1>6, <1>7 DEF PlanInv, new, Ahead, Processing

\* Steps that leave the tasks, and go on with the updates or not at all.
LEMMA PlanFrame ==
    ASSUME PlanInv, SameQueue(payload, payload'),
           pc' \in Ahead => pc \in Ahead,
           pc' \in Processing => pc \in Processing,
           pc' \in {"apply", "remove", "cleanup"} => pc' = pc,
           pc' \in Updating \cup {"cleanup"} =>
                /\ payload'.services = payload.services
                /\ payload'.map = payload.map
                /\ payload'.removals = payload.removals
    PROVE  PlanInv'
<1>1. /\ InOrder(payload'.tasks, payload'.order) /\ payload'.offset <= Len(payload'.order)
      /\ pc' \in Ahead => payload'.order = <<>>
      /\ pc' \in Ahead \cup Processing => payload'.offset = 0
    BY DEF PlanInv, SameQueue
<1>2. pc' \in Processing => \A i \in DOMAIN payload'.removals :
            payload'.removals[i].left \subseteq payload'.map[payload'.removals[i].path].versions
    BY DEF PlanInv, Updating
<1>3. pc' \in Processing \cup {"apply"} => \A s \in Services :
            MovedAway(payload'.services[s].refs, payload'.tasks[s], payload'.removals)
    BY DEF PlanInv, SameQueue, Updating
<1>4. pc' = "apply" => \A k \in DOMAIN payload'.order : k <= payload'.offset =>
            Clear(payload'.services[payload'.order[k]].refs, payload'.removals)
    BY DEF PlanInv, SameQueue, Updating
<1>5. pc' \in {"remove", "cleanup"} => \A s \in Services :
            Clear(payload'.services[s].refs, payload'.removals)
    BY DEF PlanInv, Updating
<1>6. QED
    BY <1>1, <1>2, <1>3, <1>4, <1>5 DEF PlanInv

\* An error ends the processing, the updates or the removals, or repeats a step.
LEMMA PlanError ==
    ASSUME TypeOK, PlanInv, StepError(payload)
    PROVE  PlanInv'
<1>1. payload \in Payload /\ (payload' = payload \/ payload' = [payload EXCEPT !.result = NoResult])
    BY BoundsAssumption DEF StepError, TypeOK, RetriesOf
<1>2. /\ SameQueue(payload, payload') /\ payload'.services = payload.services
      /\ payload'.map = payload.map /\ payload'.removals = payload.removals
    BY <1>1 DEF SameQueue, Payload
<1>3. \/ pc' \in {"done", "failed", "relist_services"}
      \/ pc = "list_external" /\ pc' = "list_external"
      \/ pc = "apply" /\ pc' = "apply"
    BY BoundsAssumption DEF StepError, TypeOK, RetriesOf, StepStart, Go
<1>4. QED
    BY <1>2, <1>3, PlanFrame DEF Ahead, Processing

\* A new payload plans nothing.
LEMMA PlanForgotten ==
    ASSUME payload' = NewPayload, pc' \in {"idle", "list_services"}
    PROVE  PlanInv'
<1>1. /\ \A s \in Services : payload'.tasks[s] = {}
      /\ payload'.order = <<>> /\ payload'.offset = 0
    BY DEF NewPayload
<1>2. Len(<<>>) = 0 /\ 0 <= 0
    BY EmptySeq
<1>3. QED
    BY <1>1, <1>2 DEF PlanInv, InOrder, Ahead, Processing

LEMMA LoadPlan ==
    ASSUME TypeOK, KeepInv, PlanInv,
           StartSync \/ ListServices \/ ListSecretsOfSwarm \/ LoadExternalState
    PROVE  PlanInv'
<1>1. payload \in Payload
    BY DEF TypeOK
<1>2. CASE StartSync
    BY <1>2, PlanForgotten DEF StartSync, Go
<1>3. CASE ListServices \/ ListSecretsOfSwarm
    <2>1. SameQueue(payload, payload')
        BY <1>1, <1>3 DEF ListServices, ListSecretsOfSwarm, SameQueue, Payload
    <2>2. \/ pc \in Ahead /\ pc' \in Ahead
          \/ pc' \in {"remap_secrets", "plan_cleanup"}
        BY <1>3 DEF ListServices, ListSecretsOfSwarm, Go, Ahead
    <2>3. QED
        BY <2>1, <2>2, PlanFrame DEF Ahead, Processing, Updating
<1>4. CASE LoadExternalState
    <2>1. /\ pc = "list_external" /\ pc' = "process" /\ SameQueue(payload, payload')
          /\ payload'.removals = <<>>
        BY <1>1, <1>4 DEF LoadExternalState, Go, SameQueue, Payload, KeepInv, Ahead
    <2>2. /\ payload'.order = <<>> /\ payload'.offset = 0 /\ 0 <= Len(payload'.order)
          /\ InOrder(payload'.tasks, payload'.order)
        BY <2>1 DEF PlanInv, Ahead, SameQueue
    <2>3. \A s \in Services : payload'.tasks[s] = {}
        BY <2>2 DEF InOrder
    <2>4. \A s \in Services : MovedAway(payload'.services[s].refs, payload'.tasks[s], <<>>)
        BY <2>3 DEF MovedAway, Planned
    <2>5. QED
        BY <2>1, <2>2, <2>4 DEF PlanInv, Ahead, Processing
<1>5. QED
    BY <1>2, <1>3, <1>4

\* The same-version branch takes the versions besides the parent, and moves the
\* references to them to the parent.
LEMMA ProcessSameVersionPlan ==
    ASSUME TypeOK, TypeOK', Agreed, TasksApart, KeepInv, PlanInv,
           NEW p \in Paths, ProcessSameVersion(p)
    PROVE  PlanInv'
<1> DEFINE moved == [s \in Services |-> SameVersionRefs(s, p)]
           target == BackToParent(p)
<1>1. /\ payload \in Payload /\ pc = "process" /\ pc' = pc /\ p \in todo
      /\ payload.map[p].id # 0 /\ target.id = payload.map[p].id
    BY DEF TypeOK, ProcessSameVersion, SameVersion, IsMissing, BackToParent
<1>2. moved \in [Services -> SUBSET Nat]
    BY MovedType
<1>3. PICK queued \in Enqueued(payload, moved, target) : SameQueue(queued, payload')
    BY ProcessSameVersionEnqueues
<1>4. payload'.services = payload.services /\ SameQueue(payload, payload)
    BY <1>1, ProcessSameVersionQueues, EnqueuedKeeps DEF SameCore, SameQueue
<1>5. \A q \in Paths : payload'.map[q].versions = payload.map[q].versions
    BY ProcessSameVersionPlans
<1>6. ~Planned(payload.removals, target.id)
    <2>1. \A i \in DOMAIN payload.removals : payload.removals[i] \in Removal
        BY <1>1, ElementOfSeq DEF Payload
    <2>2. \A i \in DOMAIN payload.removals :
            /\ payload.removals[i].left \subseteq payload.map[payload.removals[i].path].versions
            /\ payload.removals[i].path # p
        BY <1>1 DEF PlanInv, KeepInv, NotYetProcessed, Processing
    <2>3. QED
        BY <1>1, <2>1, <2>2, PathsApart DEF Planned, Removal
<1>7. \A s \in Services : \A ref \in payload.services[s].refs :
            ref.id \in payload.map[p].versions \ {target.id} => ref.id \in moved[s]
    BY <1>1 DEF SameVersionRefs, UsesSecret
<1> HIDE DEF moved, target
<1>8. \E left : /\ left \subseteq payload.map[p].versions \ {target.id}
               /\ \/ payload'.removals = payload.removals /\ left = {}
                  \/ \E r \in Removal :
                        /\ r.path = p /\ r.left = left
                        /\ payload'.removals = Append(payload.removals, r)
    <2>1. CASE payload'.removals = payload.removals
        BY <2>1
    <2>2. CASE \E r \in Removal :
                /\ r.path = p
                /\ r.left = payload.map[p].versions \ {payload.map[p].id}
                /\ payload'.removals = Append(payload.removals, r)
        BY <1>1, <2>2
    <2>3. QED
        BY <2>1, <2>2, ProcessSameVersionPlans
<1>9. PICK left : /\ left \subseteq payload.map[p].versions \ {target.id}
                 /\ \/ payload'.removals = payload.removals /\ left = {}
                    \/ \E r \in Removal :
                        /\ r.path = p /\ r.left = left
                        /\ payload'.removals = Append(payload.removals, r)
    BY <1>8
<1>10. /\ pc \in Processing /\ pc' = "process" /\ target.id \notin left
       /\ left \subseteq payload.map[p].versions
       /\ \A s \in Services : \A ref \in payload.services[s].refs :
            ref.id \in left => ref.id \in moved[s]
    BY <1>1, <1>7, <1>9 DEF Processing
<1>11. QED
    BY <1>1, <1>2, <1>3, <1>4, <1>5, <1>6, <1>9, <1>10, PlanVisited

\* The branch of a changed secret takes all of them, and moves the references to
\* the new one.
LEMMA CreateUpdatedVersionPlan ==
    ASSUME TypeOK, TypeOK', Agreed, TasksApart, KeepInv, PlanInv, CreateUpdatedVersion
    PROVE  PlanInv'
<1> PICK f \in fetched :
        \/ /\ payload' \in UpdatePlanned(payload, f.path, f.data)
           /\ pc' = "process"
        \/ StepError(payload)
    BY DEF CreateUpdatedVersion, Go
<1> DEFINE p == f.path
           moved == [s \in Services |-> UpdatedRefs(s, p)]
           left  == payload.map[p].versions
           r     == [path |-> p, parent |-> payload.map[p].id, left |-> left]
<1>1. /\ payload \in Payload /\ nextId \in Nat /\ payload.removals \in Seq(Removal)
      /\ p \in Paths /\ f.data \in Nat /\ pc = "create_version" /\ p \in todo
      /\ r \in Removal
    BY DEF TypeOK, EngineTypeOK, Fetched, Payload, KeepInv, CreateUpdatedVersion,
           Removal, ExistingSecret
<1>2. CASE StepError(payload)
    BY <1>2, PlanError
<1>3. CASE payload' \in UpdatePlanned(payload, p, f.data) /\ pc' = "process"
    <2> HIDE DEF p
    <2>1. /\ payload'.services = payload.services
          /\ payload'.removals = Append(payload.removals, r)
          /\ payload'.map = [payload.map EXCEPT ![p].managed = TRUE]
        BY <1>1, <1>3, UpdatePlannedKeeps, ZenonT(60)
    <2>2. payload.map \in [Paths -> ExistingSecret]
        BY <1>1 DEF Payload
    <2>3. \A q \in Paths : payload'.map[q].versions = payload.map[q].versions
        BY <1>1, <2>1, <2>2, ManagedKeepsEntries DEF SameEntries
    <2>4. PICK planned \in Payload :
            /\ SameQueue(payload, planned)
            /\ \E queued \in Enqueued(planned, moved, NewVersion(p)) :
                    SameQueue(queued, payload')
        BY <1>1, <1>3, UpdatePlannedEnqueues
    <2>5. PICK queued \in Enqueued(planned, moved, NewVersion(p)) :
            SameQueue(queued, payload')
        BY <2>4
    <2>6. moved \in [Services -> SUBSET Nat]
        BY <1>1, MovedType
    <2>7. \A s \in Services : \A ref \in payload.services[s].refs :
            ref.id \in left => ref.id \in moved[s]
        BY DEF UpdatedRefs, UsesSecret
    <2>8. NewVersion(p).id = nextId /\ pc \in Processing
        BY <1>1 DEF NewVersion, Processing
    <2>9. nextId \notin left
        BY <1>1, AgreedFacts
    <2>10. ~Planned(payload.removals, nextId)
        BY <1>1 DEF KeepInv, OfItsPath, Planned
    <2>11. r.path = p /\ r.left = left
        OBVIOUS
    <2> HIDE DEF moved, r, left
    <2>12. left \subseteq payload.map[p].versions
        BY DEF left
    <2>13. QED
        BY <1>1, <1>3, <2>1, <2>3, <2>4, <2>5, <2>6, <2>7, <2>8, <2>9, <2>10, <2>11, <2>12,
           PlanVisited
<1>4. QED
    BY <1>2, <1>3

\* Rewriting leaves no reference to what is to be taken.
LEMMA RewrittenClear ==
    ASSUME payload \in Payload, NEW s \in Services, NEW rs,
           MovedAway(payload.services[s].refs, payload.tasks[s], rs)
    PROVE  Clear(Rewritten(s), rs)
<1>1. payload.services[s].refs \subseteq Ref
    BY DEF Payload, Service
<1>2. ASSUME NEW ref \in payload.services[s].refs, Moves(s, ref) = {}
      PROVE  ~Planned(rs, ref.id)
    BY <1>2 DEF Moves, MovedAway
<1>3. ASSUME NEW ref \in payload.services[s].refs, NEW move \in Moves(s, ref)
      PROVE  ~Planned(rs, [ref EXCEPT !.id = move.id, !.name = move.name].id)
    <2>1. [ref EXCEPT !.id = move.id, !.name = move.name].id = move.id
        BY <1>1 DEF Ref
    <2>2. move \in payload.tasks[s]
        BY DEF Moves
    <2>3. QED
        BY <2>1, <2>2 DEF MovedAway
<1>4. QED
    BY <1>2, <1>3 DEF Rewritten, Clear

LEMMA ApplyPlan ==
    ASSUME TypeOK, TypeOK', PlanInv, ApplyServiceUpdate
    PROVE  PlanInv'
<1> DEFINE s == payload.order[payload.offset + 1]
           refs == Rewritten(s)
           rewritten == [payload EXCEPT !.services[s].refs = refs]
           rs == payload.removals
<1>1. /\ payload \in Payload /\ payload.order \in Seq(Services) /\ payload.offset \in Nat
      /\ pc = "apply" /\ payload.offset < Len(payload.order)
      /\ DOMAIN payload.order = 1 .. Len(payload.order) /\ Len(payload.order) \in Nat
    BY DEF TypeOK, Payload, ApplyServiceUpdate
<1>2. s \in Services
    BY <1>1, ElementOfSeq
<1>3. \/ payload' = [rewritten EXCEPT !.offset = @ + 1] /\ pc' = pc
      \/ StepError(rewritten)
    BY DEF ApplyServiceUpdate
<1> HIDE DEF s, refs
<1>4. /\ rewritten.services = [payload.services EXCEPT ![s].refs = refs]
      /\ SameQueue(payload, rewritten) /\ rewritten.removals = rs
    BY <1>1 DEF SameQueue, Payload
<1>5. /\ payload'.services = [payload.services EXCEPT ![s].refs = refs]
      /\ payload'.tasks = payload.tasks /\ payload'.order = payload.order
      /\ payload'.removals = rs
      /\ \/ payload'.offset = payload.offset + 1 /\ pc' = "apply"
         \/ payload'.offset = payload.offset /\ pc' \in {"apply", "failed"}
    <2>1. CASE payload' = [rewritten EXCEPT !.offset = @ + 1] /\ pc' = pc
        BY <1>1, <1>4, <2>1 DEF SameQueue, Payload
    <2>2. CASE StepError(rewritten)
        <3>1. payload' = rewritten \/ payload' = [rewritten EXCEPT !.result = NoResult]
            BY <2>2 DEF StepError
        <3>2. pc' \in {"apply", "failed"}
            BY <1>1, <2>2 DEF StepError, StepStart, Go
        <3>3. QED
            BY <1>1, <1>4, <3>1, <3>2 DEF SameQueue, Payload
    <2>3. QED
        BY <1>3, <2>1, <2>2
<1> HIDE DEF rewritten, rs
<1>6. Clear(refs, rs)
    BY <1>1, <1>2, RewrittenClear DEF PlanInv, refs, rs
<1>7. /\ payload'.services[s].refs = refs
      /\ \A t \in Services : t # s => payload'.services[t].refs = payload.services[t].refs
    BY <1>1, <1>2, <1>5 DEF Payload, Service
<1>8. ASSUME NEW t \in Services
      PROVE  MovedAway(payload'.services[t].refs, payload'.tasks[t], rs)
    <2>1. MovedAway(payload.services[t].refs, payload.tasks[t], rs)
        BY <1>1 DEF PlanInv, rs
    <2>2. CASE t = s
        BY <1>5, <1>6, <1>7, <2>1, <2>2 DEF MovedAway, Clear
    <2>3. CASE t # s
        BY <1>5, <1>7, <2>1, <2>3
    <2>4. QED
        BY <2>2, <2>3
<1>9. ASSUME NEW k \in DOMAIN payload.order, k <= payload.offset + 1
      PROVE  Clear(payload'.services[payload.order[k]].refs, rs)
    <2>1. payload.order[k] \in Services
        BY <1>1, ElementOfSeq
    <2>2. CASE payload.order[k] = s
        BY <1>6, <1>7, <2>2
    <2>3. CASE payload.order[k] # s
        <3>1. k # payload.offset + 1 /\ k \in Nat
            BY <1>1, <2>3 DEF s
        <3>2. k <= payload.offset
            BY <1>1, <1>9, <3>1
        <3>3. QED
            BY <1>1, <1>7, <2>1, <2>3, <3>2 DEF PlanInv, rs
    <2>4. QED
        BY <2>2, <2>3
<1>10. /\ payload'.offset <= Len(payload'.order)
       /\ \A k \in DOMAIN payload.order : k <= payload'.offset => k <= payload.offset + 1
    BY <1>1, <1>5
<1>11. InOrder(payload'.tasks, payload'.order)
    BY <1>5 DEF PlanInv
<1>12. QED
    BY <1>5, <1>8, <1>9, <1>10, <1>11 DEF PlanInv, Ahead, Processing

\* What a service without tasks refers to is not to be taken; with all tasks done
\* this is so for each service.
LEMMA FinishPlan ==
    ASSUME TypeOK, PlanInv, FinishProcess \/ FinishApply
    PROVE  PlanInv'
<1>1. /\ payload \in Payload /\ payload' = payload /\ SameQueue(payload, payload')
      /\ payload.order \in Seq(Services) /\ Len(payload.order) \in Nat
    BY DEF TypeOK, Payload, FinishProcess, FinishApply, SameQueue
<1>2. CASE pc' = "apply"
    <2>1. pc = "process" /\ payload.offset = 0
        BY <1>2 DEF FinishProcess, FinishApply, Go, AfterApply, AfterRemove, AfterRestore,
                    PlanInv, Processing
    <2>2. \A k \in DOMAIN payload.order : ~(k <= payload.offset)
        BY <1>1, <2>1
    <2>3. QED
        BY <1>1, <1>2, <2>1, <2>2 DEF PlanInv, Ahead, Processing
<1>3. CASE pc' = "remove"
    <2>1. pc \in {"process", "apply"}
        BY DEF FinishProcess, FinishApply
    <2>2. ASSUME NEW s \in Services
          PROVE  Clear(payload.services[s].refs, payload.removals)
        <3>1. MovedAway(payload.services[s].refs, payload.tasks[s], payload.removals)
            BY <2>1 DEF PlanInv, Processing
        <3>2. CASE payload.tasks[s] = {}
            BY <3>1, <3>2 DEF MovedAway, Clear
        <3>3. CASE payload.tasks[s] # {}
            <4>1. PICK k \in DOMAIN payload.order : payload.order[k] = s
                BY <3>3 DEF PlanInv, InOrder
            <4>2. payload.order # <<>>
                BY <1>1, <4>1
            <4>3. pc = "apply" /\ payload.offset = Len(payload.order)
                BY <1>3, <2>1, <4>2 DEF FinishProcess, FinishApply, Go, AfterProcess
            <4>4. k <= payload.offset
                BY <1>1, <4>1, <4>3
            <4>5. QED
                BY <4>1, <4>3, <4>4 DEF PlanInv
        <3>4. QED
            BY <3>2, <3>3
    <2>3. QED
        BY <1>1, <1>3, <2>2 DEF PlanInv, Ahead, Processing
<1>4. CASE pc' \notin {"apply", "remove"}
    <2>1. pc' \notin Ahead \cup Updating \cup {"cleanup"}
        BY <1>4 DEF FinishProcess, FinishApply, Go, AfterProcess, AfterApply, AfterRemove,
                    AfterRestore, Ahead, Updating, Processing
    <2>2. QED
        BY <1>1, <2>1, PlanFrame DEF Updating
<1>5. QED
    BY <1>2, <1>3, <1>4

\* A removal crossed off takes less; an orphan is used by no service.
LEMMA RemovePlan ==
    ASSUME TypeOK, PlanInv, RemoveOldVersion \/ PlanCleanup
    PROVE  PlanInv'
<1>1. payload \in Payload
    BY DEF TypeOK
<1>2. CASE RemoveOldVersion
    <2>1. PICK id : \/ /\ pc' = pc
                       /\ \/ payload' = CrossedOff(payload, id)
                          \/ \E counter : payload' = Counted(CrossedOff(payload, id), counter)
                    \/ StepError(payload)
        BY <1>2 DEF RemoveOldVersion
    <2>2. pc \in {"remove", "cleanup"} /\ payload.removals # <<>>
        BY <1>2 DEF RemoveOldVersion
    <2>3. CASE pc' = pc /\ \/ payload' = CrossedOff(payload, id)
                           \/ \E counter : payload' = Counted(CrossedOff(payload, id), counter)
        <3>1. Within(CrossedOff(payload, id).removals, payload.removals)
            BY <1>1, <2>2, CrossedOffWithin
        <3>2. /\ SameQueue(payload, payload') /\ payload'.services = payload.services
              /\ payload'.removals = CrossedOff(payload, id).removals
            BY <1>1, <2>3 DEF SameQueue, CrossedOff, Counted, Payload
        <3>3. \A x : Planned(payload'.removals, x) => Planned(payload.removals, x)
            BY <3>1, <3>2 DEF Within, Planned
        <3>4. \A s \in Services : Clear(payload'.services[s].refs, payload'.removals)
            BY <2>2, <3>2, <3>3 DEF PlanInv, Clear
        <3>5. InOrder(payload'.tasks, payload'.order) /\ payload'.offset <= Len(payload'.order)
            BY <3>2 DEF PlanInv, SameQueue
        <3>6. pc' \notin Ahead \cup Processing \cup {"apply"}
            BY <2>2, <2>3 DEF Ahead, Processing
        <3>7. QED
            BY <3>4, <3>5, <3>6 DEF PlanInv
    <2>4. CASE StepError(payload)
        BY <2>4, PlanError
    <2>5. QED
        BY <2>1, <2>3, <2>4
<1>3. CASE PlanCleanup
    <2>1. PICK paths \in SetToSeqs(Orphans) :
            payload' = [payload EXCEPT !.removals =
                [i \in DOMAIN paths |-> [path   |-> paths[i],
                                         parent |-> payload.map[paths[i]].id,
                                         left   |-> payload.map[paths[i]].versions]]]
        BY <1>3 DEF PlanCleanup
    <2>2. \A i \in DOMAIN paths : paths[i] \in Orphans
        BY DEF SetToSeqs
    <2>3. /\ SameQueue(payload, payload') /\ payload'.services = payload.services
          /\ payload'.removals =
                [i \in DOMAIN paths |-> [path   |-> paths[i],
                                         parent |-> payload.map[paths[i]].id,
                                         left   |-> payload.map[paths[i]].versions]]
        BY <1>1, <2>1 DEF SameQueue, Payload
    <2>4. \A x : Planned(payload'.removals, x) =>
                \E q \in Orphans : x \in payload.map[q].versions
        BY <2>2, <2>3 DEF Planned
    <2>5. \A s \in Services : Clear(payload'.services[s].refs, payload'.removals)
        BY <2>3, <2>4 DEF Clear, Orphans, UsedPaths
    <2>6. InOrder(payload'.tasks, payload'.order) /\ payload'.offset <= Len(payload'.order)
        BY <2>3 DEF PlanInv, SameQueue
    <2>7. pc' = "cleanup"
        BY <1>3 DEF PlanCleanup, Go
    <2>8. QED
        BY <2>5, <2>6, <2>7 DEF PlanInv, Ahead, Processing
<1>4. QED
    BY <1>2, <1>3

\* The rest of the pipeline plans nothing.
LEMMA PipelinePlan ==
    ASSUME TypeOK, PlanInv,
           \/ \E p \in Paths : GetSecretPayload(p)
           \/ CreateMissingSecret \/ FinishRemove \/ RestoreParent \/ FinishRestore
           \/ Return \/ CallFails \/ Crash
    PROVE  PlanInv'
<1>1. payload \in Payload
    BY DEF TypeOK
<1>2. CASE Return \/ Crash
    BY <1>2, PlanForgotten DEF Return, Crash, Forget, Go
<1>3. CASE StepError(payload)
    BY <1>3, PlanError
<1>4. CASE CreateMissingSecret \/ RestoreParent
    <2>1. CASE /\ pc \in Processing /\ pc' \in Processing
               /\ payload' = Counted(payload, "created")
        <3>1. SameQueue(payload, payload')
            BY <1>1, <2>1 DEF SameQueue, Counted, Payload
        <3>2. QED
            BY <1>1, <2>1, <3>1, CountedKeeps, PlanFrame DEF Ahead, Processing
    <2>2. CASE pc' = "restore" /\ payload' = [payload EXCEPT !.restores = Tail(@)]
        <3>1. SameQueue(payload, payload')
            BY <1>1, <2>2 DEF SameQueue, Payload
        <3>2. QED
            BY <2>2, <3>1, PlanFrame DEF Ahead, Processing, Updating
    <2>3. QED
        BY <1>3, <1>4, <2>1, <2>2 DEF CreateMissingSecret, RestoreParent, Go, Processing
<1>5. CASE FinishRemove \/ FinishRestore
    <2>1. payload' = payload /\ pc' \notin Ahead \cup Updating \cup {"cleanup"}
        BY <1>5 DEF FinishRemove, FinishRestore, Go, AfterRemove, AfterRestore, Ahead,
                    Updating, Processing
    <2>2. QED
        BY <2>1, PlanFrame DEF SameQueue, Updating
<1>6. ASSUME NEW p \in Paths, GetSecretPayload(p)
      PROVE  PlanInv'
    <2>1. CASE /\ pc = "process" /\ pc' \in {"create_secret", "create_version"}
               /\ payload' = payload
        BY <2>1, PlanFrame DEF SameQueue, Ahead, Processing
    <2>2. QED
        BY <1>3, <1>6, <2>1 DEF GetSecretPayload, Go
<1>7. QED
    BY <1>2, <1>3, <1>4, <1>5, <1>6 DEF CallFails

LEMMA NextPlan ==
    ASSUME TypeOK, TypeOK', Agreed, TasksApart, KeepInv, PlanInv, [Next]_vars
    PROVE  PlanInv'
<1>1. CASE SyncStep
    BY <1>1, LoadPlan, ProcessSameVersionPlan, CreateUpdatedVersionPlan, ApplyPlan,
       FinishPlan, RemovePlan, PipelinePlan DEF SyncStep
<1>2. CASE CallFails \/ Crash
    BY <1>2, PipelinePlan
<1>3. CASE Environment \/ UNCHANGED vars
    <2>1. payload' = payload /\ pc' = pc
        BY <1>3 DEF Environment, WriteValue, DeleteValue, OperatorCreates, Deploy,
                    OperatorRemoves, syncVars, vars
    <2>2. QED
        BY <2>1, PlanFrame DEF SameQueue
<1>4. QED
    BY <1>1, <1>2, <1>3 DEF Next

LEMMA InitPlan == Init => PlanInv
<1>1. \A s \in Services : NewPayload.tasks[s] = {}
    BY DEF NewPayload
<1>2. NewPayload.order = <<>> /\ NewPayload.offset = 0 /\ Len(<<>>) = 0 /\ 0 <= 0
    BY EmptySeq DEF NewPayload
<1>3. QED
    BY <1>1, <1>2 DEF Init, PlanInv, InOrder, Ahead, Processing

\* As long as the payload's services are those that were read, and what comes
\* before the end of the updates.
Reading == Updating \cup {"map_secrets", "list_external", "remap_secrets",
                          "plan_cleanup", "cleanup"}

\* The services that were updated, and those that are still to be.
Written(s) ==
    /\ pc \in {"apply", "remove"}
    /\ \E k \in DOMAIN payload.order : k <= payload.offset /\ payload.order[k] = s

Waiting(s) ==
    /\ pc = "apply"
    /\ \E k \in DOMAIN payload.order : payload.offset < k /\ payload.order[k] = s

ReadVersion(s) == payload.services[s].version + (IF Written(s) THEN 1 ELSE 0)

\* A service has the references in the payload, unless somebody else has written
\* it, or they are being rewritten.
VersionInv ==
    pc \in Reading => \A s \in Services :
        /\ ReadVersion(s) <= services[s].version
        /\ ReadVersion(s) = services[s].version /\ ~Waiting(s)
                => services[s].refs = payload.services[s].refs

\* Each write of a service counts its version up.
LEMMA VersionsCountUp ==
    ASSUME TypeOK, [Next]_vars
    PROVE  \A s \in Services : \/ services'[s] = services[s]
                               \/ services[s].version < services'[s].version
<1>1. services \in [Services -> Service] /\ \A n \in Nat : n < n + 1
    BY DEF TypeOK, EngineTypeOK
<1>2. CASE UNCHANGED services
    BY <1>2
<1>3. ASSUME NEW s \in Services, NEW refs,
             services' = [services EXCEPT ![s] = [version |-> services[s].version + 1,
                                                  refs    |-> refs]]
      PROVE  \A t \in Services : \/ services'[t] = services[t]
                                 \/ services[t].version < services'[t].version
    <2>1. services[s].version \in Nat
        BY <1>1 DEF Service
    <2>2. services'[s].version = services[s].version + 1
        BY <1>1, <1>3
    <2>3. \A t \in Services : t # s => services'[t] = services[t]
        BY <1>1, <1>3
    <2>4. QED
        BY <1>1, <2>1, <2>2, <2>3
<1>4. ASSUME NEW s \in Services, NEW paths, Deploy(s, paths)
      PROVE  \A t \in Services : \/ services'[t] = services[t]
                                 \/ services[t].version < services'[t].version
    BY <1>3, <1>4 DEF Deploy
<1>5. CASE ApplyServiceUpdate
    <2> DEFINE s == payload.order[payload.offset + 1]
    <2>1. s \in Services
        <3>1. /\ payload.order \in Seq(Services) /\ payload.offset \in Nat
              /\ payload.offset < Len(payload.order)
              /\ DOMAIN payload.order = 1 .. Len(payload.order) /\ Len(payload.order) \in Nat
            BY <1>5 DEF TypeOK, Payload, ApplyServiceUpdate
        <3>2. QED
            BY <3>1, ElementOfSeq
    <2>2. \/ UNCHANGED services
          \/ UpdateService(s, payload.services[s].version, Rewritten(s))
        BY <1>5 DEF ApplyServiceUpdate, engineVars
    <2> HIDE DEF s
    <2>3. QED
        BY <1>2, <1>3, <2>1, <2>2 DEF UpdateService, UpdateAccepted
<1>6. QED
    BY <1>2, <1>4, <1>5 DEF Next, SyncStep, StartSync, ListServices, ListSecretsOfSwarm,
           LoadExternalState, ProcessSameVersion, GetSecretPayload, CreateMissingSecret,
           CreateUpdatedVersion, FinishProcess, FinishApply, RemoveOldVersion, FinishRemove,
           RestoreParent, FinishRestore, PlanCleanup, Return, CallFails, Crash, Environment,
           WriteValue, DeleteValue, OperatorCreates, OperatorRemoves, AddSecret,
           RemoveSecret, engineVars, vars

\* Steps that leave what was read and what was written.
LEMMA VersionFrame ==
    ASSUME TypeOK, TypeOK', VersionInv, [Next]_vars,
           pc' \in Reading =>
                /\ pc \in Reading
                /\ payload'.services = payload.services
                /\ \A s \in Services : /\ Written(s)' <=> Written(s)
                                       /\ Waiting(s) => Waiting(s)'
    PROVE  VersionInv'
<1> SUFFICES ASSUME pc' \in Reading, NEW s \in Services
             PROVE  /\ ReadVersion(s)' <= services'[s].version
                    /\ ReadVersion(s)' = services'[s].version /\ ~Waiting(s)'
                            => services'[s].refs = payload'.services[s].refs
    BY DEF VersionInv
<1>1. /\ services[s].version \in Nat /\ services'[s].version \in Nat
      /\ payload.services[s].version \in Nat
    BY DEF TypeOK, EngineTypeOK, Payload, Service
<1>2. ReadVersion(s)' = ReadVersion(s) /\ ReadVersion(s) \in Nat
    BY <1>1 DEF ReadVersion
<1>3. /\ ReadVersion(s) <= services[s].version
      /\ ReadVersion(s) = services[s].version /\ ~Waiting(s)
                => services[s].refs = payload.services[s].refs
    BY DEF VersionInv
<1>4. CASE services'[s] = services[s]
    BY <1>2, <1>3, <1>4
<1>5. CASE services[s].version < services'[s].version
    BY <1>1, <1>2, <1>3, <1>5
<1>6. QED
    BY <1>4, <1>5, VersionsCountUp

LEMMA ListServicesVersion ==
    ASSUME TypeOK, TypeOK', ListServices
    PROVE  VersionInv'
<1>1. /\ payload'.services = services /\ services' = services
      /\ pc' \in {"map_secrets", "remap_secrets"} /\ services \in [Services -> Service]
    BY DEF ListServices, TypeOK, EngineTypeOK, Payload, engineVars
<1>2. ASSUME NEW s \in Services
      PROVE  ReadVersion(s)' = services'[s].version /\ services'[s].version \in Nat
    <2>1. ~Written(s)'
        BY <1>1 DEF Written
    <2>2. ReadVersion(s)' = payload'.services[s].version + 0
        BY <2>1 DEF ReadVersion
    <2>3. services[s].version \in Nat
        BY <1>1 DEF Service
    <2>4. QED
        BY <1>1, <2>2, <2>3
<1>3. \A n \in Nat : n <= n
    OBVIOUS
<1>4. QED
    BY <1>1, <1>2, <1>3 DEF VersionInv

LEMMA ApplyVersion ==
    ASSUME TypeOK, TypeOK', VersionInv, ApplyServiceUpdate
    PROVE  VersionInv'
<1> DEFINE s == payload.order[payload.offset + 1]
           version == payload.services[s].version
           refs == Rewritten(s)
           rewritten == [payload EXCEPT !.services[s].refs = refs]
<1>1. /\ payload \in Payload /\ payload.order \in Seq(Services) /\ payload.offset \in Nat
      /\ pc = "apply" /\ payload.offset < Len(payload.order)
      /\ DOMAIN payload.order = 1 .. Len(payload.order) /\ Len(payload.order) \in Nat
    BY DEF TypeOK, Payload, ApplyServiceUpdate
<1>2. s \in Services /\ payload.offset + 1 \in DOMAIN payload.order
    BY <1>1, ElementOfSeq
<1>3. \/ /\ UpdateService(s, version, refs)
         /\ payload' = [rewritten EXCEPT !.offset = @ + 1] /\ pc' = pc
      \/ /\ UpdateService(s, version, refs) \/ UNCHANGED engineVars
         /\ StepError(rewritten)
    BY DEF ApplyServiceUpdate
<1> HIDE DEF s, refs
<1>4. /\ rewritten.services = [payload.services EXCEPT ![s].refs = refs]
      /\ rewritten.order = payload.order /\ rewritten.offset = payload.offset
    BY <1>1 DEF Payload
<1>5. StepError(rewritten) =>
        /\ payload'.services = rewritten.services
        /\ payload'.order = payload.order /\ payload'.offset = payload.offset
        /\ pc' \in {"apply", "failed"}
    <2> SUFFICES ASSUME StepError(rewritten)
                 PROVE  /\ payload'.services = rewritten.services
                        /\ payload'.order = payload.order
                        /\ payload'.offset = payload.offset
                        /\ pc' \in {"apply", "failed"}
        OBVIOUS
    <2>1. payload' = rewritten \/ payload' = [rewritten EXCEPT !.result = NoResult]
        BY DEF StepError
    <2>2. pc' \in {"apply", "failed"}
        BY <1>1 DEF StepError, StepStart, Go
    <2>3. QED
        BY <1>1, <1>4, <2>1, <2>2 DEF Payload
<1>6. payload' = [rewritten EXCEPT !.offset = @ + 1] =>
        /\ payload'.services = rewritten.services
        /\ payload'.order = payload.order /\ payload'.offset = payload.offset + 1
    BY <1>1, <1>4 DEF Payload
<1> HIDE DEF rewritten
<1>7. /\ payload'.services = [payload.services EXCEPT ![s].refs = refs]
      /\ payload'.order = payload.order
      /\ \/ /\ UpdateService(s, version, refs)
            /\ payload'.offset = payload.offset + 1 /\ pc' = "apply"
         \/ /\ UpdateService(s, version, refs) \/ UNCHANGED engineVars
            /\ payload'.offset = payload.offset /\ pc' \in {"apply", "failed"}
    BY <1>1, <1>3, <1>4, <1>5, <1>6
<1>8. /\ payload'.services[s].refs = refs /\ payload'.services[s].version = version
      /\ \A t \in Services : t # s => payload'.services[t] = payload.services[t]
    BY <1>1, <1>2, <1>7 DEF Payload, Service
<1>9. /\ services \in [Services -> Service]
      /\ \A t \in Services : /\ payload.services[t].version \in Nat
                             /\ services[t].version \in Nat
    BY <1>1 DEF TypeOK, EngineTypeOK, Payload, Service
<1>10. /\ \A t \in Services : t # s => services'[t] = services[t]
       /\ UpdateService(s, version, refs) =>
            /\ services[s].version = version
            /\ services'[s].version = version + 1 /\ services'[s].refs = refs
       /\ UNCHANGED engineVars => services'[s] = services[s]
    BY <1>2, <1>7, <1>9 DEF UpdateService, UpdateAccepted, engineVars
<1>11. \A t \in Services : /\ ReadVersion(t) <= services[t].version
                           /\ ReadVersion(t) = services[t].version /\ ~Waiting(t)
                                => services[t].refs = payload.services[t].refs
    BY <1>1 DEF VersionInv, Reading, Updating
<1> SUFFICES ASSUME pc' = "apply", NEW t \in Services
             PROVE  /\ ReadVersion(t)' <= services'[t].version
                    /\ ReadVersion(t)' = services'[t].version /\ ~Waiting(t)'
                            => services'[t].refs = payload'.services[t].refs
    BY <1>7 DEF VersionInv, Reading, Updating, Processing
<1>12. CASE t # s
    <2>1. \A k \in DOMAIN payload.order : payload.order[k] = t =>
            /\ k <= payload'.offset <=> k <= payload.offset
            /\ payload.offset < k => payload'.offset < k
        <3> SUFFICES ASSUME NEW k \in DOMAIN payload.order, payload.order[k] = t
                     PROVE  /\ k <= payload'.offset <=> k <= payload.offset
                            /\ payload.offset < k => payload'.offset < k
            OBVIOUS
        <3>1. k # payload.offset + 1 /\ k \in Nat
            BY <1>1, <1>12 DEF s
        <3>2. QED
            BY <1>1, <1>7, <3>1
    <2>2. (Written(t)' <=> Written(t)) /\ (Waiting(t) => Waiting(t)')
        BY <1>1, <1>7, <2>1 DEF Written, Waiting
    <2>3. ReadVersion(t)' = ReadVersion(t)
        BY <1>8, <1>12, <2>2 DEF ReadVersion
    <2>4. QED
        BY <1>8, <1>10, <1>11, <1>12, <2>2, <2>3
<1>13. CASE t = s /\ payload'.offset = payload.offset + 1
    <2>1. UpdateService(s, version, refs)
        BY <1>1, <1>7, <1>13
    <2>2. Written(t)'
        <3>1. /\ payload.offset + 1 \in DOMAIN payload'.order
              /\ payload.offset + 1 <= payload'.offset
              /\ payload'.order[payload.offset + 1] = t
            BY <1>1, <1>2, <1>7, <1>13 DEF s
        <3>2. QED
            BY <3>1 DEF Written
    <2>3. ReadVersion(t)' = version + 1
        BY <1>8, <1>13, <2>2 DEF ReadVersion
    <2>4. version + 1 \in Nat /\ \A n \in Nat : n <= n
        BY <1>2, <1>9
    <2>5. QED
        BY <1>8, <1>10, <1>13, <2>1, <2>3, <2>4
<1>14. CASE t = s /\ payload'.offset = payload.offset
    <2>1. Waiting(t)'
        <3>1. /\ payload.offset + 1 \in DOMAIN payload'.order
              /\ payload'.offset < payload.offset + 1
              /\ payload'.order[payload.offset + 1] = t
            BY <1>1, <1>2, <1>7, <1>14 DEF s
        <3>2. QED
            BY <3>1 DEF Waiting
    <2>2. Written(t)' <=> Written(t)
        BY <1>1, <1>7, <1>14 DEF Written
    <2>3. ReadVersion(t)' = ReadVersion(t) /\ ReadVersion(t) \in Nat
        BY <1>8, <1>9, <1>14, <2>2 DEF ReadVersion
    <2>4. services'[t].version = services[t].version
            \/ services'[t].version = services[t].version + 1
        BY <1>7, <1>10, <1>14
    <2>5. ReadVersion(t) <= services[t].version /\ services[t].version \in Nat
        BY <1>9, <1>11
    <2>6. ReadVersion(t) <= services[t].version + 1
        BY <2>3, <2>5
    <2>7. QED
        BY <2>1, <2>3, <2>4, <2>5, <2>6
<1>15. QED
    BY <1>7, <1>12, <1>13, <1>14

\* In particular those before the updates, those after, and those that repeat.
LEMMA VersionQuiet ==
    ASSUME TypeOK, TypeOK', VersionInv, [Next]_vars,
           pc' \in Reading =>
                /\ pc \in Reading
                /\ payload'.services = payload.services
                /\ \/ pc \notin {"apply", "remove"} /\ pc' \notin {"apply", "remove"}
                   \/ pc' = pc /\ SameQueue(payload, payload')
    PROVE  VersionInv'
BY VersionFrame DEF Written, Waiting, SameQueue

LEMMA VersionError ==
    ASSUME TypeOK, TypeOK', VersionInv, [Next]_vars, pc # "apply", StepError(payload)
    PROVE  VersionInv'
<1>1. payload' = payload \/ payload' = [payload EXCEPT !.result = NoResult]
    BY DEF StepError
<1>2. payload \in Payload /\ payload'.services = payload.services
    BY <1>1 DEF TypeOK, Payload
<1>3. \/ pc' \in {"done", "failed", "relist_services"}
      \/ pc = "list_external" /\ pc' = "list_external"
    BY BoundsAssumption DEF StepError, TypeOK, RetriesOf, StepStart, Go
<1>4. QED
    BY <1>2, <1>3, VersionQuiet DEF Reading, Updating, Processing

\* No service is written before the updates, and none waits after them.
LEMMA FinishVersion ==
    ASSUME TypeOK, TypeOK', PlanInv, VersionInv, [Next]_vars, FinishProcess \/ FinishApply
    PROVE  VersionInv'
<1>1. /\ payload' = payload /\ payload.order \in Seq(Services)
      /\ Len(payload.order) \in Nat /\ DOMAIN payload.order = 1 .. Len(payload.order)
    BY DEF TypeOK, Payload, FinishProcess, FinishApply
<1>2. CASE FinishProcess
    <2>1. pc = "process" /\ payload.offset = 0
        BY <1>2 DEF FinishProcess, PlanInv, Processing
    <2>2. \A k \in DOMAIN payload.order : ~(k <= payload.offset)
        BY <1>1, <2>1
    <2>3. \A s \in Services : ~Written(s) /\ ~Written(s)' /\ ~Waiting(s)
        BY <1>1, <2>1, <2>2 DEF Written, Waiting
    <2>4. QED
        BY <1>1, <2>1, <2>3, VersionFrame DEF Reading, Updating, Processing
<1>3. CASE FinishApply
    <2>1. pc = "apply" /\ payload.offset = Len(payload.order)
        BY <1>3 DEF FinishApply
    <2>2. \A k \in DOMAIN payload.order : ~(payload.offset < k)
        BY <1>1, <2>1
    <2>3. pc' \in Reading => pc' = "remove"
        BY <1>3 DEF FinishApply, Go, AfterApply, AfterRemove, AfterRestore, Reading,
                    Updating, Processing
    <2>4. pc' \in Reading => \A s \in Services : (Written(s)' <=> Written(s)) /\ ~Waiting(s)
        BY <1>1, <2>1, <2>2, <2>3 DEF Written, Waiting
    <2>5. QED
        BY <1>1, <2>1, <2>4, VersionFrame DEF Reading, Updating
<1>4. QED
    BY <1>2, <1>3

LEMMA PipelineVersion ==
    ASSUME TypeOK, TypeOK', VersionInv, [Next]_vars,
           \/ StartSync \/ ListSecretsOfSwarm \/ LoadExternalState
           \/ \E p \in Paths : ProcessSameVersion(p) \/ GetSecretPayload(p)
           \/ CreateMissingSecret \/ CreateUpdatedVersion \/ RemoveOldVersion
           \/ FinishRemove \/ RestoreParent \/ FinishRestore \/ PlanCleanup
           \/ Return \/ CallFails \/ Crash
    PROVE  VersionInv'
<1>1. payload \in Payload
    BY DEF TypeOK
<1>2. CASE StartSync \/ Return \/ Crash \/ FinishRemove \/ RestoreParent \/ FinishRestore
    <2>1. \/ pc' \notin Reading
          \/ StepError(payload) /\ pc = "restore"
        BY <1>2 DEF StartSync, Return, Crash, FinishRemove, RestoreParent, FinishRestore, Go,
                    AfterRemove, AfterRestore, Reading, Updating, Processing
    <2>2. QED
        BY <2>1, VersionError DEF VersionInv
<1>3. CASE ListSecretsOfSwarm \/ LoadExternalState \/ PlanCleanup
    <2>1. payload'.services = payload.services
        BY <1>1, <1>3 DEF ListSecretsOfSwarm, LoadExternalState, PlanCleanup, Payload
    <2>2. /\ pc \in {"map_secrets", "remap_secrets", "list_external", "plan_cleanup"}
          /\ pc' \in {"list_external", "plan_cleanup", "process", "cleanup"}
        BY <1>3 DEF ListSecretsOfSwarm, LoadExternalState, PlanCleanup, Go
    <2>3. QED
        BY <2>1, <2>2, VersionQuiet DEF Reading
<1>4. ASSUME NEW p \in Paths, ProcessSameVersion(p)
      PROVE  VersionInv'
    <2>1. payload'.services = payload.services
        <3>1. PICK pl \in Enqueued(payload, [s \in Services |-> SameVersionRefs(s, p)],
                                   BackToParent(p)) : SameCore(pl, payload')
            BY <1>4, ProcessSameVersionQueues
        <3>2. QED
            BY <1>1, <3>1, EnqueuedKeeps DEF SameCore
    <2>2. pc = "process" /\ pc' = pc
        BY <1>4 DEF ProcessSameVersion
    <2>3. QED
        BY <2>1, <2>2, VersionQuiet
<1>5. ASSUME NEW p \in Paths, GetSecretPayload(p)
      PROVE  VersionInv'
    <2>1. pc = "process" /\ \/ StepError(payload)
                            \/ pc' \in {"create_secret", "create_version"} /\ payload' = payload
        BY <1>5 DEF GetSecretPayload, Go
    <2>2. QED
        BY <2>1, VersionQuiet, VersionError DEF Reading, Updating, Processing
<1>6. CASE CreateMissingSecret \/ CreateUpdatedVersion
    <2>1. PICK f \in fetched :
            \/ StepError(payload)
            \/ /\ pc' = "process"
               /\ \/ payload' = Counted(payload, "created")
                  \/ payload' \in UpdatePlanned(payload, f.path, f.data)
        BY <1>6 DEF CreateMissingSecret, CreateUpdatedVersion, Go
    <2>2. f.path \in Paths /\ f.data \in Nat /\ pc \in {"create_secret", "create_version"}
        BY <1>6 DEF TypeOK, Fetched, CreateMissingSecret, CreateUpdatedVersion
    <2>3. ASSUME payload' \in UpdatePlanned(payload, f.path, f.data)
          PROVE  payload'.services = payload.services
        BY <2>2, <2>3, UpdatePlannedKeeps, ZenonT(60)
    <2>4. CASE StepError(payload)
        BY <2>2, <2>4, VersionError
    <2>5. CASE pc' = "process" /\ payload'.services = payload.services
        BY <2>2, <2>5, VersionQuiet DEF Reading, Updating, Processing
    <2>6. QED
        BY <1>1, <2>1, <2>3, <2>4, <2>5, CountedKeeps
<1>7. CASE RemoveOldVersion
    <2>1. pc \in {"remove", "cleanup"} /\ payload.removals # <<>>
        BY <1>7 DEF RemoveOldVersion
    <2>2. CASE StepError(payload)
        BY <2>1, <2>2, VersionError
    <2>3. ASSUME pc' = pc, NEW id, \/ payload' = CrossedOff(payload, id)
                                   \/ \E counter : payload' = Counted(CrossedOff(payload, id), counter)
          PROVE  VersionInv'
        <3>1. SameQueue(payload, payload') /\ payload'.services = payload.services
            BY <1>1, <2>3 DEF SameQueue, CrossedOff, Counted, Payload
        <3>2. QED
            BY <2>1, <2>3, <3>1, VersionQuiet DEF Reading
    <2>4. QED
        BY <1>7, <2>2, <2>3 DEF RemoveOldVersion
<1>8. CASE CallFails
    BY <1>8, VersionError DEF CallFails, Calling
<1>9. QED
    BY <1>2, <1>3, <1>4, <1>5, <1>6, <1>7, <1>8

LEMMA NextVersion ==
    ASSUME TypeOK, TypeOK', PlanInv, VersionInv, [Next]_vars
    PROVE  VersionInv'
<1>1. CASE SyncStep
    BY <1>1, ListServicesVersion, ApplyVersion, FinishVersion, PipelineVersion DEF SyncStep
<1>2. CASE CallFails \/ Crash
    BY <1>2, PipelineVersion
<1>3. CASE Environment \/ UNCHANGED vars
    <2>1. payload' = payload /\ pc' = pc
        BY <1>3 DEF Environment, WriteValue, DeleteValue, OperatorCreates, Deploy,
                    OperatorRemoves, syncVars, vars
    <2>2. QED
        BY <2>1, VersionQuiet DEF SameQueue
<1>4. QED
    BY <1>1, <1>2, <1>3 DEF Next

\* A synchronization is refused a removal only by somebody who has written the
\* service since it was read: every reference it read to a secret that it takes
\* was moved before.
THEOREM OnlyOthersBlockRemovals == Spec => []RemovalBlockedByOthersOnly
<1> DEFINE Inv == RefsInv /\ TasksApart /\ KeepInv /\ PlanInv /\ VersionInv
<1>1. Init => Inv
    <2>1. Init => VersionInv
        BY DEF Init, VersionInv, Reading, Updating, Processing
    <2>2. QED
        BY <2>1, InitRefsInv, InitApart, InitKeep, InitPlan
<1>2. Inv /\ [Next]_vars => Inv'
    BY NextRefsInv, NextApart, NextKeep, NextPlan, NextVersion DEF RefsInv
<1>3. Inv => RemovalBlockedByOthersOnly
    <2> SUFFICES ASSUME Inv, pc \in {"remove", "cleanup"},
                        NEW i \in DOMAIN payload.removals, NEW id \in payload.removals[i].left,
                        NEW s \in Services, NEW ref \in services[s].refs, ref.id = id,
                        services[s].version = ExpectedVersion(s)
                 PROVE  FALSE
        BY DEF RemovalBlockedByOthersOnly
    <2>1. Clear(payload.services[s].refs, payload.removals) /\ Planned(payload.removals, ref.id)
        BY DEF PlanInv, Planned
    <2>2. ExpectedVersion(s) = ReadVersion(s)
        <3>1. /\ payload.order \in Seq(Services) /\ payload.offset \in Nat
              /\ payload.offset <= Len(payload.order) /\ Len(payload.order) \in Nat
              /\ DOMAIN payload.order = 1 .. Len(payload.order)
            BY DEF RefsInv, TypeOK, Payload, PlanInv
        <3>2. Written(s) <=>
                pc = "remove" /\ \E k \in 1 .. payload.offset : payload.order[k] = s
            BY <3>1 DEF Written
        <3>3. QED
            BY <3>2 DEF ExpectedVersion, ReadVersion
    <2>3. services[s].refs = payload.services[s].refs
        BY <2>2 DEF VersionInv, Reading, Updating, Waiting
    <2>4. QED
        BY <2>1, <2>3 DEF Clear
<1>4. QED
    BY <1>1, <1>2, <1>3, PTL DEF Spec

-----------------------------------------------------------------------------
(* A path that is in sync stays so.                                          *)

\* The only parent that was mapped is the one of the entry ...
OneMapped(ss, entry) ==
    \A x \in ss : x.parent /\ x.id \in entry.versions => x.id = entry.id

\* ... and no parent of the path is newer than what was mapped.
NotNewer(ss, entry, p) ==
    \A x \in ss : x.path = p /\ x.parent => x.label <= entry.latest

\* Of the parents only those with an older version than the listed one go.
Behind(ss, removals, listed) ==
    \A i \in DOMAIN removals : \A x \in ss :
        x.parent /\ x.id \in removals[i].left => x.label < listed[removals[i].path]

\* What was not listed and is in the manager now has a new version there.
Outdated(ss, listed, shown) ==
    \A x \in ss :
        listed[x.path] = 0 /\ shown[x.path].present => x.label < shown[x.path].ver

\* From the listing to the end of the removals.
Listed ==
    Updating \cup {"restore", "relist_services", "remap_secrets", "plan_cleanup", "cleanup"}

SyncedInv ==
    /\ \A p \in Paths : external[p].present => external[p].ver # 0
    /\ \A x, y \in secrets :
            x.path = y.path /\ x.parent /\ x.id < y.id => x.label <= y.label
    /\ \A p \in Paths : OneMapped(secrets, payload.map[p])
    /\ \A p \in Visited(pc, todo) : NotNewer(secrets, payload.map[p], p)
    /\ pc \in Updating => Behind(secrets, payload.removals, payload.listed)
    /\ pc \in Listed => Outdated(secrets, payload.listed, external)

\* A secret that is added carries the listed version, of a path that is not
\* visited again, or is a parent by hand where there was none.
Joins(x) ==
    /\ x.id = nextId
    /\ \/ x.label # 0 /\ x.label = payload.listed[x.path] /\ x.path \notin Visited(pc', todo')
       \/ x.label = 0 /\ x.parent /\ \A y \in secrets : y.path = x.path => ~y.parent

LEMMA SyncedFrame ==
    ASSUME TypeOK, TypeOK', Agreed, OrderInv, SyncedInv,
           \A x \in secrets' : x \in secrets \/ Joins(x),
           SameEntries(payload'.map, payload.map),
           payload'.listed = payload.listed,
           external' = external,
           pc' = "list_external" => pc = "list_external",
           pc' \in Processing => pc \in Processing /\ todo' \subseteq todo,
           pc' \in Listed => pc \in Listed,
           pc' \in Updating => Behind(secrets', payload'.removals, payload.listed)
    PROVE  SyncedInv'
<1>1. /\ nextId \in Nat /\ secrets \subseteq Secret /\ secrets' \subseteq Secret
      /\ \A x \in secrets : x.id < nextId
      /\ external \in [Paths -> External]
      /\ payload.map \in [Paths -> ExistingSecret] /\ todo' \subseteq Paths
      /\ payload.listed \in [Paths -> Nat]
    BY DEF TypeOK, EngineTypeOK, Payload, Listing
<1>2. \A x \in secrets' : x.path \in Paths /\ x.label \in Nat /\ x.id \in Nat
    BY <1>1 DEF Secret
<1>3. \A p \in Paths : /\ external[p].ver \in Nat /\ payload.map[p].latest \in Nat
                       /\ payload.listed[p] \in Nat
    BY <1>1 DEF External, ExistingSecret
<1>4. \A x, y \in secrets' :
            x.path = y.path /\ x.parent /\ x.id < y.id => x.label <= y.label
    <2> SUFFICES ASSUME NEW x \in secrets', NEW y \in secrets', x.path = y.path, x.parent,
                        x.id < y.id
                 PROVE  x.label <= y.label
        OBVIOUS
    <2>1. x \in secrets
        <3>1. y.id <= nextId
            BY <1>1, <1>2 DEF Joins
        <3>2. x.id # nextId
            BY <1>1, <1>2, <3>1
        <3>3. QED
            BY <3>2 DEF Joins
    <2>2. CASE y \in secrets
        BY <2>1, <2>2 DEF SyncedInv
    <2>3. CASE Joins(y)
        BY <2>1, <2>3 DEF OrderInv, Joins
    <2>4. QED
        BY <2>2, <2>3
<1>5. ASSUME NEW p \in Paths
      PROVE  OneMapped(secrets', payload'.map[p])
    <2>1. \A id \in payload.map[p].versions : id < nextId
        BY AgreedFacts
    <2>2. \A x \in secrets' : x.id \in payload.map[p].versions => x \in secrets
        BY <1>1, <1>2, <2>1 DEF Joins
    <2>3. QED
        BY <2>2 DEF SyncedInv, OneMapped, SameEntries
<1>6. ASSUME NEW p \in Visited(pc', todo')
      PROVE  NotNewer(secrets', payload'.map[p], p)
    <2>1. p \in Visited(pc, todo) /\ p \in Paths
        BY <1>1, <1>6 DEF Visited, Processing
    <2>2. \A x \in secrets' : x.path = p => x \in secrets \/ x.label = 0
        BY <1>6 DEF Joins
    <2>3. NotNewer(secrets, payload.map[p], p) /\ payload.map[p].latest \in Nat
        BY <1>3, <2>1 DEF SyncedInv
    <2>4. \A n \in Nat : 0 <= n
        OBVIOUS
    <2>5. NotNewer(secrets', payload.map[p], p)
        BY <2>2, <2>3, <2>4 DEF NotNewer
    <2>6. QED
        BY <2>1, <2>5 DEF SameEntries, NotNewer
<1>7. ASSUME pc' \in Listed
      PROVE  Outdated(secrets', payload.listed, external)
    <2> SUFFICES ASSUME NEW x \in secrets', payload.listed[x.path] = 0,
                        external[x.path].present
                 PROVE  x.label < external[x.path].ver
        BY DEF Outdated
    <2>1. CASE x \in secrets
        BY <1>7, <2>1 DEF SyncedInv, Outdated
    <2>2. CASE Joins(x)
        <3>1. x.label = 0 /\ x.path \in Paths /\ external[x.path].ver # 0
            BY <1>2, <2>2 DEF Joins, SyncedInv
        <3>2. QED
            BY <1>3, <3>1
    <2>3. QED
        BY <2>1, <2>2
<1>8. QED
    BY <1>4, <1>5, <1>6, <1>7 DEF SyncedInv

\* Removals stay so when they are crossed off.
LEMMA BehindFrame ==
    ASSUME TypeOK, TypeOK', KeepInv, NEW removals, Within(removals, payload.removals),
           Behind(secrets, payload.removals, payload.listed),
           \A x \in secrets' : x \in secrets \/ x.id = nextId
    PROVE  Behind(secrets', removals, payload.listed)
<1> SUFFICES ASSUME NEW i \in DOMAIN removals, NEW x \in secrets', x.parent,
                    x.id \in removals[i].left
             PROVE  x.label < payload.listed[removals[i].path]
    BY DEF Behind
<1>1. PICK j \in DOMAIN payload.removals :
            /\ removals[i].path = payload.removals[j].path
            /\ removals[i].left \subseteq payload.removals[j].left
    BY DEF Within
<1>2. x.id < nextId /\ nextId \in Nat
    BY <1>1 DEF KeepInv, OfItsPath, TypeOK, EngineTypeOK
<1>3. x \in secrets
    BY <1>2
<1>4. QED
    BY <1>1, <1>3 DEF Behind

LEMMA BehindAppend ==
    ASSUME NEW removals \in Seq(Removal), NEW r \in Removal, NEW ss, NEW listed,
           Behind(ss, removals, listed),
           \A x \in ss : x.parent /\ x.id \in r.left => x.label < listed[r.path]
    PROVE  Behind(ss, Append(removals, r), listed)
<1>1. /\ Len(removals) \in Nat /\ DOMAIN removals = 1 .. Len(removals)
      /\ DOMAIN Append(removals, r) = 1 .. Len(removals) + 1
      /\ Append(removals, r)[Len(removals) + 1] = r
      /\ \A i \in 1 .. Len(removals) : Append(removals, r)[i] = removals[i]
    BY AppendProperties
<1>2. \A i \in 1 .. Len(removals) + 1 :
            i = Len(removals) + 1 \/ i \in 1 .. Len(removals)
    BY <1>1
<1>3. QED
    BY <1>1, <1>2 DEF Behind

LEMMA SyncedError ==
    ASSUME TypeOK, TypeOK', Agreed, KeepInv, OrderInv, SyncedInv,
           NEW pl \in Payload, StepError(pl),
           pl.listed = payload.listed, pl.map = payload.map,
           pl.removals = payload.removals,
           \A x \in secrets' : \/ x \in secrets
                               \/ /\ x.id = nextId /\ x.label # 0
                                  /\ x.label = payload.listed[x.path],
           pc = "list_external" => secrets' \subseteq secrets,
           external' = external
    PROVE  SyncedInv'
<1>1. payload' = pl \/ payload' = [pl EXCEPT !.result = NoResult]
    BY BoundsAssumption DEF StepError, TypeOK, RetriesOf
<1>2. /\ payload'.listed = payload.listed /\ payload'.map = payload.map
      /\ payload'.removals = payload.removals
    BY <1>1 DEF Payload
<1>3. \/ pc' \in {"failed", "done"}
      \/ pc' = "relist_services" /\ pc \in {"relist_services", "remap_secrets"}
      \/ pc' = "apply" /\ pc = "apply"
      \/ pc = "list_external" /\ pc' = "list_external"
    BY BoundsAssumption DEF StepError, TypeOK, RetriesOf, StepStart, Go
<1>4. SameEntries(payload'.map, payload.map)
    BY <1>2 DEF SameEntries
<1>5. /\ pc' = "list_external" => pc = "list_external"
      /\ pc' \notin Processing
      /\ pc' \in Listed => pc \in Listed
      /\ pc' \in Updating => pc \in Updating
    BY <1>3 DEF Processing, Listed, Updating
<1>6. \A x \in secrets' : x \in secrets \/ Joins(x)
    <2>1. pc' # "list_external" => Visited(pc', todo') = {}
        BY <1>5 DEF Visited
    <2>2. QED
        BY <1>5, <2>1 DEF Joins
<1>7. pc' \in Updating => Behind(secrets', payload'.removals, payload.listed)
    <2>1. \A x \in secrets' : x \in secrets \/ x.id = nextId
        OBVIOUS
    <2>2. QED
        BY <1>2, <1>5, <2>1, BehindFrame, WithinItself DEF SyncedInv
<1>8. QED
    BY <1>2, <1>4, <1>5, <1>6, <1>7, SyncedFrame

LEMMA SyncedForgotten ==
    ASSUME SyncedInv, payload' = NewPayload, pc' \in {"idle", "list_services"},
           secrets' = secrets, external' = external
    PROVE  SyncedInv'
<1>1. \A p \in Paths : payload'.map[p].versions = {}
    BY DEF NewPayload, Unmapped
<1>2. Visited(pc', todo') = {} /\ pc' \notin Updating /\ pc' \notin Listed
    BY DEF Visited, Listed, Updating, Processing
<1>3. QED
    BY <1>1, <1>2 DEF SyncedInv, OneMapped

\* A path has at most one parent.
LEMMA OneParent ==
    ASSUME Agreed, NEW x \in secrets, NEW y \in secrets,
           x.parent, y.parent, x.path = y.path
    PROVE  x = y
<1>1. \A a, b \in secrets : NameOf(a) = NameOf(b) => a = b
    BY DEF Agreed, EngineAgrees
<1>2. QED
    BY <1>1 DEF NameOf

\* The youngest secret of a path is at least as new as its parent.
LEMMA MapSynced ==
    ASSUME TypeOK, Agreed, SyncedInv, NEW p \in Paths
    PROVE  OneMapped(secrets, MapSecrets[p]) /\ NotNewer(secrets, MapSecrets[p], p)
<1>1. secrets \subseteq Secret
    BY DEF TypeOK, EngineTypeOK
<1>2. CASE ParentsOf(p) = {}
    <2>1. MapSecrets[p].versions = {}
        BY <1>2 DEF MapSecrets, Unmapped
    <2>2. \A x \in secrets : x.path = p => ~x.parent
        BY <1>2 DEF ParentsOf, OfPath
    <2>3. QED
        BY <2>1, <2>2 DEF OneMapped, NotNewer
<1>3. CASE ParentsOf(p) # {}
    <2>1. /\ MapSecrets[p].id = (CHOOSE secret \in ParentsOf(p) : TRUE).id
          /\ MapSecrets[p].versions = {secret.id : secret \in OfPath(p)}
          /\ MapSecrets[p].latest = Latest(p).label
        BY <1>3 DEF MapSecrets
    <2>2. (CHOOSE secret \in ParentsOf(p) : TRUE) \in ParentsOf(p)
        BY <1>3
    <2>3. OfPath(p) # {}
        BY <1>3 DEF ParentsOf
    <2>4. /\ Latest(p) \in secrets /\ Latest(p).path = p
          /\ \A x \in secrets : x.path = p => x.id <= Latest(p).id
        BY <2>3, LatestExists DEF OfPath
    <2>5. ASSUME NEW x \in secrets, x.parent, x.id \in MapSecrets[p].versions
          PROVE  x.id = MapSecrets[p].id
        <3>1. PICK y \in secrets : y.path = p /\ y.id = x.id
            BY <2>1, <2>5 DEF OfPath
        <3>2. x.path = p
            BY <3>1, AgreedFacts
        <3>3. QED
            BY <2>1, <2>2, <2>5, <3>2, OneParent DEF ParentsOf, OfPath
    <2>6. ASSUME NEW x \in secrets, x.path = p, x.parent
          PROVE  x.label <= Latest(p).label
        <3>1. x.id \in Nat /\ Latest(p).id \in Nat /\ x.label \in Nat
            BY <1>1, <2>4 DEF Secret
        <3>2. CASE x.id = Latest(p).id
            <4>1. x = Latest(p)
                BY <2>4, <3>2, AgreedFacts
            <4>2. QED
                BY <3>1, <4>1
        <3>3. CASE x.id # Latest(p).id
            <4>1. x.id < Latest(p).id
                BY <2>4, <2>6, <3>1, <3>3
            <4>2. QED
                BY <2>4, <2>6, <4>1 DEF SyncedInv
        <3>4. QED
            BY <3>2, <3>3
    <2>7. QED
        BY <2>1, <2>5, <2>6 DEF OneMapped, NotNewer
<1>4. QED
    BY <1>2, <1>3

LEMMA ListSecretsSynced ==
    ASSUME TypeOK, Agreed, SyncedInv, ListSecretsOfSwarm
    PROVE  SyncedInv'
<1>1. /\ payload'.map = MapSecrets /\ payload'.listed = payload.listed
      /\ secrets' = secrets /\ external' = external
      /\ \/ pc' = "list_external"
         \/ pc' = "plan_cleanup" /\ pc = "remap_secrets"
    BY DEF ListSecretsOfSwarm, TypeOK, Payload, Go, engineVars
<1>2. /\ Visited(pc', todo') \subseteq Paths /\ pc' \notin Updating
      /\ pc' \in Listed => pc \in Listed
    BY <1>1 DEF Visited, Listed, Updating, Processing
<1>3. QED
    BY <1>1, <1>2, MapSynced DEF SyncedInv

LEMMA LoadExternalSynced ==
    ASSUME TypeOK, KeepInv, SyncedInv, LoadExternalState
    PROVE  SyncedInv'
<1>1. /\ payload'.listed = ListExternal /\ payload'.map = payload.map
      /\ payload'.removals = payload.removals /\ payload.removals = <<>>
      /\ pc = "list_external" /\ pc' = "process"
      /\ todo' = {p \in Paths : ListExternal[p] # 0}
      /\ secrets' = secrets /\ external' = external
    BY DEF LoadExternalState, TypeOK, Payload, Go, engineVars, KeepInv, Ahead
<1>2. Visited(pc', todo') \subseteq Visited(pc, todo)
    BY <1>1 DEF Visited, Processing
<1>3. Behind(secrets', payload'.removals, payload'.listed)
    BY <1>1 DEF Behind
<1>4. Outdated(secrets', payload'.listed, external')
    <2>1. \A x \in secrets : x.path \in Paths
        BY DEF TypeOK, EngineTypeOK, Secret
    <2>2. QED
        BY <1>1, <2>1 DEF Outdated, ListExternal, SyncedInv
<1>5. QED
    BY <1>1, <1>2, <1>3, <1>4 DEF SyncedInv

\* A path whose secret is created is not visited again; what was mapped of it
\* is older than what is listed, if it is to be updated.
LEMMA CreateSynced ==
    ASSUME TypeOK, TypeOK', Agreed, KeepInv, OrderInv, KnownInv, SyncedInv,
           CreateMissingSecret \/ CreateUpdatedVersion
    PROVE  SyncedInv'
<1>1. /\ payload \in Payload /\ pc \in {"create_secret", "create_version"}
      /\ external' = external
    BY DEF TypeOK, CreateMissingSecret, CreateUpdatedVersion
<1> DEFINE Created(f, secret) ==
            /\ secret \in {ParentSecret(f.path, payload.listed[f.path], f.data),
                           VersionSecret(f.path, payload.listed[f.path], f.data)}
            /\ \/ /\ AddSecret(secret)
                  /\ pc' = "process" /\ todo' = todo \ {f.path}
                  /\ \/ payload' = Counted(payload, "created")
                     \/ /\ payload' \in UpdatePlanned(payload, f.path, f.data)
                        /\ pc = "create_version"
               \/ StepError(payload) /\ (UNCHANGED engineVars \/ AddSecret(secret))
<1>0. PICK f \in fetched : \E secret : Created(f, secret)
    BY DEF CreateMissingSecret, CreateUpdatedVersion, Go
<1>2. PICK secret : Created(f, secret)
    BY <1>0
<1>3. /\ f.path \in Paths /\ f.data \in Nat /\ f.path \in todo
      /\ payload.listed[f.path] # 0
    BY <1>1 DEF TypeOK, Fetched, KeepInv, OrderInv, Processing
<1>4. /\ secret.path = f.path /\ secret.id = nextId
      /\ secret.label # 0 /\ secret.label = payload.listed[f.path]
    BY <1>2, <1>3 DEF ParentSecret, VersionSecret
<1>5. AddSecret(secret) \/ UNCHANGED engineVars
        => \A x \in secrets' : x \in secrets \/ x = secret
    BY DEF AddSecret, engineVars
<1>6. CASE StepError(payload) /\ (UNCHANGED engineVars \/ AddSecret(secret))
    BY <1>1, <1>4, <1>5, <1>6, SyncedError
<1>7. CASE /\ AddSecret(secret) /\ pc' = "process" /\ todo' = todo \ {f.path}
           /\ \/ payload' = Counted(payload, "created")
              \/ /\ payload' \in UpdatePlanned(payload, f.path, f.data)
                 /\ pc = "create_version"
    <2>1. /\ pc \in Processing /\ pc' # "list_external" /\ pc \in Updating
          /\ pc \in Listed /\ f.path \notin Visited(pc', todo')
        BY <1>1, <1>7 DEF Visited, Processing, Updating, Listed
    <2>2. \A x \in secrets' : x \in secrets \/ x = secret
        BY <1>5, <1>7
    <2>3. Joins(secret)
        BY <1>4, <2>1 DEF Joins
    <2>4. Behind(secrets', payload.removals, payload.listed)
        BY <1>4, <2>1, <2>2, BehindFrame, WithinItself DEF SyncedInv
    <2>5. /\ payload'.listed = payload.listed /\ SameEntries(payload'.map, payload.map)
          /\ Behind(secrets', payload'.removals, payload.listed)
        <3>1. CASE payload' = Counted(payload, "created")
            BY <1>1, <2>4, <3>1, CountedKeeps DEF SameEntries
        <3>2. CASE /\ payload' \in UpdatePlanned(payload, f.path, f.data)
                   /\ pc = "create_version"
            <4> DEFINE r == [path |-> f.path, parent |-> payload.map[f.path].id,
                             left |-> payload.map[f.path].versions]
            <4>1. /\ payload'.listed = payload.listed
                  /\ payload'.map = [payload.map EXCEPT ![f.path].managed = TRUE]
                  /\ payload'.removals = Append(payload.removals, r)
                BY <1>3, <3>2, UpdatePlannedKeeps, ZenonT(60)
            <4>2. payload.map \in [Paths -> ExistingSecret]
                BY <1>1 DEF Payload
            <4>3. SameEntries(payload'.map, payload.map)
                BY <1>3, <4>1, <4>2, ManagedKeepsEntries
            <4>4. r \in Removal /\ payload.removals \in Seq(Removal)
                BY <1>1, <1>3, <4>2 DEF Removal, ExistingSecret, Payload
            <4>5. /\ payload.map[f.path].latest \in Nat /\ payload.listed[f.path] \in Nat
                  /\ payload.map[f.path].latest <= payload.listed[f.path]
                  /\ payload.map[f.path].latest # payload.listed[f.path]
                BY <1>1, <1>3, <2>1, <3>2, <4>2
                    DEF ExistingSecret, Payload, Listing, KnownInv, MapAsks
            <4>6. f.path \in Visited(pc, todo)
                BY <1>1, <1>3 DEF Visited, Processing
            <4>7. ASSUME NEW x \in secrets', x.parent, x.id \in r.left
                  PROVE  x.label < payload.listed[f.path]
                <5>1. x.id < nextId /\ nextId \in Nat
                    BY <1>3, <4>7, AgreedFacts DEF TypeOK, EngineTypeOK
                <5>2. x \in secrets
                    BY <1>4, <2>2, <5>1
                <5>3. x.path = f.path
                    BY <1>3, <4>7, <5>2, AgreedFacts
                <5>4. x.label \in Nat /\ x.label <= payload.map[f.path].latest
                    BY <4>6, <4>7, <5>2, <5>3
                        DEF SyncedInv, NotNewer, TypeOK, EngineTypeOK, Secret
                <5>5. QED
                    BY <4>5, <5>4
            <4>8. r.path = f.path
                OBVIOUS
            <4> HIDE DEF r
            <4>9. Behind(secrets', Append(payload.removals, r), payload.listed)
                BY <2>4, <4>4, <4>7, <4>8, BehindAppend
            <4>10. QED
                BY <4>1, <4>3, <4>9
        <3>3. QED
            BY <1>7, <3>1, <3>2
    <2>6. QED
        BY <1>1, <1>7, <2>1, <2>2, <2>3, <2>5, SyncedFrame
<1>8. QED
    BY <1>2, <1>6, <1>7

\* The rest of the pipeline.
LEMMA PipelineSynced ==
    ASSUME TypeOK, TypeOK', Agreed, KeepInv, OrderInv, SyncedInv,
           \/ StartSync \/ ListServices
           \/ \E p \in Paths : ProcessSameVersion(p) \/ GetSecretPayload(p)
           \/ FinishProcess \/ ApplyServiceUpdate \/ FinishApply
           \/ RemoveOldVersion \/ FinishRemove \/ RestoreParent \/ FinishRestore
           \/ PlanCleanup \/ Return \/ CallFails \/ Crash
    PROVE  SyncedInv'
<1>1. /\ payload \in Payload /\ SameEntries(payload.map, payload.map)
      /\ Within(payload.removals, payload.removals)
    BY WithinItself DEF TypeOK, SameEntries
<1>2. CASE StartSync \/ Return \/ Crash
    <2>1. /\ payload' = NewPayload /\ secrets' = secrets /\ external' = external
          /\ pc' \in {"idle", "list_services"}
        BY <1>2 DEF StartSync, Return, Crash, Forget, Go, engineVars
    <2>2. QED
        BY <2>1, SyncedForgotten
\* A step after which the rest of the removals is done, if any is.
<1>3. ASSUME secrets' \subseteq secrets, external' = external,
             payload'.listed = payload.listed, payload'.map = payload.map,
             pc' # "list_external",
             pc' \in Processing => pc \in Processing /\ todo' \subseteq todo,
             pc' \in Listed => pc \in Listed,
             pc' \in Updating => /\ pc \in Updating
                                 /\ Within(payload'.removals, payload.removals)
      PROVE  SyncedInv'
    <2>1. pc' \in Updating => Behind(secrets', payload'.removals, payload.listed)
        BY <1>3, BehindFrame DEF SyncedInv
    <2>2. QED
        BY <1>1, <1>3, <2>1, SyncedFrame
<1>4. CASE ListServices \/ PlanCleanup
    <2>1. /\ payload'.listed = payload.listed /\ payload'.map = payload.map
          /\ secrets' = secrets /\ external' = external
        BY <1>1, <1>4 DEF ListServices, PlanCleanup, Payload, engineVars
    <2>2. /\ pc' \notin Processing /\ pc' # "list_external" /\ pc' \notin Updating
          /\ pc' \in Listed => pc \in Listed
        BY <1>4 DEF ListServices, PlanCleanup, Go, Processing, Updating, Listed
    <2>3. QED
        BY <1>3, <2>1, <2>2
<1>5. CASE FinishProcess \/ FinishApply \/ FinishRemove \/ FinishRestore
    <2>1. payload' = payload /\ secrets' = secrets /\ external' = external
        BY <1>5 DEF FinishProcess, FinishApply, FinishRemove, FinishRestore, engineVars
    <2>2. /\ pc' \notin Processing /\ pc' # "list_external" /\ pc \in Listed
          /\ pc' \in Updating => pc \in Updating
        BY <1>5 DEF FinishProcess, FinishApply, FinishRemove, FinishRestore, Go,
                    AfterProcess, AfterApply, AfterRemove, AfterRestore, Processing,
                    Updating, Listed
    <2>3. QED
        BY <1>1, <1>3, <2>1, <2>2
<1>6. ASSUME NEW p \in Paths, ProcessSameVersion(p)
      PROVE  SyncedInv'
    <2>0. /\ payload'.listed = payload.listed /\ payload'.map = payload.map
        BY <1>6, ProcessSameVersionKeeps, ProcessSameVersionPlans
    <2>1. /\ payload'.listed = payload.listed /\ payload'.map = payload.map
          /\ secrets' = secrets /\ external' = external /\ pc' = pc /\ pc = "process"
          /\ todo' = todo \ {p}
        BY <1>6, <2>0 DEF ProcessSameVersion, engineVars
    <2>2. pc \in Processing /\ pc \in Updating /\ pc \in Listed
        BY <2>1 DEF Processing, Updating, Listed
    <2>3. CASE payload'.removals = payload.removals
        BY <1>1, <1>3, <2>1, <2>2, <2>3
    <2>4. ASSUME NEW r \in Removal, r.left = payload.map[p].versions \ {payload.map[p].id},
                 payload'.removals = Append(payload.removals, r)
          PROVE  SyncedInv'
        <3>1. Behind(secrets, payload.removals, payload.listed)
              /\ payload.removals \in Seq(Removal)
            BY <1>1, <2>2 DEF SyncedInv, Payload
        <3>2. \A x \in secrets : x.parent => x.id \notin r.left
            BY <2>4 DEF SyncedInv, OneMapped
        <3>3. Behind(secrets, Append(payload.removals, r), payload.listed)
            BY <3>1, <3>2, BehindAppend
        <3>4. QED
            BY <1>1, <2>1, <2>2, <2>4, <3>3, SyncedFrame
    <2>5. QED
        BY <1>6, <2>3, <2>4, ProcessSameVersionPlans
<1>7. ASSUME NEW p \in Paths, GetSecretPayload(p)
      PROVE  SyncedInv'
    <2>1. secrets' = secrets /\ external' = external /\ pc = "process"
        BY <1>7 DEF GetSecretPayload, engineVars
    <2>2. CASE /\ pc' = IF IsMissing(p) THEN "create_secret" ELSE "create_version"
               /\ payload' = payload /\ todo' = todo
        <3>1. pc \in Processing /\ pc \in Updating /\ pc \in Listed /\ pc' # "list_external"
            BY <2>1, <2>2 DEF Processing, Updating, Listed
        <3>2. QED
            BY <1>1, <1>3, <2>1, <2>2, <3>1
    <2>3. CASE StepError(payload)
        BY <1>1, <2>1, <2>3, SyncedError
    <2>4. QED
        BY <1>7, <2>2, <2>3 DEF GetSecretPayload, Go
<1>8. CASE ApplyServiceUpdate
    <2>1. /\ secrets' = secrets /\ external' = external /\ pc = "apply"
          /\ pc \in Updating /\ pc \in Listed /\ pc \notin Processing
        BY <1>8, ApplyKeeps DEF ApplyServiceUpdate, Updating, Listed, Processing
    <2>2. CASE /\ payload'.listed = payload.listed /\ payload'.map = payload.map
               /\ payload'.removals = payload.removals /\ pc' = pc
        BY <1>1, <1>3, <2>1, <2>2
    <2>3. ASSUME NEW pl \in Payload, StepError(pl), pl.listed = payload.listed,
                 pl.map = payload.map, pl.removals = payload.removals
          PROVE  SyncedInv'
        BY <2>1, <2>3, SyncedError
    <2>4. QED
        BY <1>8, <2>2, <2>3, ApplyKeeps
<1>9. CASE RemoveOldVersion
    <2>1. /\ secrets' \subseteq secrets /\ external' = external
          /\ pc \in {"remove", "cleanup"} /\ payload.removals # <<>>
        BY <1>9, RemoveKeeps DEF RemoveOldVersion
    <2>2. PICK id :
            \/ /\ pc' = pc
               /\ \/ \E counter : payload' = Counted(CrossedOff(payload, id), counter)
                  \/ payload' = CrossedOff(payload, id)
            \/ StepError(payload)
        BY <1>9 DEF RemoveOldVersion
    <2>3. CASE /\ pc' = pc
               /\ \/ \E counter : payload' = Counted(CrossedOff(payload, id), counter)
                  \/ payload' = CrossedOff(payload, id)
        <3>1. CrossedOff(payload, id) \in Payload
            BY <1>1, <2>1, CrossedOffType
        <3>2. /\ payload'.map = payload.map /\ payload'.listed = payload.listed
              /\ payload'.removals = CrossedOff(payload, id).removals
            BY <1>1, <2>1, <2>3, <3>1, CrossedOffWithin, CountedKeeps
        <3>3. Within(payload'.removals, payload.removals)
            BY <1>1, <2>1, <3>2, CrossedOffWithin
        <3>4. pc' \notin Processing /\ pc' # "list_external" /\ pc \in Listed
            BY <2>1, <2>3 DEF Processing, Listed, Updating
        <3>5. QED
            BY <1>3, <2>1, <2>3, <3>2, <3>3, <3>4
    <2>4. CASE StepError(payload)
        BY <1>1, <2>1, <2>4, SyncedError
    <2>5. QED
        BY <2>2, <2>3, <2>4
<1>10. CASE RestoreParent
    <2> DEFINE restore == Head(payload.restores)
               secret  == ParentSecret(restore.path, restore.label, restore.data)
    <2>1. /\ external' = external /\ pc = "restore"
          /\ \A x \in secrets' : x \in secrets \/ x = secret
        BY <1>10 DEF RestoreParent, AddSecret, engineVars
    <2>2. restore.label # 0 /\ restore.label = payload.listed[restore.path]
        <3>1. payload.restores \in Seq(Restore) /\ payload.restores # <<>>
            BY <1>1, <1>10 DEF RestoreParent, Payload
        <3>2. restore = payload.restores[1] /\ 1 \in DOMAIN payload.restores
            BY <3>1, HeadTailProperties, EmptySeq
        <3>3. QED
            BY <3>2 DEF OrderInv, RestoresListed
    <2>3. /\ secret.id = nextId /\ secret.label # 0
          /\ secret.label = payload.listed[secret.path]
        BY <2>2 DEF ParentSecret
    <2> HIDE DEF secret, restore
    <2>4. CASE payload' = [payload EXCEPT !.restores = Tail(@)] /\ pc' = pc
        <3>1. payload'.listed = payload.listed /\ payload'.map = payload.map
            BY <1>1, <2>4 DEF Payload
        <3>2. /\ Visited(pc', todo') = {} /\ pc' \notin Processing /\ pc' \notin Updating
              /\ pc \in Listed /\ pc' # "list_external"
            BY <2>1, <2>4 DEF Visited, Processing, Updating, Listed
        <3>3. \A x \in secrets' : x \in secrets \/ Joins(x)
            BY <2>1, <2>3, <3>2 DEF Joins
        <3>4. QED
            BY <1>1, <2>1, <2>4, <3>1, <3>2, <3>3, SyncedFrame
    <2>5. CASE StepError(payload)
        BY <1>1, <2>1, <2>3, <2>5, SyncedError
    <2>6. QED
        BY <1>10, <2>4, <2>5 DEF RestoreParent
<1>11. CASE CallFails
    BY <1>1, <1>11, SyncedError DEF CallFails, engineVars
<1>12. QED
    BY <1>2, <1>4, <1>5, <1>6, <1>7, <1>8, <1>9, <1>10, <1>11

\* A value that is written has a version that no secret carries yet.
LEMMA WriteSynced ==
    ASSUME TypeOK, ~VersionsRestart, OrderInv, SyncedInv,
           NEW p \in Paths, WriteValue(p) \/ DeleteValue(p)
    PROVE  SyncedInv'
<1>1. /\ secrets' = secrets /\ payload' = payload /\ pc' = pc /\ todo' = todo
      /\ external \in [Paths -> External]
      /\ \A q \in Paths : external[q].ver \in Nat
    BY DEF WriteValue, DeleteValue, syncVars, engineVars, TypeOK, External
<1>2. \A q \in Paths :
            \/ external'[q] = external[q]
            \/ ~external'[q].present
            \/ external'[q].ver = external[q].ver + 1
    <2>1. external[p] \in External
        BY <1>1
    <2>2. CASE WriteValue(p)
        BY <1>1, <2>2 DEF WriteValue
    <2>3. CASE DeleteValue(p)
        BY <1>1, <2>1, <2>3 DEF DeleteValue, External
    <2>4. QED
        BY <2>2, <2>3
<1>3. \A x \in secrets : /\ x.path \in Paths /\ x.label \in Nat
                         /\ x.label <= external[x.path].ver
    BY DEF TypeOK, EngineTypeOK, Secret, OrderInv
<1>4. \A q \in Paths : external'[q].present => external'[q].ver # 0
    <2>1. \A n \in Nat : n + 1 # 0
        OBVIOUS
    <2>2. QED
        BY <1>1, <1>2, <2>1 DEF SyncedInv
<1>5. pc' \in Listed => Outdated(secrets', payload'.listed, external')
    <2>1. \A m, n \in Nat : m <= n => m < n + 1
        OBVIOUS
    <2>2. QED
        BY <1>1, <1>2, <1>3, <2>1 DEF SyncedInv, Outdated
<1>6. QED
    BY <1>1, <1>4, <1>5 DEF SyncedInv

LEMMA EnvironmentSynced ==
    ASSUME TypeOK, TypeOK', Agreed, ~VersionsRestart, KeepInv, OrderInv, SyncedInv,
           Environment \/ UNCHANGED vars
    PROVE  SyncedInv'
<1>1. ASSUME secrets' \subseteq secrets, external' = external, UNCHANGED syncVars
      PROVE  SyncedInv'
    <2>1. /\ payload' = payload /\ pc' = pc /\ todo' = todo
          /\ SameEntries(payload'.map, payload.map)
        BY <1>1 DEF syncVars, SameEntries
    <2>2. pc' \in Updating => Behind(secrets', payload'.removals, payload.listed)
        BY <1>1, <2>1, BehindFrame, WithinItself DEF SyncedInv
    <2>3. QED
        BY <1>1, <2>1, <2>2, SyncedFrame
<1>2. ASSUME NEW p \in Paths, OperatorCreates(p)
      PROVE  SyncedInv'
    <2> DEFINE secret == [ParentSecret(p, 0, 0) EXCEPT !.managed = FALSE]
    <2>1. /\ secret.id = nextId /\ secret.label = 0 /\ secret.parent /\ secret.path = p
          /\ NameOf(secret) = p
        BY DEF ParentSecret, NameOf
    <2>2. AddSecret(secret) /\ external' = external /\ UNCHANGED syncVars
        BY <1>2 DEF OperatorCreates
    <2> HIDE DEF secret
    <2>3. \A y \in secrets : y.path = p => ~y.parent
        BY <2>1, <2>2 DEF AddSecret, NameTaken, NameOf
    <2>4. \A x \in secrets' : x \in secrets \/ Joins(x)
        BY <2>1, <2>2, <2>3 DEF AddSecret, Joins
    <2>5. /\ payload' = payload /\ pc' = pc /\ todo' = todo
          /\ SameEntries(payload'.map, payload.map)
        BY <2>2 DEF syncVars, SameEntries
    <2>6. pc' \in Updating => Behind(secrets', payload'.removals, payload.listed)
        BY <2>4, <2>5, BehindFrame, WithinItself DEF SyncedInv, Joins
    <2>7. QED
        BY <2>2, <2>4, <2>5, <2>6, SyncedFrame
<1>3. ASSUME NEW s \in Services, NEW paths \in SUBSET Paths, Deploy(s, paths)
      PROVE  SyncedInv'
    BY <1>1, <1>3 DEF Deploy
<1>4. ASSUME NEW id, OperatorRemoves(id)
      PROVE  SyncedInv'
    BY <1>1, <1>4 DEF OperatorRemoves, RemoveSecret
<1>5. CASE UNCHANGED vars
    BY <1>1, <1>5 DEF vars, engineVars
<1>6. QED
    BY <1>2, <1>3, <1>4, <1>5, WriteSynced DEF Environment

LEMMA InitSynced == Init => SyncedInv
<1> SUFFICES ASSUME Init
             PROVE  SyncedInv
    OBVIOUS
<1>1. /\ \A p \in Paths : payload.map[p].versions = {}
      /\ secrets = {} /\ pc = "idle"
      /\ \A p \in Paths : external[p].present => external[p].ver # 0
    BY DEF Init, NewPayload, Unmapped
<1>2. QED
    BY <1>1 DEF SyncedInv, OneMapped, Visited, Listed, Updating, Processing

LEMMA NextSynced ==
    TypeOK /\ TypeOK' /\ Agreed /\ KeepInv /\ ~VersionsRestart /\ NamesInv /\ SyncedInv
        /\ [Next]_vars => SyncedInv'
<1> SUFFICES ASSUME TypeOK, TypeOK', Agreed, KeepInv, ~VersionsRestart, NamesInv,
                    SyncedInv, [Next]_vars
             PROVE  SyncedInv'
    OBVIOUS
<1>1. OrderInv /\ KnownInv
    BY DEF NamesInv
<1>2. CASE ListSecretsOfSwarm \/ LoadExternalState
    BY <1>2, ListSecretsSynced, LoadExternalSynced
<1>3. CASE CreateMissingSecret \/ CreateUpdatedVersion
    BY <1>1, <1>3, CreateSynced
<1>4. CASE \/ StartSync \/ ListServices
           \/ \E p \in Paths : ProcessSameVersion(p) \/ GetSecretPayload(p)
           \/ FinishProcess \/ ApplyServiceUpdate \/ FinishApply
           \/ RemoveOldVersion \/ FinishRemove \/ RestoreParent \/ FinishRestore
           \/ PlanCleanup \/ Return \/ CallFails \/ Crash
    BY <1>1, <1>4, PipelineSynced
<1>5. CASE Environment \/ UNCHANGED vars
    BY <1>1, <1>5, EnvironmentSynced
<1>6. QED
    BY <1>2, <1>3, <1>4, <1>5 DEF Next, SyncStep

\* What is in sync is no secret that a synchronization takes ...
LEMMA SyncedNotTaken ==
    ASSUME RefsInv, KeepInv, OrderInv, SyncedInv, [Next]_vars,
           budget'.operator = budget.operator,
           NEW x \in secrets, x.parent, external[x.path].present,
           x.label = external[x.path].ver
    PROVE  x \in secrets'
<1> SUFFICES ASSUME x \notin secrets'
             PROVE  FALSE
    OBVIOUS
<1>1. PICK id : /\ RemoveOldVersion /\ x.id = id
                /\ id \in Head(payload.removals).left
    BY TakenByRemoval DEF RefsInv
<1>2. /\ payload.removals \in Seq(Removal) /\ payload.removals # <<>>
      /\ pc \in {"remove", "cleanup"}
    BY <1>1 DEF RefsInv, TypeOK, Payload, RemoveOldVersion
<1>3. Head(payload.removals) = payload.removals[1] /\ 1 \in DOMAIN payload.removals
    BY <1>2, HeadTailProperties, EmptySeq
<1>4. payload.removals[1].path = x.path
    BY <1>1, <1>3 DEF KeepInv, OfItsPath
<1>5. /\ x.path \in Paths /\ x.label \in Nat /\ payload.listed[x.path] \in Nat
      /\ external[x.path].ver \in Nat /\ payload.listed[x.path] <= external[x.path].ver
    BY DEF RefsInv, TypeOK, EngineTypeOK, Secret, Payload, Listing, External, OrderInv
<1>6. CASE pc = "remove"
    <2>1. x.label < payload.listed[x.path]
        BY <1>1, <1>3, <1>4, <1>6 DEF SyncedInv, Behind, Updating
    <2>2. QED
        BY <1>5, <2>1
<1>7. CASE pc = "cleanup"
    <2>1. payload.listed[x.path] = 0
        BY <1>3, <1>4, <1>7 DEF KeepInv, Orphans
    <2>2. x.label < external[x.path].ver
        BY <1>7, <2>1 DEF SyncedInv, Outdated, Listed
    <2>3. QED
        BY <1>5, <2>2
<1>8. QED
    BY <1>2, <1>6, <1>7

\* ... and nothing is created beside it.
LEMMA SyncedAlone ==
    ASSUME RefsInv, KeepInv, OrderInv, KnownInv, SyncedInv, [Next]_vars,
           NEW x \in secrets, x.parent, x.label = external[x.path].ver,
           NEW y \in secrets', y.path = x.path
    PROVE  y \in secrets
<1> SUFFICES ASSUME y \notin secrets
             PROVE  FALSE
    OBVIOUS
<1>1. NameTaken(y.path)
    BY DEF NameTaken, NameOf
<1>2. ~y.parent \/ NameOf(y) = y.path
    BY DEF NameOf
<1>3. ~(y.parent /\ AddSecret(y))
    BY <1>1, <1>2 DEF AddSecret
<1>4. ASSUME NEW p \in Paths, OperatorCreates(p)
      PROVE  FALSE
    <2> DEFINE secret == [ParentSecret(p, 0, 0) EXCEPT !.managed = FALSE]
    <2>1. AddSecret(secret)
        BY <1>4 DEF OperatorCreates
    <2>2. secret.parent
        BY DEF ParentSecret
    <2> HIDE DEF secret
    <2>3. y = secret
        BY <2>1 DEF AddSecret
    <2>4. QED
        BY <1>3, <2>1, <2>2, <2>3
<1>5. CASE CreateMissingSecret \/ RestoreParent
    <2>1. PICK secret : secret.parent /\ (AddSecret(secret) \/ UNCHANGED engineVars)
        BY <1>5 DEF CreateMissingSecret, RestoreParent, ParentSecret
    <2>2. AddSecret(secret) /\ y = secret
        BY <2>1 DEF AddSecret, engineVars
    <2>3. QED
        BY <1>3, <2>1, <2>2
<1>6. CASE CreateUpdatedVersion
    <2>1. PICK f \in fetched :
            LET secret == VersionSecret(f.path, payload.listed[f.path], f.data)
            IN AddSecret(secret) \/ UNCHANGED engineVars
        BY <1>6 DEF CreateUpdatedVersion
    <2>2. y.path = f.path
        BY <2>1 DEF AddSecret, VersionSecret, engineVars
    <2>3. pc = "create_version" /\ x.path = f.path /\ f.path \in todo /\ f.path \in Paths
        BY <1>6, <2>2 DEF CreateUpdatedVersion, KeepInv, RefsInv, TypeOK
    <2>4. f.path \in Visited(pc, todo) /\ pc \in Processing
        BY <2>3 DEF Visited, Processing
    <2>5. /\ payload.map[f.path].latest \in Nat /\ payload.listed[f.path] \in Nat
          /\ external[f.path].ver \in Nat
        BY <2>3 DEF RefsInv, TypeOK, Payload, Listing, ExistingSecret, External
    <2>6. /\ payload.map[f.path].latest <= payload.listed[f.path]
          /\ payload.map[f.path].latest # payload.listed[f.path]
          /\ payload.listed[f.path] <= external[f.path].ver
        BY <2>3, <2>4 DEF KnownInv, MapAsks, OrderInv
    <2>7. external[f.path].ver <= payload.map[f.path].latest
        BY <2>3, <2>4 DEF SyncedInv, NotNewer
    <2>8. QED
        BY <2>5, <2>6, <2>7
<1>7. CASE \/ StartSync \/ ListServices \/ ListSecretsOfSwarm \/ LoadExternalState
           \/ \E p \in Paths : ProcessSameVersion(p) \/ GetSecretPayload(p)
           \/ FinishProcess \/ FinishApply \/ FinishRemove \/ FinishRestore \/ PlanCleanup
           \/ Return \/ CallFails \/ Crash
    BY <1>7 DEF StartSync, ListServices, ListSecretsOfSwarm, LoadExternalState,
           ProcessSameVersion, GetSecretPayload, FinishProcess, FinishApply, FinishRemove,
           FinishRestore, PlanCleanup, Return, CallFails, Crash, engineVars
<1>8. CASE ApplyServiceUpdate \/ RemoveOldVersion
    BY <1>8, ApplyKeeps, RemoveKeeps DEF RefsInv
<1>9. CASE Environment \/ UNCHANGED vars
    <2>1. \/ \E p \in Paths : OperatorCreates(p)
          \/ secrets' \subseteq secrets
        BY <1>9 DEF Environment, WriteValue, DeleteValue, Deploy, OperatorRemoves,
               RemoveSecret, vars, engineVars
    <2>2. QED
        BY <1>4, <2>1
<1>10. QED
    BY <1>5, <1>6, <1>7, <1>8, <1>9 DEF Next, SyncStep

\* Where the manager's version numbers never start again, what is in sync is left
\* alone: no step takes a path of the manager out of sync, whatever was listed,
\* mapped or planned before and whatever fails, except a write or a deletion in
\* the manager or an operator's hand.
THEOREM SyncedStaysSo == Spec => StaysInSync
<1> DEFINE Inv == RefsInv /\ KeepInv /\ (~VersionsRestart => NamesInv /\ SyncedInv)
           Stays == ~VersionsRestart =>
                \A p \in Paths :
                    external[p].present /\ InSync(p)
                        /\ UNCHANGED <<external[p], budget.operator>>
                            => InSync(p)'
<1>1. Init => Inv
    BY InitRefsInv, InitKeep, InitNames, InitSynced
<1>2. Inv /\ [Next]_vars => Inv'
    BY NextRefsInv, NextKeep, NextNames, NextSynced DEF RefsInv
<1>3. Inv => RefsConsistent
    BY ConsistentRefs
<1>4. Inv /\ RefsConsistent' /\ [Next]_vars => [Stays]_vars
    <2> SUFFICES ASSUME Inv, RefsConsistent', [Next]_vars, ~VersionsRestart, NEW p \in Paths,
                        external[p].present, InSync(p), external'[p] = external[p],
                        budget'.operator = budget.operator
                 PROVE  InSync(p)'
        OBVIOUS
    <2>1. OrderInv /\ KnownInv /\ SyncedInv
        BY DEF NamesInv
    <2>2. PICK x \in OfPath(p) : /\ OfPath(p) = {x} /\ x.parent
                                 /\ x.label = external[p].ver /\ x.data = external[p].val
        BY DEF InSync
    <2>3. x \in secrets /\ x.path = p
        BY <2>2 DEF OfPath
    <2>4. x \in secrets'
        BY <2>1, <2>2, <2>3, SyncedNotTaken
    <2>5. \A y \in secrets' : y.path = p => y \in secrets
        BY <2>1, <2>2, <2>3, SyncedAlone
    <2>6. \A y \in secrets' : y.path = p => y = x
        BY <2>2, <2>5 DEF OfPath
    <2>7. OfPath(p)' = {x}
        BY <2>3, <2>4, <2>6 DEF OfPath
    <2>8. \A s \in Services : \A ref \in services'[s].refs :
                ref.mount = p => ref.id = x.id
        BY <2>6 DEF RefsConsistent
    <2>9. QED
        BY <2>2, <2>7, <2>8 DEF InSync
<1>5. QED
    BY <1>1, <1>2, <1>3, <1>4, PTL DEF Spec, StaysInSync

=============================================================================
