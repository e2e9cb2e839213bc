---------------------------- MODULE CloudRuProofs ----------------------------
(***************************************************************************)
(* Where the paths of the Cloud.ru provider lead and which version a payload *)
(* is of, for every root folder, place, request and bound.                  *)
(*                                                                         *)
(* First what trimming and prefixes do to a path, then the way of a path    *)
(* through the root folder and back, then the version that a list shows.    *)
(* The invariant follows a listed secret, a payload and a created secret    *)
(* while others change the store.                                           *)
(***************************************************************************)
EXTENDS CloudRu, SequenceTheorems, WellFoundedInduction, TLAPS

-----------------------------------------------------------------------------
(* Numbers.                                                                  *)

\* A set of positions has a first and a last one.
LEMMA Extremes ==
    ASSUME NEW n \in Nat, NEW S \in SUBSET (1 .. n), S # {}
    PROVE  /\ Min(S) \in S /\ \A i \in S : Min(S) <= i
           /\ Max(S) \in S /\ \A i \in S : i <= Max(S)
<1>1. \E m \in S : \A i \in S : m <= i
  <2>1. S \subseteq Nat
    OBVIOUS
  <2>2. PICK m \in S : \A i \in S : ~(<<i, m>> \in OpToRel(<, Nat))
    BY <2>1, NatLessThanWellFounded, WFMin
  <2>3. \A i \in S : ~(i < m)
    BY <2>1, <2>2 DEF OpToRel
  <2>4. QED
    BY <2>1, <2>3
<1>2. \E m \in S : \A i \in S : i <= m
  <2> DEFINE T == {k \in Nat : \E i \in S : k = n - i}
  <2>1. \A i \in S : n - i \in T
    OBVIOUS
  <2>2. T \subseteq Nat /\ T # {}
    BY <2>1
  <2>3. PICK k \in T : \A j \in T : ~(<<j, k>> \in OpToRel(<, Nat))
    BY <2>2, NatLessThanWellFounded, WFMin
  <2>4. \A j \in T : ~(j < k)
    BY <2>2, <2>3 DEF OpToRel
  <2>5. PICK m \in S : k = n - m
    OBVIOUS
  <2>6. QED
    BY <2>1, <2>4, <2>5
<1>3. Min(S) \in S /\ \A i \in S : Min(S) <= i
  BY <1>1 DEF Min
<1>4. Max(S) \in S /\ \A i \in S : Max(S) >= i
  BY <1>2 DEF Max
<1>5. QED
  BY <1>3, <1>4

\* The last position of a larger set is not before that of a smaller one.
LEMMA MaxGrows ==
    ASSUME NEW n \in Nat, NEW S \in SUBSET (1 .. n), S # {},
           NEW T \in SUBSET (1 .. n), S \subseteq T
    PROVE  Max(S) <= Max(T)
  BY Extremes

-----------------------------------------------------------------------------
(* Paths.                                                                    *)

\* Trimming leaves a path, and leaves one alone that neither starts nor ends
\* with a slash.
LEMMA TrimFacts ==
    ASSUME NEW path \in Seq(STRING)
    PROVE  /\ Trim(path) \in Seq(STRING)
           /\ Trim(<<>>) = <<>>
           /\ path[1] # "" /\ path[Len(path)] # "" => Trim(path) = path
<1> DEFINE named == {i \in DOMAIN path : path[i] # ""}
<1>1. Len(path) \in Nat /\ named \subseteq 1 .. Len(path)
  BY LenProperties
<1>0. \A i \in 1 .. Len(path) : path[i] # "" => i \in named
  BY LenProperties
<1>2. named = {} => Trim(path) = <<>>
  BY DEF Trim
<1>3. named # {} => Trim(path) = SubSeq(path, Min(named), Max(named))
  BY DEF Trim
<1>4. Trim(<<>>) = <<>>
  BY DEF Trim
<1> HIDE DEF named
<1>5. CASE named = {}
  <2>1. path # <<>> => path[1] = ""
    <3>1. path # <<>> => Len(path) \in Nat \ {0}
      BY EmptySeq
    <3>2. path # <<>> => 1 \in 1 .. Len(path)
      BY <3>1
    <3>3. QED
      BY <1>0, <1>5, <3>2
  <2>2. QED
    BY <1>2, <1>4, <1>5, <2>1, EmptySeq
<1>6. CASE named # {}
  <2> DEFINE first == Min(named)
             last  == Max(named)
  <2>1. /\ first \in 1 .. Len(path) /\ last \in 1 .. Len(path)
        /\ \A i \in named : first <= i /\ i <= last
    BY <1>1, <1>6, Extremes
  <2>2. Trim(path) = SubSeq(path, first, last)
    BY <1>3, <1>6
  <2> HIDE DEF first, last
  <2>3. Trim(path) \in Seq(STRING)
    <3>1. \A i \in first .. last : i \in 1 .. Len(path)
      BY <1>1, <2>1
    <3>2. \A i \in first .. last : path[i] \in STRING
      BY <3>1, ElementOfSeq
    <3>3. first \in Int /\ last \in Int
      BY <2>1
    <3>4. QED
      BY <2>2, <3>2, <3>3, SubSeqProperties
  <2>4. ASSUME path[1] # "", path[Len(path)] # ""
        PROVE  Trim(path) = path
    <3>0. 1 \in 1 .. Len(path) /\ Len(path) \in 1 .. Len(path)
      BY <1>1, <2>1
    <3>1. 1 \in named /\ Len(path) \in named
      BY <1>0, <2>4, <3>0
    <3>2. first = 1 /\ last = Len(path)
      BY <1>1, <2>1, <3>1
    <3>3. QED
      BY <2>2, <3>2, SubSeqFull
  <2>5. QED
    BY <1>4, <2>3, <2>4
<1>7. QED
  BY <1>5, <1>6

\* A prefix has the segments that the path begins with.
LEMMA PrefixFacts ==
    ASSUME NEW s \in Seq(STRING), NEW t \in Seq(STRING)
    PROVE  IsPrefix(s, t) <=> /\ Len(s) <= Len(t)
                              /\ \A i \in 1 .. Len(s) : s[i] = t[i]
<1>1. Len(s) \in Nat /\ Len(t) \in Nat /\ SubSeq(s, 1, Len(s)) = s
  BY LenProperties, SubSeqFull
<1>2. ASSUME Len(s) <= Len(t)
      PROVE  SubSeq(t, 1, Len(s)) = s <=> \A i \in 1 .. Len(s) : s[i] = t[i]
  <2> DEFINE u == SubSeq(t, 1, Len(s))
  <2>1. \A i \in 1 .. Len(s) : t[i] \in STRING
    BY <1>1, <1>2, ElementOfSeq
  <2>2. /\ u \in Seq(STRING) /\ Len(u) = Len(s)
        /\ \A i \in 1 .. Len(s) : u[i] = t[i]
    BY <1>1, <2>1, SubSeqProperties
  <2> HIDE DEF u
  <2>3. (\A i \in 1 .. Len(s) : u[i] = s[i]) => u = s
    BY <2>2, SeqEqual
  <2>4. QED
    BY <2>2, <2>3 DEF u
<1>3. QED
  BY <1>1, <1>2 DEF IsPrefix

\* What is left of a path behind one of its strict prefixes.
Behind(s, t) == SubSeq(t, Len(s) + 1, Len(t))

LEMMA RestFacts ==
    ASSUME NEW s \in Seq(STRING), NEW t \in Seq(STRING), IsStrictPrefix(s, t),
           NEW rest, rest = Behind(s, t)
    PROVE  /\ rest \in Seq(STRING) /\ rest # <<>>
           /\ Len(s) < Len(t) /\ Len(rest) = Len(t) - Len(s)
           /\ \A i \in 1 .. Len(rest) : rest[i] = t[Len(s) + i]
           /\ s \o rest = t
<1>1. Len(s) \in Nat /\ Len(t) \in Nat
  BY LenProperties
<1>2. Len(s) <= Len(t) /\ \A i \in 1 .. Len(s) : s[i] = t[i]
  BY PrefixFacts DEF IsStrictPrefix
<1>3. Len(s) < Len(t)
  <2>1. CASE Len(s) = Len(t)
    <3>1. s = t
      BY <1>2, <2>1, SeqEqual
    <3>2. QED
      BY <3>1 DEF IsStrictPrefix
  <2>2. QED
    BY <1>1, <1>2, <2>1
<1>4. /\ rest \in Seq(STRING) /\ Len(rest) = Len(t) - Len(s)
      /\ \A i \in 1 .. Len(t) - Len(s) : rest[i] = t[Len(s) + i]
  <2>0. rest = SubSeq(t, Len(s) + 1, Len(t))
    BY DEF Behind
  <2>1. \A i \in Len(s) + 1 .. Len(t) : t[i] \in STRING
    BY <1>1, ElementOfSeq
  <2>2. /\ rest \in Seq(STRING)
        /\ Len(rest) = IF Len(s) + 1 <= Len(t) THEN Len(t) - (Len(s) + 1) + 1 ELSE 0
        /\ \A i \in 1 .. Len(t) - (Len(s) + 1) + 1 : rest[i] = t[Len(s) + 1 + i - 1]
    BY <1>1, <2>0, <2>1, SubSeqProperties
  <2>3. Len(rest) = Len(t) - Len(s)
    BY <1>1, <1>3, <2>2
  <2>4. ASSUME NEW i \in 1 .. Len(t) - Len(s)
        PROVE  rest[i] = t[Len(s) + i]
    <3>1. i \in 1 .. Len(t) - (Len(s) + 1) + 1 /\ Len(s) + 1 + i - 1 = Len(s) + i
      BY <1>1
    <3>2. rest[i] = t[Len(s) + 1 + i - 1]
      BY <2>2, <3>1
    <3>3. QED
      BY <3>1, <3>2
  <2>5. QED
    BY <2>2, <2>3, <2>4
<1>5. rest # <<>>
  <2>1. Len(rest) # 0
    BY <1>1, <1>3, <1>4
  <2>2. QED
    BY <2>1, EmptySeq
<1>6. s \o rest = t
  <2>1. /\ s \o rest \in Seq(STRING) /\ Len(s \o rest) = Len(s) + Len(rest)
        /\ \A i \in 1 .. Len(s) + Len(rest) :
               (s \o rest)[i] = IF i <= Len(s) THEN s[i] ELSE rest[i - Len(s)]
    BY <1>4, ConcatProperties
  <2>2. Len(s \o rest) = Len(t)
    BY <1>1, <1>4, <2>1
  <2>3. ASSUME NEW i \in 1 .. Len(t)
        PROVE  (s \o rest)[i] = t[i]
    <3>1. CASE i <= Len(s)
      BY <1>1, <1>2, <1>4, <2>1, <3>1
    <3>2. CASE i > Len(s)
      <4>1. i - Len(s) \in 1 .. Len(t) - Len(s) /\ Len(s) + (i - Len(s)) = i
        BY <1>1, <3>2
      <4>2. (s \o rest)[i] = rest[i - Len(s)]
        BY <1>1, <1>4, <2>1, <3>2
      <4>3. QED
        BY <1>4, <4>1, <4>2
    <3>3. i <= Len(s) \/ i > Len(s)
      BY <1>1
    <3>4. QED
      BY <3>1, <3>2, <3>3
  <2>4. QED
    BY <2>1, <2>2, <2>3, SeqEqual
<1>7. QED
  BY <1>3, <1>4, <1>5, <1>6

\* A path with something appended is one that begins with it.
LEMMA ConcatInside ==
    ASSUME NEW s \in Seq(STRING), NEW rest \in Seq(STRING), rest # <<>>
    PROVE  IsStrictPrefix(s, s \o rest)
<1>1. /\ s \o rest \in Seq(STRING) /\ Len(s \o rest) = Len(s) + Len(rest)
      /\ \A i \in 1 .. Len(s) + Len(rest) :
             (s \o rest)[i] = IF i <= Len(s) THEN s[i] ELSE rest[i - Len(s)]
  BY ConcatProperties
<1>2. Len(s) \in Nat /\ Len(rest) \in Nat \ {0}
  BY LenProperties, EmptySeq
<1>3. IsPrefix(s, s \o rest)
  <2>1. Len(s) <= Len(s \o rest) /\ \A i \in 1 .. Len(s) : s[i] = (s \o rest)[i]
    BY <1>1, <1>2
  <2>2. QED
    BY <1>1, <2>1, PrefixFacts
<1>4. s # s \o rest
  BY <1>1, <1>2
<1>5. QED
  BY <1>3, <1>4 DEF IsStrictPrefix

-----------------------------------------------------------------------------
(* The way through the root folder.                                          *)

Configured == Valid(config) /\ config \in [root : Roots, omit : BOOLEAN]

\* The root, the places and the requests are paths.
LEMMA RootFacts ==
    ASSUME Configured
    PROVE  /\ config.root \in Seq(STRING) /\ config.omit \in BOOLEAN
           /\ Len(config.root) \in Nat
           /\ config.root # <<>> => Scoped \/ ~config.omit
           /\ config.root = <<>> => ~Scoped
<1>1. config.root \in Roots /\ config.omit \in BOOLEAN
  BY DEF Configured
<1>2. config.root \in Seq(STRING)
  BY <1>1, CloudRuAssumption
<1>3. /\ config.root # <<>> => Scoped \/ ~config.omit
      /\ config.root = <<>> => ~Scoped
  BY DEF Scoped
<1>4. QED
  BY <1>1, <1>2, <1>3, LenProperties

LEMMA PlaceFacts ==
    ASSUME NEW place \in Places
    PROVE  /\ place \in Seq(STRING) /\ place # <<>> /\ Len(place) \in Nat \ {0}
           /\ \A i \in 1 .. Len(place) : place[i] # ""
           /\ Trim(place) = place
<1>1. place \in Seq(STRING) /\ place # <<>>
  BY CloudRuAssumption
<1>2. Len(place) \in Nat \ {0} /\ DOMAIN place = 1 .. Len(place)
  BY <1>1, EmptySeq, LenProperties
<1>3. \A i \in 1 .. Len(place) : place[i] # ""
  BY <1>2, CloudRuAssumption
<1>4. 1 \in 1 .. Len(place) /\ Len(place) \in 1 .. Len(place)
  BY <1>2
<1>5. Trim(place) = place
  BY <1>1, <1>3, <1>4, TrimFacts
<1>6. QED
  BY <1>1, <1>2, <1>3, <1>5

\* The logical path of a place: what follows the root, or the place itself.
LEMMA ScopedPath ==
    ASSUME Configured, NEW place \in Places, NEW path \in scopeSecretPath(place)
    PROVE  /\ path \in Seq(STRING) /\ path # <<>> /\ Trim(path) = path
           /\ ~Scoped => path = place
           /\ Scoped => Inside(place) /\ config.root \o path = place
<1>1. place \in Seq(STRING) /\ place # <<>> /\ Trim(place) = place
  BY PlaceFacts
<1>2. CASE ~Scoped
  BY <1>1, <1>2 DEF scopeSecretPath
<1>3. CASE Scoped
  <2>1. Inside(place) /\ path = SubSeq(place, Len(config.root) + 1, Len(place))
    BY <1>1, <1>3 DEF scopeSecretPath
  <2>2. /\ path \in Seq(STRING) /\ path # <<>>
        /\ Len(path) = Len(place) - Len(config.root)
        /\ \A i \in 1 .. Len(path) : path[i] = place[Len(config.root) + i]
        /\ config.root \o path = place
    <3> DEFINE root == config.root
    <3>1. IsStrictPrefix(root, place) /\ root \in Seq(STRING)
      BY <2>1, RootFacts DEF Inside
    <3>2. path = Behind(root, place)
      BY <2>1 DEF Behind
    <3>3. place \in Seq(STRING)
      BY <1>1
    <3> HIDE DEF root
    <3>4. path \in Seq(STRING) /\ path # <<>> /\ root \o path = place
      BY <3>1, <3>2, <3>3, RestFacts
    <3>5. Len(path) = Len(place) - Len(root)
      BY <3>1, <3>2, <3>3, RestFacts
    <3>6. \A i \in 1 .. Len(path) : path[i] = place[Len(root) + i]
      BY <3>1, <3>2, <3>3, RestFacts
    <3>7. QED
      BY <3>4, <3>5, <3>6 DEF root
  <2>3. Trim(path) = path
    <3>1. Len(path) \in Nat \ {0} /\ Len(place) \in Nat /\ Len(config.root) \in Nat
      BY <1>1, <2>2, RootFacts, EmptySeq, LenProperties
    <3>2. 1 \in 1 .. Len(path) /\ Len(path) \in 1 .. Len(path)
      BY <3>1
    <3>3. \A i \in 1 .. Len(path) : Len(config.root) + i \in 1 .. Len(place)
      BY <2>2, <3>1
    <3>4. \A i \in 1 .. Len(path) : path[i] # ""
      BY <2>2, <3>3, PlaceFacts
    <3>5. QED
      BY <2>2, <3>2, <3>4, TrimFacts
  <2>4. QED
    BY <1>3, <2>1, <2>2, <2>3
<1>4. QED
  BY <1>2, <1>3

\* Two places have different logical paths.
LEMMA PathsApart ==
    ASSUME Configured, NEW p \in Places, NEW q \in Places,
           NEW path \in scopeSecretPath(p), path \in scopeSecretPath(q)
    PROVE  p = q
<1>1. CASE Scoped
  <2>1. config.root \o path = p /\ config.root \o path = q
    BY <1>1, ScopedPath
  <2>2. QED
    BY <2>1
<1>2. CASE ~Scoped
  BY <1>2, ScopedPath
<1>3. QED
  BY <1>1, <1>2

\* A logical path leads back to its place, unless it starts with the root.
LEMMA ThereAndBack ==
    ASSUME Configured, NEW place \in Places, NEW path \in scopeSecretPath(place),
           ~Ambiguous(path)
    PROVE  resolveSecretPath(path) = place
<1>1. CASE ~Scoped
  BY <1>1, ScopedPath DEF resolveSecretPath
<1>2. CASE Scoped
  <2>1. path \in Seq(STRING) /\ Trim(path) = path /\ config.root \o path = place
    BY <1>2, ScopedPath
  <2>2. ~IsPrefix(config.root, path)
    BY <1>2 DEF Ambiguous
  <2>3. ~Inside(path)
    BY <2>2 DEF Inside, IsStrictPrefix
  <2>4. path # config.root
    <3>1. Len(config.root) <= Len(config.root)
      BY RootFacts
    <3>2. IsPrefix(config.root, config.root)
      BY <3>1, Zenon DEF IsPrefix
    <3>3. QED
      BY <2>2, <3>2
  <2>5. QED
    BY <1>2, <2>1, <2>3, <2>4 DEF resolveSecretPath
<1>3. QED
  BY <1>1, <1>2

\* Create puts a secret strictly below the root, at a path whose own segments
\* name something, and answers with the path it is listed under.
LEMMA CreateTarget ==
    ASSUME Configured, NEW request \in Seq(STRING),
           NEW target \in createSecretPath(request)
    PROVE  /\ Inside(target.full)
           /\ \A i \in DOMAIN target.full :
                  i > Len(config.root) => target.full[i] \notin {"", ".", ".."}
           /\ target.path \in scopeSecretPath(target.full)
           /\ target.full = resolveSecretPath(Trim(request))
<1> DEFINE normalized == Trim(request)
           full == resolveSecretPath(normalized)
           Named(path) == \A i \in DOMAIN path :
               i > Len(config.root) => path[i] \notin {"", ".", ".."}
<1>1. /\ normalized # <<>> /\ Allowed(normalized)
      /\ \A i \in DOMAIN normalized : normalized[i] \notin {"", ".", ".."}
  BY DEF createSecretPath
<1>2. PICK path \in scopeSecretPath(full) : target = [path |-> path, full |-> full]
  BY <1>1 DEF createSecretPath
<1>3. normalized \in Seq(STRING)
  BY TrimFacts
<1> HIDE DEF normalized
<1>4. /\ Len(normalized) \in Nat \ {0} /\ DOMAIN normalized = 1 .. Len(normalized)
      /\ 1 \in 1 .. Len(normalized) /\ Len(normalized) \in 1 .. Len(normalized)
  <2>1. Len(normalized) \in Nat \ {0} /\ DOMAIN normalized = 1 .. Len(normalized)
    BY <1>1, <1>3, EmptySeq, LenProperties
  <2>2. QED
    BY <2>1
<1>5. Trim(normalized) = normalized
  <2>1. normalized[1] # "" /\ normalized[Len(normalized)] # ""
    BY <1>1, <1>4
  <2>2. QED
    BY <1>3, <2>1, TrimFacts
<1>6. Inside(full) /\ Named(full)
  <2>1. CASE ~Scoped
    <3>1. full = normalized
      BY <2>1 DEF resolveSecretPath
    <3>2. CASE config.root = <<>>
      <4>1. <<>> \o normalized = normalized /\ <<>> \in Seq(STRING)
        BY <1>3, ConcatEmptySeq, EmptySeq
      <4>2. IsStrictPrefix(<<>>, <<>> \o normalized)
        BY <1>1, <1>3, <4>1, ConcatInside
      <4>3. Inside(normalized)
        BY <3>2, <4>1, <4>2 DEF Inside
      <4>4. QED
        BY <1>1, <3>1, <4>3
    <3>3. CASE config.root # <<>>
      <4>1. Inside(normalized)
        BY <1>1, <2>1, <3>3, RootFacts DEF Allowed
      <4>2. QED
        BY <1>1, <3>1, <4>1
    <3>4. QED
      BY <3>2, <3>3
  <2>2. CASE Scoped /\ Inside(normalized)
    <3>1. full = normalized
      BY <1>5, <2>2 DEF resolveSecretPath
    <3>2. QED
      BY <1>1, <2>2, <3>1
  <2>3. CASE Scoped /\ normalized = config.root
    <3>1. full = config.root
      BY <1>5, <2>3 DEF resolveSecretPath
    <3>2. Trim(config.root) = config.root
      BY <1>5, <2>3
    <3>3. ~Inside(config.root)
      BY DEF Inside, IsStrictPrefix
    <3>4. scopeSecretPath(full) = {}
      BY <2>3, <3>1, <3>2, <3>3 DEF scopeSecretPath
    <3>5. QED
      BY <1>2, <3>4
  <2>4. CASE Scoped /\ ~Inside(normalized) /\ normalized # config.root
    <3>1. full = config.root \o normalized
      BY <1>5, <2>4 DEF resolveSecretPath
    <3>2. Inside(full)
      BY <1>1, <1>3, <3>1, RootFacts, ConcatInside DEF Inside
    <3>3. Named(full)
      <4> HIDE DEF full
      <4>1. /\ full \in Seq(STRING) /\ Len(full) = Len(config.root) + Len(normalized)
            /\ \A i \in 1 .. Len(config.root) + Len(normalized) :
                   full[i] = IF i <= Len(config.root) THEN config.root[i]
                             ELSE normalized[i - Len(config.root)]
        BY <1>3, <3>1, RootFacts, ConcatProperties
      <4>2. DOMAIN full = 1 .. Len(full) /\ Len(config.root) \in Nat
        BY <4>1, RootFacts, LenProperties
      <4>3. ASSUME NEW i \in DOMAIN full, i > Len(config.root)
            PROVE  full[i] \notin {"", ".", ".."}
        <5>1. i - Len(config.root) \in 1 .. Len(normalized)
          BY <1>4, <4>1, <4>2, <4>3
        <5>2. full[i] = normalized[i - Len(config.root)]
          BY <1>4, <4>1, <4>2, <4>3
        <5>3. QED
          BY <1>1, <1>4, <5>1, <5>2
      <4>4. QED
        BY <4>3
    <3>4. QED
      BY <3>2, <3>3
  <2>5. QED
    BY <2>1, <2>2, <2>3, <2>4
<1>7. QED
  BY <1>2, <1>6 DEF normalized

-----------------------------------------------------------------------------
(* Versions.                                                                 *)

\* The version that a list shows is the one that a read is answered with.
LEMMA ShownIsAccessed ==
    ASSUME NEW place \in Places, store[place] \in Seq(BOOLEAN), Enabled(place) # {}
    PROVE  /\ secretLatestVersionID(place) = Accessed(place)
           /\ Accessed(place) \in Enabled(place) /\ Accessed(place) \in Nat
<1> DEFINE n == Len(store[place])
           m == Min(EnabledAt(place))
<1>1. n \in Nat /\ DOMAIN store[place] = 1 .. n
  BY LenProperties
<1>2. /\ Versions(place) = [i \in 1 .. n |-> n - i + 1]
      /\ DOMAIN Versions(place) = 1 .. n
  <2> DEFINE ids == [i \in DOMAIN store[place] |-> i]
  <2>1. ids \in Seq(Nat) /\ Len(ids) = n /\ \A i \in 1 .. n : ids[i] = i
    BY <1>1, LenProperties
  <2> HIDE DEF ids
  <2>2. \A i \in 1 .. n : n - i + 1 \in 1 .. n
    BY <1>1
  <2>3. [i \in 1 .. n |-> ids[n - i + 1]] = [i \in 1 .. n |-> n - i + 1]
    BY <2>1, <2>2
  <2>4. Versions(place) = [i \in 1 .. n |-> ids[n - i + 1]]
    BY <2>1 DEF Versions, Reverse, ids
  <2>5. QED
    BY <2>3, <2>4
<1>3. Enabled(place) \subseteq 1 .. n
  BY <1>1 DEF Enabled
<1>4. /\ Accessed(place) \in Enabled(place)
      /\ \A i \in Enabled(place) : i <= Accessed(place)
  BY <1>1, <1>3, Extremes DEF Accessed
<1>5. \A i \in 1 .. n : i \in EnabledAt(place) <=> n - i + 1 \in Enabled(place)
  <2>1. \A i \in 1 .. n : Versions(place)[i] = n - i + 1 /\ n - i + 1 \in 1 .. n
    BY <1>1, <1>2
  <2>2. QED
    BY <1>1, <1>2, <2>1 DEF EnabledAt, Enabled
<1>6. \A i \in Enabled(place) : n - i + 1 \in EnabledAt(place)
  <2>1. \A i \in 1 .. n : n - i + 1 \in 1 .. n /\ n - (n - i + 1) + 1 = i
    BY <1>1
  <2>2. QED
    BY <1>3, <1>5, <2>1
<1>7. m \in EnabledAt(place) /\ \A i \in EnabledAt(place) : m <= i
  <2>1. EnabledAt(place) \subseteq 1 .. n
    BY <1>2 DEF EnabledAt
  <2>2. EnabledAt(place) # {}
    BY <1>6
  <2>3. QED
    BY <1>1, <2>1, <2>2, Extremes
<1>8. m \in 1 .. n /\ n - m + 1 \in Enabled(place)
  BY <1>2, <1>5, <1>7 DEF EnabledAt
<1> HIDE DEF m
<1>9. n - m + 1 = Accessed(place)
  <2>1. m <= n - Accessed(place) + 1
    BY <1>4, <1>6, <1>7
  <2>2. n - m + 1 <= Accessed(place)
    BY <1>4, <1>8
  <2>3. Accessed(place) \in 1 .. n
    BY <1>3, <1>4
  <2>4. QED
    BY <1>1, <1>8, <2>1, <2>2, <2>3
<1>10. secretLatestVersionID(place) = n - m + 1
  BY <1>2, <1>8 DEF secretLatestVersionID, m
<1>11. QED
  BY <1>1, <1>3, <1>4, <1>9, <1>10

\* As long as no version is disabled or deleted, a read is answered with the
\* same version or a newer one.
LEMMA AccessGrows ==
    ASSUME NEW place \in Places,
           store[place] \in Seq(BOOLEAN), store'[place] \in Seq(BOOLEAN),
           Accessible(place), Enabled(place) \subseteq Enabled(place)'
    PROVE  Accessible(place)' /\ Accessed(place) <= Accessed(place)'
<1> DEFINE n == Len(store'[place])
<1>1. n \in Nat /\ DOMAIN store'[place] = 1 .. n
  BY LenProperties
<1>2. Enabled(place)' \subseteq 1 .. n
  BY <1>1 DEF Enabled
<1>3. Enabled(place) # {} /\ Enabled(place)' # {}
  BY DEF Accessible
<1> DEFINE S == Enabled(place)
           T == Enabled(place)'
<1>4. Max(S) <= Max(T)
  <2>1. S \subseteq T /\ S # {} /\ T \subseteq 1 .. n
    BY <1>2, <1>3
  <2> HIDE DEF S, T, n
  <2>2. QED
    BY <1>1, <2>1, MaxGrows
<1>5. QED
  BY <1>3, <1>4 DEF Accessed, Accessible

-----------------------------------------------------------------------------
(* The invariant.                                                            *)

\* What a list has shown is still what a read is answered with, or an older
\* version of it.
ListedInv ==
    /\ pc = "idle" => listed = {} /\ got = {}
    /\ \A secret \in listed :
        /\ secret.path \in scopeSecretPath(secret.full)
        /\ since[secret.full] # "lost" =>
               Accessible(secret.full) /\ secret.ver <= Accessed(secret.full)
        /\ since[secret.full] = "nothing" => secret.ver = Accessed(secret.full)

\* A payload was read by the logical path.
ReadInv ==
    \A read \in got :
        /\ read.full = resolveSecretPath(read.secret.path)
        /\ read.full = read.secret.full =>
               /\ since[read.full] = "nothing" => read.ver = read.secret.ver
               /\ since[read.full] = "written" => read.ver >= read.secret.ver

\* A created secret is there, and in every list since.
CreatedInv ==
    \A c \in created :
        /\ c.path \in scopeSecretPath(c.full)
        /\ store[c.full] # <<>>
        /\ pc = "listed" /\ c.listed =>
               \E secret \in listed : secret.path = c.path /\ secret.full = c.full

CloudInv == TypeOK /\ ListedInv /\ ReadInv /\ CreatedInScope /\ CreatedInv

\* The invariant implies what the runs check.
LEMMA InvImplies ==
    ASSUME CloudInv
    PROVE  PayloadIsOfListed /\ CreatedIsListed
<1> USE DEF CloudInv
<1>1. Configured
  BY DEF TypeOK, Configured
<1>2. PayloadIsOfListed
  <2> SUFFICES ASSUME NEW read \in got, ~Ambiguous(read.secret.path)
               PROVE  /\ read.full = read.secret.full
                      /\ since[read.full] = "nothing" => read.ver = read.secret.ver
                      /\ since[read.full] = "written" => read.ver >= read.secret.ver
    BY DEF PayloadIsOfListed
  <2>1. read.secret \in listed /\ read.secret.full \in Places
    BY DEF TypeOK, Secret
  <2>2. read.secret.path \in scopeSecretPath(read.secret.full)
    BY <2>1 DEF ListedInv
  <2>3. resolveSecretPath(read.secret.path) = read.secret.full
    BY <1>1, <2>1, <2>2, ThereAndBack
  <2>4. QED
    BY <2>3 DEF ReadInv
<1>3. CreatedIsListed
  <2> SUFFICES ASSUME NEW c \in created
               PROVE  /\ pc = "listed" /\ c.listed =>
                             \E secret \in listed :
                                 secret.path = c.path /\ secret.full = c.full
                      /\ ~Ambiguous(c.path) =>
                             /\ resolveSecretPath(c.path) = c.full
                             /\ \A target \in createSecretPath(c.path) :
                                    target.full = c.full
    BY DEF CreatedIsListed
  <2>1. c.full \in Places /\ c.path \in scopeSecretPath(c.full)
    BY DEF TypeOK, CreatedInv
  <2>2. c.path \in Seq(STRING) /\ Trim(c.path) = c.path
    BY <1>1, <2>1, ScopedPath
  <2>3. ~Ambiguous(c.path) => resolveSecretPath(c.path) = c.full
    BY <1>1, <2>1, ThereAndBack
  <2>4. \A target \in createSecretPath(c.path) :
            target.full = resolveSecretPath(c.path)
    BY <1>1, <2>2, CreateTarget
  <2>5. QED
    BY <2>3, <2>4 DEF CreatedInv
<1>4. QED
  BY <1>2, <1>3

LEMMA InitInv == Init => CloudInv
<1> SUFFICES ASSUME Init PROVE CloudInv
  OBVIOUS
<1> USE DEF Init
<1>1. store \in [Places -> Seq(BOOLEAN)]
  <2>1. <<>> \in Seq(BOOLEAN) /\ <<TRUE>> \in Seq(BOOLEAN)
    OBVIOUS
  <2>2. QED
    BY <2>1
<1>2. budget \in [writes : Nat, creates : Nat, faults : Nat]
  BY CloudRuAssumption
<1>3. TypeOK
  BY <1>1, <1>2 DEF TypeOK
<1>4. QED
  BY <1>3 DEF CloudInv, ListedInv, ReadInv, CreatedInScope, CreatedInv

-----------------------------------------------------------------------------
(* What others do.                                                           *)

\* Any change of one place: how it looks to the reader is kept in since.
StoreChange(place, change) ==
    /\ store' \in [Places -> Seq(BOOLEAN)]
    /\ \A other \in Places \ {place} : store'[other] = store[other]
    /\ change = "lost" \/ Enabled(place) \subseteq Enabled(place)'
    /\ Seen(place, change)
    /\ UNCHANGED <<config, pc, listed, got>>

LEMMA StoreStep ==
    ASSUME CloudInv, NEW place \in Places, NEW change \in {"written", "lost"},
           StoreChange(place, change)
    PROVE  /\ since' \in [Places -> {"nothing", "written", "lost"}]
           /\ ListedInv' /\ ReadInv'
<1> USE DEF CloudInv
<1>1. /\ store \in [Places -> Seq(BOOLEAN)]
      /\ since \in [Places -> {"nothing", "written", "lost"}]
      /\ listed \subseteq Secret
      /\ got \subseteq [secret : listed, full : Places, ver : Nat]
  BY DEF TypeOK
<1>2. /\ since' \in [Places -> {"nothing", "written", "lost"}]
      /\ since'[place] = IF since[place] = "lost" THEN "lost" ELSE change
      /\ \A other \in Places \ {place} : since'[other] = since[other]
  BY <1>1 DEF StoreChange, Seen
<1>3. UNCHANGED <<config, pc, listed, got>>
  BY DEF StoreChange
<1>4. ASSUME NEW secret \in listed
      PROVE  /\ since'[secret.full] # "lost" =>
                    /\ Accessible(secret.full)'
                    /\ secret.ver <= Accessed(secret.full)'
             /\ since'[secret.full] = "nothing" =>
                    secret.ver = Accessed(secret.full)'
  <2>1. /\ secret.full \in Places /\ secret.ver \in Nat
        /\ since[secret.full] # "lost" =>
               Accessible(secret.full) /\ secret.ver <= Accessed(secret.full)
        /\ since[secret.full] = "nothing" => secret.ver = Accessed(secret.full)
    BY <1>1 DEF ListedInv, Secret
  <2>2. CASE secret.full = place
    <3>1. since'[place] # "nothing"
      BY <1>1, <1>2
    <3>2. ASSUME since'[place] # "lost"
          PROVE  Accessible(place)' /\ secret.ver <= Accessed(place)'
      <4>1. Accessible(place) /\ secret.ver <= Accessed(place)
        BY <1>2, <2>1, <2>2, <3>2
      <4>2. Enabled(place) \subseteq Enabled(place)'
        BY <1>2, <3>2 DEF StoreChange
      <4>3. store[place] \in Seq(BOOLEAN) /\ store'[place] \in Seq(BOOLEAN)
        BY <1>1 DEF StoreChange
      <4>4. Accessible(place)' /\ Accessed(place) <= Accessed(place)'
        BY <4>1, <4>2, <4>3, AccessGrows
      <4>5. Accessed(place) \in Nat
        BY <4>1, <4>3, ShownIsAccessed DEF Accessible
      <4>6. Accessed(place)' \in Nat
        <5>1. Accessed(place)' \in Enabled(place)' /\ Enabled(place)' \subseteq Nat
          <6> DEFINE n == Len(store'[place])
                     T == Enabled(place)'
          <6>1. n \in Nat /\ DOMAIN store'[place] = 1 .. n
            BY <4>3, LenProperties
          <6>2. T \subseteq 1 .. n /\ T # {}
            BY <4>4, <6>1 DEF Enabled, Accessible
          <6>3. Max(T) \in T
            <7> HIDE DEF n, T
            <7>1. QED
              BY <6>1, <6>2, Extremes
          <6>4. QED
            BY <6>1, <6>2, <6>3 DEF Accessed
        <5>2. QED
          BY <5>1
      <4>7. QED
        BY <2>1, <4>1, <4>4, <4>5, <4>6
    <3>3. QED
      BY <2>2, <3>1, <3>2
  <2>3. CASE secret.full # place
    <3>1. /\ since'[secret.full] = since[secret.full]
          /\ store'[secret.full] = store[secret.full]
      BY <1>2, <2>1, <2>3 DEF StoreChange
    <3>2. Accessible(secret.full)' = Accessible(secret.full)
          /\ Accessed(secret.full)' = Accessed(secret.full)
      BY <3>1 DEF Accessible, Accessed, Enabled
    <3>3. QED
      BY <2>1, <3>1, <3>2
  <2>4. QED
    BY <2>2, <2>3
<1>5. ListedInv'
  <2>1. \A secret \in listed : scopeSecretPath(secret.full)' = scopeSecretPath(secret.full)
    BY <1>3 DEF scopeSecretPath, Scoped, Inside
  <2>2. QED
    BY <1>3, <1>4, <2>1 DEF ListedInv
<1>6. ReadInv'
  <2> SUFFICES ASSUME NEW read \in got
               PROVE  /\ read.full = resolveSecretPath(read.secret.path)'
                      /\ read.full = read.secret.full =>
                             /\ since'[read.full] = "nothing" =>
                                    read.ver = read.secret.ver
                             /\ since'[read.full] = "written" =>
                                    read.ver >= read.secret.ver
    BY <1>3 DEF ReadInv
  <2>1. resolveSecretPath(read.secret.path)' = resolveSecretPath(read.secret.path)
    BY <1>3 DEF resolveSecretPath, Scoped, Inside
  <2>2. /\ read.full \in Places /\ read.ver \in Nat
        /\ read.secret \in listed /\ read.secret.ver \in Nat
    BY <1>1 DEF Secret
  <2>3. since'[read.full] = "nothing" => since[read.full] = "nothing"
    BY <1>1, <1>2, <2>2
  <2>4. since'[read.full] = "written" => since[read.full] \in {"nothing", "written"}
    BY <1>1, <1>2, <2>2
  <2>5. QED
    BY <2>1, <2>2, <2>3, <2>4 DEF ReadInv
<1>7. QED
  BY <1>2, <1>5, <1>6

\* What others leave of the created secrets: those whose place is not lost.
LEMMA CreatedStep ==
    ASSUME CloudInv, UNCHANGED <<config, pc, listed>>,
           created' \subseteq created, \A c \in created' : store'[c.full] # <<>>
    PROVE  /\ created' \subseteq [path : Seq(STRING), full : Places, listed : BOOLEAN]
           /\ CreatedInScope' /\ CreatedInv'
<1> USE DEF CloudInv
<1>1. created' \subseteq [path : Seq(STRING), full : Places, listed : BOOLEAN]
  BY DEF TypeOK
<1>2. CreatedInScope'
  BY DEF CreatedInScope, Inside
<1>3. CreatedInv'
  <2>1. \A c \in created : scopeSecretPath(c.full)' = scopeSecretPath(c.full)
    BY DEF scopeSecretPath, Scoped, Inside
  <2>2. QED
    BY <2>1 DEF CreatedInv
<1>4. QED
  BY <1>1, <1>2, <1>3

\* Both together, with what is paid for.
LEMMA OthersStep ==
    ASSUME CloudInv, NEW place \in Places, NEW change \in {"written", "lost"},
           StoreChange(place, change), Spend("writes"),
           created' \subseteq created, \A c \in created' : store'[c.full] # <<>>
    PROVE  CloudInv'
<1>1. /\ since' \in [Places -> {"nothing", "written", "lost"}]
      /\ ListedInv' /\ ReadInv'
  BY StoreStep
<1>2. UNCHANGED <<config, pc, listed, got>>
  BY DEF StoreChange
<1>3. /\ created' \subseteq [path : Seq(STRING), full : Places, listed : BOOLEAN]
      /\ CreatedInScope' /\ CreatedInv'
  BY <1>2, CreatedStep
<1>4. TypeOK'
  <2>1. budget' \in [writes : Nat, creates : Nat, faults : Nat]
    BY DEF CloudInv, TypeOK, Spend
  <2>2. store' \in [Places -> Seq(BOOLEAN)]
    BY DEF StoreChange
  <2>3. QED
    BY <1>1, <1>2, <1>3, <2>1, <2>2 DEF CloudInv, TypeOK, Valid
<1>5. QED
  BY <1>1, <1>3, <1>4 DEF CloudInv

LEMMA AddVersionStep ==
    ASSUME CloudInv, NEW place \in Places, AddVersion(place)
    PROVE  CloudInv'
<1> DEFINE old == store[place]
<1>1. store \in [Places -> Seq(BOOLEAN)]
  BY DEF CloudInv, TypeOK
<1>2. old \in Seq(BOOLEAN) /\ Append(old, TRUE) \in Seq(BOOLEAN)
  BY <1>1, AppendProperties
<1>3. /\ store' \in [Places -> Seq(BOOLEAN)] /\ store'[place] = Append(old, TRUE)
      /\ \A other \in Places \ {place} : store'[other] = store[other]
  BY <1>1, <1>2 DEF AddVersion
<1>4. Enabled(place) \subseteq Enabled(place)'
  <2> DEFINE new == Append(old, TRUE)
  <2>1. /\ Len(new) = Len(old) + 1
        /\ \A i \in 1 .. Len(old) : new[i] = old[i]
    <3> HIDE DEF old
    <3>1. TRUE \in BOOLEAN
      OBVIOUS
    <3>2. Len(new) = Len(old) + 1
      BY <1>2, <3>1, AppendProperties
    <3>3. \A i \in 1 .. Len(old) : new[i] = old[i]
      BY <1>2, <3>1, AppendProperties
    <3>4. QED
      BY <3>2, <3>3
  <2>2. Len(old) \in Nat /\ DOMAIN old = 1 .. Len(old)
    BY <1>2, LenProperties
  <2>3. DOMAIN new = 1 .. Len(new)
    BY <1>2, LenProperties
  <2> HIDE DEF new
  <2>4. DOMAIN old \subseteq DOMAIN new
    BY <2>1, <2>2, <2>3
  <2>5. Enabled(place) = {i \in DOMAIN old : old[i]}
    BY DEF Enabled
  <2>6. Enabled(place)' = {i \in DOMAIN new : new[i]}
    BY <1>3 DEF Enabled, new
  <2>7. QED
    BY <2>1, <2>2, <2>4, <2>5, <2>6
<1>5. StoreChange(place, "written") /\ Spend("writes") /\ created' = created
  BY <1>3, <1>4 DEF AddVersion, StoreChange
<1>6. \A c \in created' : store'[c.full] # <<>>
  <2>1. Append(old, TRUE) # <<>>
    BY <1>2, AppendProperties
  <2>2. QED
    BY <1>3, <1>5, <2>1 DEF CloudInv, TypeOK, CreatedInv
<1>7. QED
  BY <1>5, <1>6, OthersStep

\* A version that is enabled, or disabled.
LEMMA SwitchStep ==
    ASSUME CloudInv, NEW place \in Places, NEW i \in DOMAIN store[place],
           NEW to \in BOOLEAN, store' = [store EXCEPT ![place][i] = to]
    PROVE  /\ store' \in [Places -> Seq(BOOLEAN)]
           /\ \A other \in Places \ {place} : store'[other] = store[other]
           /\ to => Enabled(place) \subseteq Enabled(place)'
           /\ \A other \in Places : store[other] # <<>> => store'[other] # <<>>
<1> DEFINE old == store[place]
           new == [old EXCEPT ![i] = to]
<1>1. store \in [Places -> Seq(BOOLEAN)]
  BY DEF CloudInv, TypeOK
<1>2. old \in Seq(BOOLEAN) /\ i \in 1 .. Len(old)
  BY <1>1, LenProperties
<1>3. /\ new \in Seq(BOOLEAN) /\ Len(new) = Len(old)
      /\ \A j \in 1 .. Len(old) : new[j] = IF j = i THEN to ELSE old[j]
  BY <1>2, ExceptSeq
<1>4. store' = [store EXCEPT ![place] = new]
  BY <1>1
<1> HIDE DEF new
<1>5. /\ store' \in [Places -> Seq(BOOLEAN)] /\ store'[place] = new
      /\ \A other \in Places \ {place} : store'[other] = store[other]
  BY <1>1, <1>3, <1>4
<1>6. DOMAIN new = DOMAIN old /\ DOMAIN old = 1 .. Len(old)
  BY <1>2, <1>3, LenProperties
<1>7. to => Enabled(place) \subseteq Enabled(place)'
  BY <1>3, <1>5, <1>6 DEF Enabled
<1>8. new # <<>>
  <2>1. Len(new) # 0
    BY <1>2, <1>3, LenProperties
  <2>2. QED
    BY <2>1, EmptySeq
<1>9. QED
  BY <1>5, <1>7, <1>8

LEMMA EnableStep ==
    ASSUME CloudInv, NEW place \in Places, NEW i \in DOMAIN store[place],
           Enable(place, i)
    PROVE  CloudInv'
<1>1. /\ store' \in [Places -> Seq(BOOLEAN)]
      /\ \A other \in Places \ {place} : store'[other] = store[other]
      /\ Enabled(place) \subseteq Enabled(place)'
      /\ \A other \in Places : store[other] # <<>> => store'[other] # <<>>
  BY SwitchStep DEF Enable
<1>2. StoreChange(place, "written") /\ Spend("writes") /\ created' = created
  BY <1>1 DEF Enable, StoreChange
<1>3. \A c \in created' : store'[c.full] # <<>>
  BY <1>1, <1>2 DEF CloudInv, TypeOK, CreatedInv
<1>4. QED
  BY <1>2, <1>3, OthersStep

LEMMA DisableStep ==
    ASSUME CloudInv, NEW place \in Places, NEW i \in DOMAIN store[place],
           Disable(place, i)
    PROVE  CloudInv'
<1>1. /\ store' \in [Places -> Seq(BOOLEAN)]
      /\ \A other \in Places \ {place} : store'[other] = store[other]
      /\ \A other \in Places : store[other] # <<>> => store'[other] # <<>>
  BY SwitchStep DEF Disable
<1>2. StoreChange(place, "lost") /\ Spend("writes") /\ created' \subseteq created
  BY <1>1 DEF Disable, StoreChange
<1>3. \A c \in created' : store'[c.full] # <<>>
  BY <1>1, <1>2 DEF CloudInv, TypeOK, CreatedInv
<1>4. QED
  BY <1>2, <1>3, OthersStep

LEMMA DeleteStep ==
    ASSUME CloudInv, NEW place \in Places, Delete(place)
    PROVE  CloudInv'
<1>1. store \in [Places -> Seq(BOOLEAN)] /\ <<>> \in Seq(BOOLEAN)
  BY DEF CloudInv, TypeOK
<1>2. /\ store' \in [Places -> Seq(BOOLEAN)]
      /\ \A other \in Places \ {place} : store'[other] = store[other]
  BY <1>1 DEF Delete
<1>3. StoreChange(place, "lost") /\ Spend("writes")
  BY <1>2 DEF Delete, StoreChange
<1>4. created' \subseteq created /\ \A c \in created' : c.full # place
  BY DEF Delete
<1>5. \A c \in created' : store'[c.full] # <<>>
  BY <1>2, <1>4 DEF CloudInv, TypeOK, CreatedInv
<1>6. QED
  BY <1>3, <1>4, <1>5, OthersStep

-----------------------------------------------------------------------------
(* What the provider does.                                                   *)

\* The list has each secret inside the root once, with its newest version.
LEMMA ListSecretsStep ==
    ASSUME CloudInv, ListSecrets
    PROVE  CloudInv'
<1> USE DEF CloudInv
<1>1. /\ UNCHANGED <<config, store, got, budget>>
      /\ since' = [place \in Places |-> "nothing"]
      /\ pc = "idle" /\ listed = {} /\ got = {}
  BY DEF ListSecrets, ListedInv
<1>2. Configured
  BY DEF TypeOK, Configured
<1>3. CASE pc' = "failed" /\ UNCHANGED <<listed, created>>
  <2>1. TypeOK'
    BY <1>1, <1>3 DEF TypeOK, Valid
  <2>2. ListedInv' /\ ReadInv'
    BY <1>1, <1>3 DEF ListedInv, ReadInv
  <2>3. CreatedInScope'
    BY <1>1, <1>3 DEF CreatedInScope, Inside
  <2>4. CreatedInv'
    <3>1. \A c \in created : scopeSecretPath(c.full)' = scopeSecretPath(c.full)
      BY <1>1 DEF scopeSecretPath, Scoped, Inside
    <3>2. QED
      BY <1>1, <1>3, <3>1 DEF CreatedInv
  <2>5. QED
    BY <2>1, <2>2, <2>3, <2>4
<1>4. CASE /\ \A place \in Found : Enabled(place) # {}
           /\ pc' = "listed"
           /\ listed' = UNION {mapSecret(place) : place \in Found}
           /\ created' = {[c EXCEPT !.listed = TRUE] : c \in created}
  <2>1. ASSUME NEW place \in Found
        PROVE  /\ place \in Places /\ Inside(place) /\ Accessible(place)
               /\ secretLatestVersionID(place) = Accessed(place)
               /\ Accessed(place) \in Nat
    BY <1>4, ShownIsAccessed DEF Found, TypeOK, Accessible
  <2>2. ASSUME NEW secret \in listed'
        PROVE  \E place \in Found : \E path \in scopeSecretPath(place) :
                   secret = [path |-> path, full |-> place, ver |-> Accessed(place)]
    BY <1>4, <2>1, <2>2 DEF mapSecret
  <2>3. ASSUME NEW secret \in listed'
        PROVE  /\ secret \in Secret /\ secret.path \in scopeSecretPath(secret.full)
               /\ secret.full \in Found /\ secret.ver = Accessed(secret.full)
    <3>0. PICK place \in Found : \E path \in scopeSecretPath(place) :
                secret = [path |-> path, full |-> place, ver |-> Accessed(place)]
      BY <2>2, <2>3
    <3>1. PICK path \in scopeSecretPath(place) :
                secret = [path |-> path, full |-> place, ver |-> Accessed(place)]
      BY <3>0
    <3>2. path \in Seq(STRING)
      BY <1>2, <2>1, ScopedPath
    <3>3. QED
      BY <2>1, <3>1, <3>2 DEF Secret
  <2>4. \A secret, other \in listed' : secret.path = other.path => secret = other
    <3> SUFFICES ASSUME NEW secret \in listed', NEW other \in listed',
                        secret.path = other.path
                 PROVE  secret = other
      OBVIOUS
    <3>1. secret.full = other.full
      BY <1>2, <2>1, <2>3, PathsApart
    <3>2. QED
      BY <2>3, <3>1 DEF Secret
  <2> DEFINE Created == [path : Seq(STRING), full : Places, listed : BOOLEAN]
  <2>14. created \subseteq Created
    BY DEF TypeOK
  <2>15. ASSUME NEW c \in created'
         PROVE  c \in Created /\ \E d \in created : c.path = d.path /\ c.full = d.full
    <3>1. PICK d \in created : c = [d EXCEPT !.listed = TRUE]
      BY <1>4
    <3>2. d \in Created
      BY <2>14
    <3>3. QED
      BY <3>1, <3>2
  <2>5. created' \subseteq [path : Seq(STRING), full : Places, listed : BOOLEAN]
    BY <2>15
  <2>6. \A c \in created' : \E d \in created : c.path = d.path /\ c.full = d.full
    BY <2>15
  <2>7. TypeOK'
    <3>1. listed' \subseteq Secret
      BY <2>3
    <3>2. got' \subseteq [secret : listed', full : Places, ver : Nat]
      BY <1>1
    <3>3. QED
      BY <1>1, <1>4, <2>4, <2>5, <3>1, <3>2 DEF TypeOK, Valid
  <2>8. \A path : scopeSecretPath(path)' = scopeSecretPath(path)
    BY <1>1 DEF scopeSecretPath, Scoped, Inside
  <2>9. ListedInv'
    <3>1. ASSUME NEW secret \in listed'
          PROVE  /\ secret.path \in scopeSecretPath(secret.full)'
                 /\ Accessible(secret.full)' /\ secret.ver <= Accessed(secret.full)'
                 /\ secret.ver = Accessed(secret.full)'
      <4>1. /\ Accessible(secret.full)' = Accessible(secret.full)
            /\ Accessed(secret.full)' = Accessed(secret.full)
        BY <1>1 DEF Accessible, Accessed, Enabled
      <4>2. QED
        BY <2>1, <2>3, <2>8, <4>1
    <3>2. QED
      BY <1>4, <3>1 DEF ListedInv
  <2>10. ReadInv'
    BY <1>1 DEF ReadInv
  <2>11. CreatedInScope'
    BY <1>1, <2>6 DEF CreatedInScope, Inside
  <2>12. CreatedInv'
    <3> SUFFICES ASSUME NEW c \in created'
                 PROVE  /\ c.path \in scopeSecretPath(c.full)
                        /\ store[c.full] # <<>>
                        /\ \E secret \in listed' :
                               secret.path = c.path /\ secret.full = c.full
      BY <1>1, <2>8 DEF CreatedInv
    <3>1. PICK d \in created : c.path = d.path /\ c.full = d.full
      BY <2>6
    <3>2. /\ d.full \in Places /\ d.path \in scopeSecretPath(d.full)
          /\ store[d.full] # <<>> /\ Inside(d.full)
      BY DEF TypeOK, CreatedInv, CreatedInScope
    <3>3. d.full \in Found
      BY <3>2 DEF Found
    <3>4. [path |-> d.path, full |-> d.full, ver |-> secretLatestVersionID(d.full)]
              \in mapSecret(d.full)
      BY <3>2 DEF mapSecret
    <3>5. [path |-> d.path, full |-> d.full, ver |-> secretLatestVersionID(d.full)]
              \in listed'
      BY <1>4, <3>3, <3>4
    <3>6. QED
      BY <3>1, <3>2, <3>5
  <2>13. QED
    BY <2>7, <2>9, <2>10, <2>11, <2>12
<1>5. QED
  BY <1>3, <1>4 DEF ListSecrets

\* A payload is read by the logical path of a listed secret.
LEMMA GetSecretPayloadStep ==
    ASSUME CloudInv, NEW secret \in listed, GetSecretPayload(secret)
    PROVE  CloudInv'
<1> USE DEF CloudInv
<1> DEFINE place == resolveSecretPath(secret.path)
<1>1. pc = "listed" /\ UNCHANGED <<config, store, listed, since, created, budget>>
  BY DEF GetSecretPayload
<1>2. \A path : /\ scopeSecretPath(path)' = scopeSecretPath(path)
                /\ resolveSecretPath(path)' = resolveSecretPath(path)
  BY <1>1 DEF scopeSecretPath, resolveSecretPath, Scoped, Inside
<1>3. \A path : /\ Accessible(path)' = Accessible(path)
                /\ Accessed(path)' = Accessed(path)
  BY <1>1 DEF Accessible, Accessed, Enabled
<1>4. CreatedInScope'
  BY <1>1 DEF CreatedInScope, Inside
<1>5. CASE /\ Accessible(place)
           /\ got' = {[secret |-> secret, full |-> place, ver |-> Accessed(place)]}
           /\ UNCHANGED pc
  <2>1. place \in Places /\ Enabled(place) # {}
    BY <1>5 DEF Accessible
  <2>2. Accessed(place) \in Nat
    <3>1. store[place] \in Seq(BOOLEAN)
      BY <2>1 DEF TypeOK
    <3>2. QED
      BY <2>1, <3>1, ShownIsAccessed
  <2>3. secret.full = place =>
            /\ since[place] = "nothing" => Accessed(place) = secret.ver
            /\ since[place] = "written" => secret.ver <= Accessed(place)
    BY DEF ListedInv
  <2>4. secret.ver \in Nat
    BY DEF TypeOK, Secret
  <2> HIDE DEF place
  <2>5. TypeOK'
    <3>1. got' \subseteq [secret : listed', full : Places, ver : Nat]
      BY <1>1, <1>5, <2>1, <2>2
    <3>2. QED
      BY <1>1, <1>5, <3>1 DEF TypeOK, Valid
  <2>6. ListedInv'
    BY <1>1, <1>2, <1>3, <1>5 DEF ListedInv
  <2>7. ReadInv'
    <3>1. secret.full = place /\ since[place] = "written" =>
              Accessed(place) >= secret.ver
      BY <2>2, <2>3, <2>4
    <3>2. place = resolveSecretPath(secret.path)'
      BY <1>2 DEF place
    <3>3. \A read \in got' :
              /\ read.secret = secret /\ read.full = place
              /\ read.ver = Accessed(place)
      BY <1>5
    <3>4. QED
      BY <1>1, <2>3, <3>1, <3>2, <3>3 DEF ReadInv
  <2>8. CreatedInv'
    BY <1>1, <1>2, <1>5 DEF CreatedInv
  <2>9. QED
    BY <1>4, <2>5, <2>6, <2>7, <2>8
<1>6. CASE pc' = "failed" /\ UNCHANGED got
  <2>1. TypeOK'
    BY <1>1, <1>6 DEF TypeOK, Valid
  <2>2. ListedInv'
    BY <1>1, <1>2, <1>3, <1>6 DEF ListedInv
  <2>3. ReadInv'
    BY <1>1, <1>2, <1>6 DEF ReadInv
  <2>4. CreatedInv'
    BY <1>1, <1>2, <1>6 DEF CreatedInv
  <2>5. QED
    BY <1>4, <2>1, <2>2, <2>3, <2>4
<1>7. QED
  BY <1>5, <1>6 DEF GetSecretPayload

\* The end of a synchronization, early or not.
LEMMA EndsStep ==
    ASSUME CloudInv, RequestFails \/ Return
    PROVE  CloudInv'
<1> USE DEF CloudInv
<1>1. /\ UNCHANGED <<config, store, since, created>>
      /\ \/ pc' = "failed" /\ UNCHANGED <<listed, got>>
         \/ pc' = "idle" /\ listed' = {} /\ got' = {}
  BY DEF RequestFails, Return
<1>2. \A path : /\ scopeSecretPath(path)' = scopeSecretPath(path)
                /\ resolveSecretPath(path)' = resolveSecretPath(path)
  BY <1>1 DEF scopeSecretPath, resolveSecretPath, Scoped, Inside
<1>3. \A path : /\ Accessible(path)' = Accessible(path)
                /\ Accessed(path)' = Accessed(path)
  BY <1>1 DEF Accessible, Accessed, Enabled
<1>4. budget' \in [writes : Nat, creates : Nat, faults : Nat]
  BY DEF RequestFails, Return, TypeOK, Spend
<1>5. TypeOK'
  BY <1>1, <1>4 DEF TypeOK, Valid
<1>6. ListedInv'
  BY <1>1, <1>2, <1>3 DEF ListedInv
<1>7. ReadInv'
  BY <1>1, <1>2 DEF ReadInv
<1>8. CreatedInScope'
  BY <1>1 DEF CreatedInScope, Inside
<1>9. CreatedInv'
  BY <1>1, <1>2 DEF CreatedInv
<1>10. QED
  BY <1>5, <1>6, <1>7, <1>8, <1>9

\* A secret is made where there was none, acknowledged or not.
LEMMA CreateSecretStep ==
    ASSUME CloudInv, NEW request \in Requests, CreateSecret(request)
    PROVE  CloudInv'
<1>1. PICK target \in createSecretPath(request) :
          /\ target.full \in Places /\ store[target.full] = <<>>
          /\ store' = [store EXCEPT ![target.full] = <<TRUE>>]
          /\ \/ /\ Spend("creates")
                /\ created' = {[path   |-> target.path, full |-> target.full,
                                listed |-> FALSE]}
             \/ Spend("faults") /\ UNCHANGED created
          /\ Seen(target.full, "written")
          /\ UNCHANGED <<config, pc, listed, got>>
  BY DEF CreateSecret
<1> DEFINE place == target.full
<1>2. Configured /\ store \in [Places -> Seq(BOOLEAN)] /\ <<TRUE>> \in Seq(BOOLEAN)
  BY DEF CloudInv, TypeOK, Configured
<1>3. /\ store' \in [Places -> Seq(BOOLEAN)] /\ store'[place] = <<TRUE>>
      /\ \A other \in Places \ {place} : store'[other] = store[other]
  BY <1>1, <1>2
<1>4. Enabled(place) = {}
  BY <1>1 DEF Enabled
<1>5. StoreChange(place, "written")
  BY <1>1, <1>3, <1>4 DEF StoreChange
<1>6. /\ since' \in [Places -> {"nothing", "written", "lost"}]
      /\ ListedInv' /\ ReadInv'
  BY <1>1, <1>5, StoreStep
<1>7. <<TRUE>> # <<>>
  OBVIOUS
<1>8. /\ created' \subseteq [path : Seq(STRING), full : Places, listed : BOOLEAN]
      /\ CreatedInScope' /\ CreatedInv'
  <2>1. CASE UNCHANGED created
    <3>1. \A c \in created' : store'[c.full] # <<>>
      BY <1>1, <1>3, <1>7, <2>1 DEF CloudInv, TypeOK, CreatedInv
    <3>2. QED
      BY <1>1, <2>1, <3>1, CreatedStep
  <2>2. CASE created' = {[path |-> target.path, full |-> place, listed |-> FALSE]}
    <3>1. request \in Seq(STRING)
      BY CloudRuAssumption
    <3>2. /\ Inside(place)
          /\ \A i \in DOMAIN place :
                 i > Len(config.root) => place[i] \notin {"", ".", ".."}
          /\ target.path \in scopeSecretPath(place)
      BY <1>2, <3>1, CreateTarget
    <3>3. target.path \in Seq(STRING)
      BY <1>1, <1>2, <3>2, ScopedPath
    <3>4. created' \subseteq [path : Seq(STRING), full : Places, listed : BOOLEAN]
      BY <1>1, <2>2, <3>3
    <3>5. \A c \in created' :
              c.path = target.path /\ c.full = place /\ c.listed = FALSE
      BY <2>2
    <3>6. CreatedInScope'
      BY <1>1, <3>2, <3>5 DEF CreatedInScope, Inside
    <3>7. scopeSecretPath(place)' = scopeSecretPath(place)
      BY <1>1 DEF scopeSecretPath, Scoped, Inside
    <3>8. CreatedInv'
      BY <1>3, <1>7, <3>2, <3>5, <3>7 DEF CreatedInv
    <3>9. QED
      BY <3>4, <3>6, <3>8
  <2>3. QED
    BY <1>1, <2>1, <2>2
<1>9. TypeOK'
  <2>1. Spend("creates") \/ Spend("faults")
    BY <1>1
  <2>2. budget' \in [writes : Nat, creates : Nat, faults : Nat]
    <3>1. budget \in [writes : Nat, creates : Nat, faults : Nat]
      BY DEF CloudInv, TypeOK
    <3>2. QED
      BY <2>1, <3>1 DEF Spend
  <2>3. UNCHANGED <<config, pc, listed, got>>
    BY <1>1
  <2>4. QED
    BY <1>3, <1>6, <1>8, <2>2, <2>3 DEF CloudInv, TypeOK, Valid
<1>10. QED
  BY <1>6, <1>8, <1>9 DEF CloudInv

\* Every state keeps the invariant that differs in nothing it speaks of.
LEMMA SameStep ==
    ASSUME CloudInv, UNCHANGED <<config, store, pc, listed, got, since, created>>,
           budget' \in [writes : Nat, creates : Nat, faults : Nat]
    PROVE  CloudInv'
<1>1. \A path : /\ scopeSecretPath(path)' = scopeSecretPath(path)
                /\ resolveSecretPath(path)' = resolveSecretPath(path)
  BY DEF scopeSecretPath, resolveSecretPath, Scoped, Inside
<1>2. \A path : /\ Accessible(path)' = Accessible(path)
                /\ Accessed(path)' = Accessed(path)
  BY DEF Accessible, Accessed, Enabled
<1>3. TypeOK'
  BY DEF CloudInv, TypeOK, Valid
<1>4. ListedInv' /\ ReadInv'
  BY <1>1, <1>2 DEF CloudInv, ListedInv, ReadInv
<1>5. CreatedInScope' /\ CreatedInv'
  BY <1>1 DEF CloudInv, CreatedInScope, CreatedInv, Inside
<1>6. QED
  BY <1>3, <1>4, <1>5 DEF CloudInv

LEMMA NextInv == CloudInv /\ [Next]_vars => CloudInv'
<1> SUFFICES ASSUME CloudInv, [Next]_vars PROVE CloudInv'
  OBVIOUS
<1>1. budget \in [writes : Nat, creates : Nat, faults : Nat]
  BY DEF CloudInv, TypeOK
<1>2. CASE Provider
  <2>1. CASE ListSecrets
    BY <2>1, ListSecretsStep
  <2>2. CASE \E secret \in listed : GetSecretPayload(secret)
    BY <2>2, GetSecretPayloadStep
  <2>3. CASE RequestFails \/ Return
    BY <2>3, EndsStep
  <2>4. ASSUME NEW request \in Requests, CreateSecret(request)
        PROVE  CloudInv'
    BY <2>4, CreateSecretStep
  <2>5. ASSUME NEW request \in Requests, CreateExisting(request)
        PROVE  CloudInv'
    <3>1. budget' \in [writes : Nat, creates : Nat, faults : Nat]
      BY <1>1, <2>5 DEF CreateExisting, Spend
    <3>2. QED
      BY <2>5, <3>1, SameStep DEF CreateExisting
  <2>6. QED
    BY <1>2, <2>1, <2>2, <2>3, <2>4, <2>5 DEF Provider
<1>3. CASE Others
  BY <1>3, AddVersionStep, DeleteStep, EnableStep, DisableStep DEF Others
<1>4. CASE UNCHANGED vars
  BY <1>1, <1>4, SameStep DEF vars
<1>5. QED
  BY <1>2, <1>3, <1>4 DEF Next

-----------------------------------------------------------------------------
(* The theorems.                                                             *)

\* Every variable has its type, and ListSecrets never returns one logical path
\* twice: scopeSecretPath is one to one on the secrets inside the root.
THEOREM TypeCorrect == Spec => []TypeOK
<1>1. CloudInv => TypeOK
  BY DEF CloudInv
<1>2. QED
  BY <1>1, InitInv, NextInv, PTL DEF Spec

\* A payload that is read for a listed secret is of that secret and not older
\* than the version of the list, whatever other clients add or enable in
\* between: the way from secretLatestVersionID over the logical path to what
\* Access answers.
THEOREM PayloadRead == Spec => []PayloadIsOfListed
<1>1. CloudInv => PayloadIsOfListed
  BY InvImplies
<1>2. QED
  BY <1>1, InitInv, NextInv, PTL DEF Spec

\* Create makes no secret outside the configured root, for any request and any
\* root folder.
THEOREM CreationInScope == Spec => []CreatedInScope
<1>1. CloudInv => CreatedInScope
  BY DEF CloudInv
<1>2. QED
  BY <1>1, InitInv, NextInv, PTL DEF Spec

\* A created secret is in every later list under the path that Create answered
\* with, until it is deleted or a version of it is disabled, and that path
\* leads back to it.
THEOREM CreationListed == Spec => []CreatedIsListed
<1>1. CloudInv => CreatedIsListed
  BY InvImplies
<1>2. QED
  BY <1>1, InitInv, NextInv, PTL DEF Spec

=============================================================================
