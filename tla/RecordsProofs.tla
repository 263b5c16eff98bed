---------------------------- MODULE RecordsProofs ----------------------------
(***************************************************************************)
(* Proofs about the components MCRecords composes, for any number of       *)
(* accounts, rows and requests, overlapping and failing in any way.        *)
(***************************************************************************)
EXTENDS MCRecords, FiniteSetTheorems, WellFoundedInduction, TLAPS

(* How the size of a set changes with an element. *)

LEMMA OneMore ==
  ASSUME NEW S, NEW T, NEW x, IsFiniteSet(S), T \subseteq S \cup {x}
  PROVE  /\ IsFiniteSet(T) /\ Cardinality(T) \in Nat /\ Cardinality(S) \in Nat
         /\ Cardinality(T) <= Cardinality(S) + 1
<1>1. IsFiniteSet(S \cup {x}) /\ Cardinality(S \cup {x}) <= Cardinality(S) + 1 /\ Cardinality(S) \in Nat
      /\ Cardinality(S \cup {x}) \in Nat
  BY FS_AddElement, FS_CardinalityType
<1>2. IsFiniteSet(T) /\ Cardinality(T) <= Cardinality(S \cup {x})
  BY <1>1, FS_Subset
<1> QED  BY <1>1, <1>2, FS_CardinalityType

LEMMA OneLess ==
  ASSUME NEW S, NEW T, NEW x \in S, IsFiniteSet(S), T \subseteq S \ {x}
  PROVE  /\ IsFiniteSet(T) /\ Cardinality(T) \in Nat /\ Cardinality(S) \in Nat
         /\ Cardinality(T) + 1 <= Cardinality(S)
<1>1. IsFiniteSet(S \ {x}) /\ Cardinality(S \ {x}) = Cardinality(S) - 1 /\ Cardinality(S) \in Nat
  BY FS_RemoveElement, FS_CardinalityType
<1>2. IsFiniteSet(T) /\ Cardinality(T) <= Cardinality(S \ {x})
  BY <1>1, FS_Subset
<1>3. Cardinality(T) \in Nat
  BY <1>2, FS_CardinalityType
<1> QED  BY <1>1, <1>2, <1>3

LEMMA NoMore ==
  ASSUME NEW S, NEW T, IsFiniteSet(S), T \subseteq S
  PROVE  /\ IsFiniteSet(T) /\ Cardinality(T) \in Nat /\ Cardinality(S) \in Nat
         /\ Cardinality(T) <= Cardinality(S)
  BY FS_Subset, FS_CardinalityType

LEMMA UnionSize ==
  ASSUME NEW S, NEW T, IsFiniteSet(S), IsFiniteSet(T)
  PROVE  /\ IsFiniteSet(S \cup T) /\ Cardinality(S \cup T) \in Nat
         /\ Cardinality(S \cup T) <= Cardinality(S) + Cardinality(T)
         /\ S \cap T = {} => Cardinality(S \cup T) = Cardinality(S) + Cardinality(T)
<1>1. /\ IsFiniteSet(S \cup T) /\ IsFiniteSet(S \cap T)
      /\ Cardinality(S \cup T) = Cardinality(S) + Cardinality(T) - Cardinality(S \cap T)
  BY FS_Union, FS_Intersection
<1>2. Cardinality(S) \in Nat /\ Cardinality(T) \in Nat /\ Cardinality(S \cap T) \in Nat
      /\ Cardinality(S \cup T) \in Nat
  BY <1>1, FS_CardinalityType
<1>3. S \cap T = {} => Cardinality(S \cap T) = 0
  BY FS_EmptySet
<1> QED  BY <1>1, <1>2, <1>3

----------------------------------------------------------------------------
(* SongVersions *)

Stages == {"recording", "counting", "initial", "numbering", "numbered", "demoted", "saving"}
Revised == [at : Stages, audio : Audio, copy : Audio, number : Nat, stale : BOOLEAN]

\* A request that has demoted the others' versions will insert one whose number
\* comes before every version activated since: they took it, or a later one.
Precedes(r) ==
    revising[r].at = "demoted" => \A n \in active : revising[r].number <= n

\* Numbers once read are those of versions, or the next.
Numbered(r) ==
    revising[r].at \in {"numbered", "demoted"} => revising[r].number \in 1..Len(version) + 1

VersionInv ==
    /\ TypeOK
    /\ AtMostOneActive
    /\ \A r \in Revision : Precedes(r) /\ Numbered(r)

LEMMA QuietIsApart == Quiet \notin Revised /\ Quiet.at = "none"
  BY DEF Quiet, Revised

LEMMA TypeOfRevised ==
  ASSUME TypeOK, NEW r \in Revision, revising[r].at # "none"
  PROVE  revising[r] \in Revised
  BY QuietIsApart DEF TypeOK, Revised, Stages

LEMMA VersionInit == Init => VersionInv
<1> SUFFICES ASSUME Init PROVE VersionInv
  OBVIOUS
<1>1. 0 \in Audio /\ Revising("recording", 0) \in Revised
  BY SongVersionsAssumption DEF Audio, Revising, Revised, Stages, Init
<1>2. \A r \in Revision : revising[r] = Quiet \/ revising[r] = Revising("recording", 0)
  BY DEF Init
<1>3. revising \in [Revision -> {Quiet} \cup Revised]
  BY <1>1 DEF Init
<1>4. TypeOK
  <2>1. version \in Seq(Audio) /\ active \subseteq DOMAIN version
    BY DEF Init
  <2>2. served \in Audio /\ revised \in 0..MaxRevised /\ disturbed \in BOOLEAN
    <3>1. 0 \in 0..MaxRevised
      BY SongVersionsAssumption
    <3> QED  BY <3>1 DEF Init, Audio
  <2> QED  BY <1>3, <2>1, <2>2 DEF TypeOK, Revised, Stages
<1>5. \A r \in Revision : Precedes(r) /\ Numbered(r)
  BY <1>2, QuietIsApart DEF Init, Precedes, Numbered, Revising
<1> QED  BY <1>4, <1>5 DEF Init, VersionInv, AtMostOneActive

\* A step of request r that keeps the versions disturbs no other request, so what
\* it leaves r in decides.
LEMMA OwnStep ==
  ASSUME VersionInv, NEW r \in Revision, NEW state \in {Quiet} \cup Revised,
         Become(r, state), UNCHANGED <<version, active>>,
         served' \in Audio, revised' \in 0..MaxRevised, disturbed' \in BOOLEAN,
         state.at = "demoted" => \A n \in active : state.number <= n,
         state.at \in {"numbered", "demoted"} => state.number \in 1..Len(version) + 1
  PROVE  VersionInv'
<1>1. TypeOK'
  BY DEF VersionInv, TypeOK, Become, Revised, Stages
<1>2. AtMostOneActive'
  BY DEF VersionInv, AtMostOneActive
<1>3. \A s \in Revision : revising'[s] = IF s = r THEN state ELSE revising[s]
  BY DEF VersionInv, TypeOK, Become
<1>4. \A s \in Revision : Precedes(s)' /\ Numbered(s)'
  BY <1>3 DEF VersionInv, Precedes, Numbered
<1> QED  BY <1>1, <1>2, <1>4 DEF VersionInv

LEMMA BeginStep ==
  ASSUME VersionInv, NEW r \in Revision, NEW state \in Revised,
         state.at \notin {"numbered", "demoted"}, Begin(r, state)
  PROVE  VersionInv'
<1>1. revised' \in 0..MaxRevised /\ served' \in Audio /\ disturbed' \in BOOLEAN
  BY SongVersionsAssumption DEF VersionInv, TypeOK, Begin, Audio
<1> QED  BY <1>1, OwnStep DEF Begin

LEMMA CreateInitialStep ==
  ASSUME VersionInv, NEW r \in Revision, CreateInitial(r)
  PROVE  VersionInv'
<1>1. revising[r] \in Revised /\ revising[r].at \in {"initial", "recording"}
  BY TypeOfRevised DEF VersionInv, CreateInitial
<1>2. CASE version # <<>>
  BY <1>2, OwnStep, QuietIsApart DEF VersionInv, TypeOK, CreateInitial
<1>3. CASE version = <<>>
  <2> DEFINE state == IF revising[r].at = "recording" THEN Quiet ELSE [revising[r] EXCEPT !.at = "numbering"]
  <2>1. state \in {Quiet} \cup Revised /\ state.at \in {"none", "numbering"}
    BY <1>1, QuietIsApart DEF Revised, Stages
  <2>2. revising' = [revising EXCEPT ![r] = state]
    BY <1>3 DEF CreateInitial, Become
  <2>3. version' = <<revising[r].copy>> /\ active' = {1} /\ UNCHANGED <<served, revised, disturbed>>
    BY <1>3 DEF CreateInitial
  <2>4. version' \in Seq(Audio) /\ Len(version') = 1 /\ active' \subseteq DOMAIN version'
    BY <1>1, <2>3 DEF Revised
  <2> HIDE DEF state
  <2>5. TypeOK'
    BY <2>1, <2>2, <2>3, <2>4 DEF VersionInv, TypeOK, Revised, Stages
  <2>6. \A s \in Revision : revising'[s] = IF s = r THEN state ELSE revising[s]
    BY <2>2 DEF VersionInv, TypeOK
  <2>7. \A s \in Revision : Numbered(s) => Precedes(s)' /\ Numbered(s)'
    <3>1. Len(version) = 0
      BY <1>3
    <3> QED  BY <3>1, <2>1, <2>3, <2>4, <2>6 DEF Precedes, Numbered
  <2> QED  BY <2>3, <2>5, <2>7 DEF VersionInv, AtMostOneActive
<1> QED  BY <1>2, <1>3

LEMMA NumberVersionStep ==
  ASSUME VersionInv, NEW r \in Revision, NumberVersion(r)
  PROVE  VersionInv'
<1> DEFINE state == [revising[r] EXCEPT !.at = "numbered", !.number = Len(version) + 1]
<1>1. revising[r] \in Revised /\ Len(version) \in Nat
  BY TypeOfRevised DEF VersionInv, TypeOK, NumberVersion
<1>2. Len(version) + 1 \in Nat /\ Len(version) + 1 \in 1..Len(version) + 1
  BY <1>1
<1>3. state \in Revised /\ state.at = "numbered" /\ state.number = Len(version) + 1
  BY <1>1, <1>2 DEF Revised, Stages
<1> HIDE DEF state
<1>4. Become(r, state) /\ UNCHANGED <<version, active, served, revised, disturbed>>
  BY DEF NumberVersion, state
<1> QED  BY <1>2, <1>3, <1>4, OwnStep DEF VersionInv, TypeOK

LEMMA DemoteStep ==
  ASSUME VersionInv, NEW r \in Revision, Demote(r)
  PROVE  VersionInv'
<1> DEFINE state == [revising[r] EXCEPT !.at = "demoted"]
<1>1. revising[r] \in Revised /\ revising[r].at = "numbered"
  BY TypeOfRevised DEF VersionInv, Demote
<1>2. state \in Revised /\ state.number = revising[r].number
  BY <1>1 DEF Revised, Stages
<1>3. revising' = [revising EXCEPT ![r] = state] /\ active' = {}
      /\ UNCHANGED <<version, served, revised, disturbed>>
  BY DEF Demote, Become
<1> HIDE DEF state
<1>4. TypeOK'
  BY <1>2, <1>3 DEF VersionInv, TypeOK, Revised, Stages
<1>5. \A s \in Revision : revising'[s] = IF s = r THEN state ELSE revising[s]
  BY <1>3 DEF VersionInv, TypeOK
<1>6. \A s \in Revision : Precedes(s)' /\ Numbered(s)'
  BY <1>1, <1>2, <1>3, <1>5 DEF VersionInv, Precedes, Numbered
<1> QED  BY <1>3, <1>4, <1>6 DEF VersionInv, AtMostOneActive

\* The row goes in only when nothing is active: an active version would have to
\* have a number that does not exist yet.
LEMMA InsertStep ==
  ASSUME VersionInv, NEW r \in Revision, Insert(r)
  PROVE  VersionInv'
<1>1. revising[r] \in Revised /\ revising[r].at = "demoted"
  BY TypeOfRevised DEF VersionInv, Insert
<1>2. CASE revising[r].number = Len(version) + 1 /\ version' # version
  <2> DEFINE state == [revising[r] EXCEPT !.at = "saving"]
  <2>1. state \in Revised /\ state.at = "saving"
    BY <1>1 DEF Revised, Stages
  <2>2. /\ version' = Append(version, revising[r].audio) /\ active' = active \cup {Len(version) + 1}
        /\ revising' = [revising EXCEPT ![r] = state]
        /\ UNCHANGED <<served, revised, disturbed>>
    BY <1>2 DEF Insert, Become
  <2> HIDE DEF state
  <2>3. active = {}
    BY <1>1, <1>2 DEF VersionInv, TypeOK, Precedes
  <2>4. version' \in Seq(Audio) /\ Len(version') = Len(version) + 1 /\ Len(version) \in Nat
    BY <1>1, <2>2 DEF VersionInv, TypeOK, Revised
  <2>5. active' = {Len(version) + 1} /\ active' \subseteq DOMAIN version'
    BY <2>2, <2>3, <2>4
  <2>6. TypeOK'
    BY <2>1, <2>2, <2>4, <2>5 DEF VersionInv, TypeOK, Revised, Stages
  <2>7. \A s \in Revision : revising'[s] = IF s = r THEN state ELSE revising[s]
    BY <2>2 DEF VersionInv, TypeOK
  <2>8. \A s \in Revision : Numbered(s) => Precedes(s)' /\ Numbered(s)'
    BY <2>1, <2>4, <2>5, <2>7 DEF Precedes, Numbered
  <2> QED  BY <2>5, <2>6, <2>8 DEF VersionInv, AtMostOneActive
<1>3. CASE Become(r, Quiet) /\ disturbed' = TRUE /\ UNCHANGED <<version, active, served, revised>>
  BY <1>3, OwnStep, QuietIsApart DEF VersionInv, TypeOK
<1>4. Append(version, revising[r].audio) # version
  BY <1>1 DEF VersionInv, TypeOK, Revised
<1> QED  BY <1>2, <1>3, <1>4 DEF Insert

LEMMA SaveSongStep ==
  ASSUME VersionInv, NEW r \in Revision, SaveSong(r)
  PROVE  VersionInv'
<1>1. revising[r] \in Revised
  BY TypeOfRevised DEF VersionInv, SaveSong
<1>2. served' \in Audio /\ disturbed' \in BOOLEAN /\ UNCHANGED <<version, active, revised>>
  BY <1>1 DEF VersionInv, TypeOK, SaveSong, Revised
<1>3. \A s \in Revision : revising'[s] = Quiet \/
        /\ revising[s] \in Revised /\ revising'[s] = [revising[s] EXCEPT !.stale = TRUE]
  BY DEF VersionInv, TypeOK, SaveSong, Revised, Stages
<1>4. \A s \in Revision : revising'[s] \in {Quiet} \cup Revised
  BY <1>3 DEF Revised
<1>5. revising' \in [Revision -> {Quiet} \cup Revised]
  BY <1>4 DEF SaveSong
<1>6. TypeOK'
  BY <1>2, <1>5 DEF VersionInv, TypeOK, Revised, Stages
<1>7. \A s \in Revision : Precedes(s)' /\ Numbered(s)'
  BY <1>2, <1>3, QuietIsApart DEF VersionInv, Precedes, Numbered, Revised
<1> QED  BY <1>2, <1>6, <1>7 DEF VersionInv, AtMostOneActive

LEMMA VersionNext == VersionInv /\ [Next]_vars => VersionInv'
<1> SUFFICES ASSUME VersionInv, [Next]_vars PROVE VersionInv'
  OBVIOUS
<1>1. ASSUME NEW r \in Revision, Reupload(r) PROVE VersionInv'
  <2>1. Revising("counting", revised + 1) \in Revised /\ Revising("counting", revised + 1).at = "counting"
    BY <1>1, SongVersionsAssumption DEF VersionInv, TypeOK, Reupload, Begin, Revising, Revised, Stages, Audio
  <2> QED  BY <1>1, <2>1, BeginStep DEF Reupload
<1>2. ASSUME NEW r \in Revision, Rollback(r) PROVE VersionInv'
  <2>1. PICK n \in DOMAIN version : Begin(r, Revising("numbering", version[n]))
    BY <1>2 DEF Rollback
  <2>2. version[n] \in Audio
    BY <2>1 DEF VersionInv, TypeOK
  <2>3. Revising("numbering", version[n]) \in Revised /\ Revising("numbering", version[n]).at = "numbering"
    BY <2>2 DEF VersionInv, TypeOK, Revising, Revised, Stages
  <2> QED  BY <2>1, <2>3, BeginStep
<1>3. ASSUME NEW r \in Revision, Edit(r) PROVE VersionInv'
  <2>1. Revising("saving", served) \in Revised /\ Revising("saving", served).at = "saving"
    BY DEF VersionInv, TypeOK, Revising, Revised, Stages
  <2> QED  BY <1>3, <2>1, BeginStep DEF Edit
<1>4. ASSUME NEW r \in Revision, CountVersions(r) PROVE VersionInv'
  <2>1. PICK at \in {"initial", "numbering"} : Become(r, [revising[r] EXCEPT !.at = at])
    BY <1>4 DEF CountVersions
  <2>2. revising[r] \in Revised
    BY <1>4, TypeOfRevised DEF VersionInv, CountVersions
  <2>3. [revising[r] EXCEPT !.at = at] \in Revised /\ [revising[r] EXCEPT !.at = at].at = at
    BY <2>2 DEF Revised, Stages
  <2> QED  BY <1>4, <2>1, <2>3, OwnStep DEF VersionInv, TypeOK, CountVersions
<1>5. ASSUME NEW r \in Revision, Abandon(r) PROVE VersionInv'
  BY <1>5, OwnStep, QuietIsApart DEF VersionInv, TypeOK, Abandon
<1>6. CASE UNCHANGED vars
  BY <1>6 DEF VersionInv, TypeOK, AtMostOneActive, Precedes, Numbered, vars
<1> QED
  BY <1>1, <1>2, <1>3, <1>4, <1>5, <1>6, CreateInitialStep, NumberVersionStep, DemoteStep,
     InsertStep, SaveSongStep DEF Next

\* The state space of the version rows and of the requests that write them.
THEOREM VersionsTypeOK == Spec => []TypeOK
<1>1. VersionInv => TypeOK
  BY DEF VersionInv
<1> QED  BY <1>1, VersionInit, VersionNext, PTL DEF Spec

\* Whatever re-uploads and rollbacks overlap or die between their statements, one
\* version at most has isActive = true (SongVersionService).
THEOREM OnlyOnePerSong == Spec => []AtMostOneActive
<1>1. VersionInv => AtMostOneActive
  BY DEF VersionInv
<1> QED  BY <1>1, VersionInit, VersionNext, PTL DEF Spec


\* Request r has switched the active version, or begun to, and not saved the song.
Halfway(r) ==
    revising[r].at = "demoted" \/ (revising[r].at = "saving" /\ revising[r].number > 0)

\* What request r knows of the versions and of the song.
Informed(r) ==
    revising[r].at # "none" =>
      /\ revising[r].at \in {"numbering", "numbered", "demoted"} \/ Halfway(r) => version # <<>>
      /\ revising[r].at = "saving" /\ ~Halfway(r) => revising[r].audio = revising[r].copy
      /\ ~revising[r].stale => revising[r].copy = served
      /\ version = <<>> /\ ~disturbed => revising[r].copy = served

\* No request is half-way, and the song serves its active version;
Settled ==
    /\ \A r \in Revision : ~Halfway(r)
    /\ version # <<>> => \E n \in active : version[n] = served

\* or one is alone half-way, and will make the song serve it;
Alone(r) ==
    /\ Halfway(r) /\ ~revising[r].stale
    /\ \A s \in Revision \ {r} : ~Halfway(s)
    /\ revising[r].at = "saving" => \E n \in active : version[n] = revising[r].audio

\* or some will disturb each other however they end.
Crossed ==
    \/ \E r \in Revision : Halfway(r) /\ revising[r].stale
    \/ \E r, s \in Revision : r # s /\ Halfway(r) /\ Halfway(s)

ServedInv ==
    /\ VersionInv
    /\ \A r \in Revision : Informed(r)
    /\ disturbed \/ Settled \/ Crossed \/ \E r \in Revision : Alone(r)

LEMMA ServedInit == Init => ServedInv
<1> SUFFICES ASSUME Init PROVE ServedInv
  OBVIOUS
<1>1. \A r \in Revision : revising[r].at \in {"none", "recording"} /\ (revising[r].at # "none" => revising[r].copy = served)
  BY DEF Init, Quiet, Revising
<1>2. version = <<>> /\ \A r \in Revision : ~Halfway(r)
  BY <1>1 DEF Init, Halfway
<1> QED  BY <1>1, <1>2, VersionInit DEF ServedInv, Informed, Settled

\* A step of request r after which it is no nearer to being half-way, or that
\* disturbs.
LEMMA ServedOwnStep ==
  ASSUME ServedInv, VersionInv', NEW r \in Revision, NEW state,
         Become(r, state), UNCHANGED <<version, active, served>>,
         disturbed => disturbed',
         state.at # "none" =>
           /\ state.at \in {"numbering", "numbered"} => version # <<>>
           /\ state.at = "saving" => state.audio = state.copy
           /\ ~state.stale => state.copy = served
           /\ version = <<>> /\ ~disturbed => state.copy = served,
         state.at # "demoted" /\ (state.at = "saving" => ~(state.number > 0)),
         Halfway(r) => disturbed'
  PROVE  ServedInv'
<1>1. \A s \in Revision : revising'[s] = IF s = r THEN state ELSE revising[s]
  BY DEF ServedInv, VersionInv, TypeOK, Become
<1>2. ~Halfway(r)' /\ \A s \in Revision \ {r} : (Halfway(s)' <=> Halfway(s))
  BY <1>1 DEF Halfway
<1>3. \A s \in Revision : Informed(s)'
  <2>1. Informed(r)'
    BY <1>1, <1>2 DEF Informed
  <2>2. ASSUME NEW s \in Revision \ {r} PROVE Informed(s)'
    BY <1>1, <1>2 DEF ServedInv, Informed
  <2> QED  BY <2>1, <2>2
<1>4. ASSUME ~disturbed' PROVE Settled' \/ Crossed' \/ \E s \in Revision : Alone(s)'
  <2>1. ~Halfway(r) /\ (Settled \/ Crossed \/ \E s \in Revision : Alone(s))
    BY <1>4 DEF ServedInv
  <2>2. CASE Settled
    BY <1>2, <2>2 DEF Settled
  <2>3. CASE Crossed
    BY <1>1, <1>2, <2>1, <2>3 DEF Crossed
  <2>4. ASSUME NEW s \in Revision, Alone(s) PROVE Alone(s)'
    <3>1. s # r /\ Halfway(s)
      BY <2>1, <2>4 DEF Alone
    <3> QED  BY <1>1, <1>2, <2>4, <3>1 DEF Alone
  <2> QED  BY <2>1, <2>2, <2>3, <2>4
<1> QED  BY <1>3, <1>4 DEF ServedInv

\* The requests that begin, read, or end.
LEMMA ServedReads ==
  ASSUME ServedInv, VersionInv', NEW r \in Revision,
         Reupload(r) \/ Rollback(r) \/ Edit(r) \/ CountVersions(r) \/ NumberVersion(r) \/ Abandon(r)
  PROVE  ServedInv'
<1>1. Quiet.at = "none" /\ (revising[r].at # "none" => revising[r] \in Revised) /\ VersionInv
  BY QuietIsApart, TypeOfRevised DEF ServedInv, VersionInv
<1>2. ASSUME NEW at, NEW audio, Begin(r, Revising(at, audio)), at # "none", at # "demoted",
             at \in {"numbering", "numbered"} => version # <<>>, at = "saving" => audio = served
      PROVE  ServedInv'
  <2> DEFINE state == Revising(at, audio)
  <2>1. /\ Become(r, state) /\ UNCHANGED <<version, active, served, disturbed>> /\ revising[r] = Quiet
        /\ state.at = at /\ state.audio = audio /\ state.copy = served /\ state.number = 0
    BY <1>2 DEF Begin, Revising
  <2>2. ~Halfway(r)
    BY <1>1, <2>1 DEF Halfway
  <2> HIDE DEF state
  <2> QED  BY <1>2, <2>1, <2>2, ServedOwnStep
<1>3. CASE Reupload(r)
  BY <1>2, <1>3 DEF Reupload
<1>4. CASE Rollback(r)
  <2>1. PICK n \in DOMAIN version : Begin(r, Revising("numbering", version[n]))
    BY <1>4 DEF Rollback
  <2>2. version # <<>>
    BY <2>1
  <2> QED  BY <1>2, <2>1, <2>2
<1>5. CASE Edit(r)
  BY <1>2, <1>5 DEF Edit
<1>6. CASE CountVersions(r)
  <2> DEFINE at == IF version = <<>> THEN "initial" ELSE "numbering"
             state == [revising[r] EXCEPT !.at = at]
  <2>1. /\ revising[r].at = "counting" /\ Become(r, state)
        /\ UNCHANGED <<version, active, served, disturbed>>
    BY <1>6 DEF CountVersions
  <2>2. /\ state.at = at /\ state.copy = revising[r].copy /\ state.stale = revising[r].stale
    BY <1>1, <2>1 DEF Revised
  <2>3. Informed(r) /\ ~Halfway(r)
    BY <2>1 DEF ServedInv, Halfway
  <2>4. /\ at \in {"initial", "numbering"} /\ (at = "numbering" => version # <<>>)
    OBVIOUS
  <2> HIDE DEF state, at
  <2>5. /\ ~state.stale => state.copy = served
        /\ version = <<>> /\ ~disturbed => state.copy = served
    BY <2>1, <2>2, <2>3 DEF Informed
  <2> QED  BY <2>1, <2>2, <2>3, <2>4, <2>5, ServedOwnStep
<1>7. CASE NumberVersion(r)
  <2> DEFINE state == [revising[r] EXCEPT !.at = "numbered", !.number = Len(version) + 1]
  <2>1. /\ revising[r].at = "numbering" /\ Become(r, state)
        /\ UNCHANGED <<version, active, served, disturbed>>
    BY <1>7 DEF NumberVersion
  <2>2. /\ state.at = "numbered" /\ state.copy = revising[r].copy /\ state.stale = revising[r].stale
    BY <1>1, <2>1 DEF Revised
  <2>3. Informed(r) /\ ~Halfway(r)
    BY <2>1 DEF ServedInv, Halfway
  <2> HIDE DEF state
  <2>4. /\ ~state.stale => state.copy = served
        /\ version # <<>>
    BY <2>1, <2>2, <2>3 DEF Informed
  <2> QED  BY <2>1, <2>2, <2>3, <2>4, ServedOwnStep
<1>8. CASE Abandon(r)
  <2>1. Become(r, Quiet) /\ UNCHANGED <<version, active, served>>
        /\ (disturbed => disturbed') /\ (Halfway(r) => disturbed')
    BY <1>8 DEF Abandon, Halfway
  <2> QED  BY <1>1, <2>1, ServedOwnStep
<1> QED  BY <1>3, <1>4, <1>5, <1>6, <1>7, <1>8

LEMMA ServedCreateInitial ==
  ASSUME ServedInv, VersionInv', NEW r \in Revision, CreateInitial(r)
  PROVE  ServedInv'
<1>1. Quiet.at = "none" /\ revising[r] \in Revised /\ revising[r].at \in {"initial", "recording"} /\ VersionInv
  BY QuietIsApart, TypeOfRevised DEF ServedInv, VersionInv, CreateInitial
<1>2. CASE version # <<>>
  <2>1. Become(r, Quiet) /\ UNCHANGED <<version, active, served, disturbed>> /\ ~Halfway(r)
    BY <1>1, <1>2 DEF CreateInitial, Halfway
  <2> QED  BY <1>1, <2>1, ServedOwnStep
<1>3. CASE version = <<>>
  <2> DEFINE state == IF revising[r].at = "recording" THEN Quiet ELSE [revising[r] EXCEPT !.at = "numbering"]
  <2>1. /\ state.at \in {"none", "numbering"}
        /\ state.at # "none" => state.copy = revising[r].copy /\ state.stale = revising[r].stale
    BY <1>1 DEF Revised
  <2>2. /\ version' = <<revising[r].copy>> /\ active' = {1} /\ UNCHANGED <<served, disturbed>>
        /\ revising' = [revising EXCEPT ![r] = state]
    BY <1>3 DEF CreateInitial, Become
  <2> HIDE DEF state
  <2>3. \A s \in Revision : revising'[s] = IF s = r THEN state ELSE revising[s]
    BY <2>2 DEF ServedInv, VersionInv, TypeOK
  <2>4. version' # <<>> /\ version'[1] = revising[r].copy
    BY <2>2
  <2>5. \A s \in Revision : ~Halfway(s)
    BY <1>3 DEF ServedInv, Informed, Halfway
  <2>6. \A s \in Revision : ~Halfway(s)'
    BY <2>1, <2>3, <2>5 DEF Halfway
  <2>7. \A s \in Revision : Informed(s)'
    <3>1. Informed(r)'
      BY <1>1, <2>1, <2>2, <2>3, <2>4, <2>6 DEF ServedInv, Informed
    <3>2. ASSUME NEW s \in Revision \ {r} PROVE Informed(s)'
      BY <2>2, <2>3, <2>4, <2>5, <2>6 DEF ServedInv, Informed
    <3> QED  BY <3>1, <3>2
  <2>8. ~disturbed => revising[r].copy = served
    BY <1>1, <1>3 DEF ServedInv, Informed
  <2>9. ~disturbed' => Settled'
    BY <2>2, <2>4, <2>6, <2>8 DEF Settled
  <2> QED  BY <2>7, <2>9 DEF ServedInv
<1> QED  BY <1>2, <1>3

LEMMA ServedDemote ==
  ASSUME ServedInv, VersionInv', NEW r \in Revision, Demote(r)
  PROVE  ServedInv'
<1> DEFINE state == [revising[r] EXCEPT !.at = "demoted"]
<1>1. revising[r] \in Revised /\ revising[r].at = "numbered" /\ VersionInv
  BY TypeOfRevised DEF ServedInv, VersionInv, Demote
<1>2. state.at = "demoted" /\ state.copy = revising[r].copy /\ state.stale = revising[r].stale
  BY <1>1 DEF Revised
<1>3. revising' = [revising EXCEPT ![r] = state] /\ UNCHANGED <<version, served, disturbed>>
  BY DEF Demote, Become
<1> HIDE DEF state
<1>4. \A s \in Revision : revising'[s] = IF s = r THEN state ELSE revising[s]
  BY <1>3 DEF ServedInv, VersionInv, TypeOK
<1>5. Halfway(r)' /\ ~Halfway(r) /\ \A s \in Revision \ {r} : (Halfway(s)' <=> Halfway(s))
  BY <1>1, <1>2, <1>4 DEF Halfway
<1>6. \A s \in Revision : Informed(s)'
  <2>1. Informed(r)'
    BY <1>1, <1>2, <1>3, <1>4 DEF ServedInv, Informed
  <2>2. ASSUME NEW s \in Revision \ {r} PROVE Informed(s)'
    BY <1>3, <1>4, <1>5 DEF ServedInv, Informed
  <2> QED  BY <2>1, <2>2
<1>7. CASE \E s \in Revision : Halfway(s)
  <2>1. Crossed'
    BY <1>5, <1>7 DEF Crossed
  <2> QED  BY <1>6, <2>1 DEF ServedInv
<1>8. CASE ~\E s \in Revision : Halfway(s)
  <2>1. Crossed' \/ Alone(r)'
    BY <1>2, <1>4, <1>5, <1>8 DEF Crossed, Alone
  <2> QED  BY <1>6, <2>1 DEF ServedInv
<1> QED  BY <1>7, <1>8

LEMMA ServedInsert ==
  ASSUME ServedInv, VersionInv', NEW r \in Revision, Insert(r)
  PROVE  ServedInv'
<1>1. revising[r] \in Revised /\ revising[r].at = "demoted" /\ VersionInv /\ Quiet.at = "none"
  BY TypeOfRevised, QuietIsApart DEF ServedInv, VersionInv, Insert
<1>2. CASE Become(r, Quiet) /\ disturbed' = TRUE /\ UNCHANGED <<version, active, served>>
  BY <1>1, <1>2, ServedOwnStep
<1>3. CASE /\ revising[r].number = Len(version) + 1 /\ Become(r, [revising[r] EXCEPT !.at = "saving"])
           /\ version' = Append(version, revising[r].audio) /\ active' = active \cup {revising[r].number}
           /\ UNCHANGED <<served, disturbed>>
  <2> DEFINE state == [revising[r] EXCEPT !.at = "saving"]
  <2>1. /\ state.at = "saving" /\ state.copy = revising[r].copy /\ state.stale = revising[r].stale
        /\ state.number = revising[r].number /\ state.audio = revising[r].audio
    BY <1>1 DEF Revised
  <2>2. version \in Seq(Audio) /\ Len(version) \in Nat
    BY <1>1 DEF VersionInv, TypeOK
  <2>3. /\ state.number > 0 /\ version' # <<>> /\ version # version'
        /\ version'[state.number] = state.audio /\ state.number \in active'
    BY <1>1, <1>3, <2>1, <2>2 DEF Revised
  <2>4. revising' = [revising EXCEPT ![r] = state]
    BY <1>3 DEF Become
  <2> HIDE DEF state
  <2>5. \A s \in Revision : revising'[s] = IF s = r THEN state ELSE revising[s]
    BY <2>4 DEF ServedInv, VersionInv, TypeOK
  <2>6. Halfway(r)' /\ Halfway(r) /\ \A s \in Revision \ {r} : (Halfway(s)' <=> Halfway(s))
    BY <1>1, <2>1, <2>3, <2>5 DEF Halfway
  <2>7. \A s \in Revision : Informed(s)'
    <3>1. Informed(r)'
      BY <1>1, <1>3, <2>1, <2>3, <2>5, <2>6 DEF ServedInv, Informed
    <3>2. ASSUME NEW s \in Revision \ {r} PROVE Informed(s)'
      BY <1>3, <2>3, <2>5, <2>6 DEF ServedInv, Informed
    <3> QED  BY <3>1, <3>2
  <2>8. CASE \E s \in Revision \ {r} : Halfway(s)
    <3>1. Crossed'
      BY <2>6, <2>8 DEF Crossed
    <3> QED  BY <2>7, <3>1 DEF ServedInv
  <2>9. CASE ~\E s \in Revision \ {r} : Halfway(s)
    <3>1. Crossed' \/ Alone(r)'
      BY <2>1, <2>3, <2>5, <2>6, <2>9 DEF Crossed, Alone
    <3> QED  BY <2>7, <3>1 DEF ServedInv
  <2> QED  BY <2>8, <2>9
<1> QED  BY <1>2, <1>3 DEF Insert

LEMMA ServedSave ==
  ASSUME ServedInv, VersionInv', NEW r \in Revision, SaveSong(r)
  PROVE  ServedInv'
<1>1. revising[r] \in Revised /\ revising[r].at = "saving" /\ VersionInv /\ Quiet.at = "none"
  BY TypeOfRevised, QuietIsApart DEF ServedInv, VersionInv, SaveSong
<1>2. /\ served' = revising[r].audio /\ UNCHANGED <<version, active>>
      /\ disturbed => disturbed'
      /\ revising[r].stale => disturbed'
  BY DEF SaveSong
<1>3. /\ revising'[r] = Quiet
      /\ \A s \in Revision \ {r} : IF revising[s].at = "none" THEN revising'[s] = Quiet
           ELSE /\ revising[s] \in Revised
                /\ revising'[s] = [revising[s] EXCEPT !.stale = TRUE]
  BY TypeOfRevised, QuietIsApart DEF SaveSong, ServedInv, VersionInv, TypeOK, Revised, Stages
<1>4. \A s \in Revision \ {r} : revising[s].at # "none" =>
        /\ revising'[s].at = revising[s].at /\ revising'[s].audio = revising[s].audio
        /\ revising'[s].copy = revising[s].copy /\ revising'[s].number = revising[s].number
        /\ revising'[s].stale
  BY <1>3 DEF Revised
<1>5. ~Halfway(r)' /\ \A s \in Revision \ {r} : (Halfway(s)' <=> Halfway(s))
  BY <1>1, <1>3, <1>4 DEF Halfway
<1>6. ~disturbed' /\ ~Halfway(r) => served' = served
  BY <1>1, <1>2 DEF ServedInv, Informed
<1>7. \A s \in Revision : Informed(s)'
  <2>1. Informed(r)'
    BY <1>1, <1>3 DEF Informed
  <2>2. ASSUME NEW s \in Revision \ {r}, revising'[s].at # "none" PROVE Informed(s)'
    <3>1. revising[s].at # "none" /\ Informed(s)
      BY <1>1, <1>3, <2>2 DEF ServedInv
    <3>2. version = <<>> /\ ~disturbed' => revising'[s].copy = served'
      <4> HAVE version = <<>> /\ ~disturbed'
      <4>1. ~Halfway(r)
        BY <1>1 DEF ServedInv, Informed
      <4> QED  BY <1>2, <1>4, <1>6, <3>1, <4>1 DEF Informed
    <3> QED  BY <1>2, <1>4, <1>5, <3>1, <3>2 DEF Informed
  <2>3. ASSUME NEW s \in Revision \ {r}, revising'[s].at = "none" PROVE Informed(s)'
    BY <2>3 DEF Informed
  <2> QED  BY <2>1, <2>2, <2>3
<1>8. ASSUME ~disturbed' PROVE Settled' \/ Crossed'
  <2>1. ~revising[r].stale /\ ~disturbed
    BY <1>2, <1>8
  <2>2. CASE \E s \in Revision \ {r} : Halfway(s)
    <3>1. PICK s \in Revision \ {r} : Halfway(s)
      BY <2>2
    <3>2. revising[s].at # "none"
      BY <3>1 DEF Halfway
    <3> QED  BY <1>4, <1>5, <3>1, <3>2 DEF Crossed
  <2>3. CASE ~(\E s \in Revision \ {r} : Halfway(s)) /\ Halfway(r)
    <3>1. Alone(r)
      BY <2>1, <2>3 DEF ServedInv, Settled, Crossed, Alone
    <3> QED  BY <1>1, <1>2, <1>5, <2>3, <3>1 DEF Alone, Settled
  <2>4. CASE ~(\E s \in Revision : Halfway(s))
    <3>1. Settled
      BY <2>1, <2>4 DEF ServedInv, Crossed, Alone
    <3> QED  BY <1>2, <1>5, <1>6, <1>8, <2>4, <3>1 DEF Settled
  <2> QED  BY <2>2, <2>3, <2>4
<1> QED  BY <1>7, <1>8 DEF ServedInv

\* Between requests the song serves its one active version, unless a request failed
\* half-way or saved an older row (SongVersionService).
THEOREM SongServesActiveVersion == Spec => []ServedIsActive
<1>1. ServedInv => ServedIsActive
  <2> SUFFICES ASSUME ServedInv, \A r \in Revision : revising[r] = Quiet, version # <<>>, ~disturbed
               PROVE  \E n \in active : version[n] = served
    BY DEF ServedIsActive
  <2>1. \A r \in Revision : ~Halfway(r)
    BY QuietIsApart DEF Halfway
  <2> QED  BY <2>1 DEF ServedInv, Settled, Crossed, Alone
<1>2. ServedInv /\ [Next]_vars => ServedInv'
  <2> SUFFICES ASSUME ServedInv, [Next]_vars PROVE ServedInv'
    OBVIOUS
  <2>1. VersionInv'
    BY VersionNext DEF ServedInv
  <2>2. CASE UNCHANGED vars
    BY <2>1, <2>2 DEF ServedInv, Informed, Settled, Crossed, Alone, Halfway, vars
  <2> QED
    BY <2>1, <2>2, ServedReads, ServedCreateInitial, ServedDemote, ServedInsert, ServedSave DEF Next
<1> QED  BY <1>1, <1>2, ServedInit, PTL DEF Spec
----------------------------------------------------------------------------
(* Sessions *)

SessionTypes ==
    /\ token \in [Sess!Token -> Sess!Row \cup {Sess!NoRow}]
    /\ request = [r \in Request |-> request[r]]
    /\ \A r \in Request :
         /\ request[r].at \in {"matched", "verified"} => request[r].account \in Account
         /\ request[r].at \in {"valid", "consumed", "reused"} =>
              /\ request[r] = [at |-> request[r].at, old |-> request[r].old]
              /\ request[r].old \in Sess!Token /\ Sess!Issued(request[r].old)
    /\ doubled \in [Sess!Token -> Nat]
    /\ condemned \subseteq Sess!Token

\* A family is named by a token of its own, and has one owner.
FamiliesOwned ==
    /\ \A t \in Sess!Token : Sess!Issued(t) => Sess!Issued(token[t].family)
    /\ \A s, t \in Sess!Token :
         Sess!Issued(s) /\ Sess!Issued(t) /\ token[s].family = token[t].family => token[s].owner = token[t].owner
    /\ \A f \in condemned : Sess!Issued(f)

\* No exchange is under way, and no token lives, in a family revoked as a whole.
RevokedAtRest ==
    \A f \in condemned \ escaping :
        /\ \A r \in Request : r \notin Sess!Exchanging(f)
        /\ \A t \in Sess!Family(f) : ~Sess!Live(t)

\* The live tokens of f that no request has found valid.
Unclaimed(f) ==
    {t \in Sess!Token : /\ Sess!Live(t) /\ token[t].family = f
                        /\ \A r \in Request : ~(request[r].at = "valid" /\ request[r].old = t)}

\* A family has one token that is either unclaimed or being exchanged, and one more
\* for each exchange that overlapped another.
OneClaim(f) == Cardinality(Unclaimed(f)) + Cardinality(Sess!Exchanging(f)) <= 1 + doubled[f]

SessionInv ==
    /\ SessionTypes /\ FamiliesOwned /\ RevokedAtRest
    /\ \A f \in Sess!Token : OneClaim(f)

LEMMA SessionSetsFinite ==
  \A f : /\ IsFiniteSet(Unclaimed(f)) /\ IsFiniteSet(Sess!Exchanging(f))
         /\ Cardinality(Unclaimed(f)) \in Nat /\ Cardinality(Sess!Exchanging(f)) \in Nat
<1> SUFFICES ASSUME NEW f
             PROVE  /\ IsFiniteSet(Unclaimed(f)) /\ IsFiniteSet(Sess!Exchanging(f))
                    /\ Cardinality(Unclaimed(f)) \in Nat /\ Cardinality(Sess!Exchanging(f)) \in Nat
  OBVIOUS
<1>1. IsFiniteSet(Sess!Token) /\ IsFiniteSet(Request)
  BY RecordsAssumption, FS_Interval DEF Sess!Token
<1>2. Unclaimed(f) \subseteq Sess!Token /\ Sess!Exchanging(f) \subseteq Request
  BY DEF Unclaimed, Sess!Exchanging
<1> QED  BY <1>1, <1>2, FS_Subset, FS_CardinalityType

LEMMA SessionInit == RecordsInit => SessionInv
<1> SUFFICES ASSUME RecordsInit PROVE SessionInv
  OBVIOUS
<1>1. /\ token = [t \in Sess!Token |-> Sess!NoRow]
      /\ request = [r \in Request |-> Sess!Quiet] /\ doubled = [t \in Sess!Token |-> 0]
      /\ condemned = {}
  BY DEF RecordsInit, Sess!Init
<1>2. \A r \in Request : request[r].at = "none"
  BY <1>1 DEF Sess!Quiet
<1>3. \A t \in Sess!Token : ~Sess!Issued(t)
  BY <1>1 DEF Sess!Issued
<1>4. SessionTypes
  BY <1>1, <1>2 DEF SessionTypes
<1>5. \A f \in Sess!Token : Unclaimed(f) = {} /\ Sess!Exchanging(f) = {} /\ doubled[f] = 0
  BY <1>1, <1>2, <1>3 DEF Unclaimed, Sess!Exchanging, Sess!Live
<1>6. \A f \in Sess!Token : OneClaim(f)
  BY <1>5, FS_EmptySet DEF OneClaim
<1> QED  BY <1>1, <1>3, <1>4, <1>6 DEF SessionInv, FamiliesOwned, RevokedAtRest

\* How the claims on a family may move in a step: L and E are its unclaimed tokens and
\* its exchanges before, M and N after, d and e the overlaps counted before and after.
ClaimsMove(L, E, M, N, d, e, t, r) ==
    \/ M \subseteq L /\ N \subseteq E /\ d <= e
    \/ t \in L /\ M \subseteq L \ {t} /\ N \subseteq E \cup {r} /\ d <= e
    \/ r \in E /\ M \subseteq L \cup {t} /\ N \subseteq E \ {r} /\ d <= e
    \/ M \subseteq L /\ N \subseteq E \cup {r} /\ e = d + 1
    \/ L = {} /\ E = {} /\ M \subseteq L \cup {t} /\ N \subseteq E /\ d <= e

LEMMA ClaimsStep ==
  ASSUME NEW L, NEW E, NEW M, NEW N, NEW d \in Nat, NEW e \in Nat, NEW t, NEW r,
         IsFiniteSet(L), IsFiniteSet(E), Cardinality(L) + Cardinality(E) <= 1 + d,
         ClaimsMove(L, E, M, N, d, e, t, r)
  PROVE  Cardinality(M) + Cardinality(N) <= 1 + e
<1>1. CASE M \subseteq L /\ N \subseteq E /\ d <= e
  <2>1. /\ Cardinality(M) \in Nat /\ Cardinality(L) \in Nat /\ Cardinality(M) <= Cardinality(L)
    BY <1>1, NoMore
  <2>2. /\ Cardinality(N) \in Nat /\ Cardinality(E) \in Nat /\ Cardinality(N) <= Cardinality(E)
    BY <1>1, NoMore
  <2> QED  BY <1>1, <2>1, <2>2
<1>2. CASE t \in L /\ M \subseteq L \ {t} /\ N \subseteq E \cup {r} /\ d <= e
  <2>1. /\ Cardinality(M) \in Nat /\ Cardinality(L) \in Nat /\ Cardinality(M) + 1 <= Cardinality(L)
    BY <1>2, OneLess
  <2>2. /\ Cardinality(N) \in Nat /\ Cardinality(E) \in Nat /\ Cardinality(N) <= Cardinality(E) + 1
    BY <1>2, OneMore
  <2> QED  BY <1>2, <2>1, <2>2
<1>3. CASE r \in E /\ M \subseteq L \cup {t} /\ N \subseteq E \ {r} /\ d <= e
  <2>1. /\ Cardinality(M) \in Nat /\ Cardinality(L) \in Nat /\ Cardinality(M) <= Cardinality(L) + 1
    BY <1>3, OneMore
  <2>2. /\ Cardinality(N) \in Nat /\ Cardinality(E) \in Nat /\ Cardinality(N) + 1 <= Cardinality(E)
    BY <1>3, OneLess
  <2> QED  BY <1>3, <2>1, <2>2
<1>4. CASE M \subseteq L /\ N \subseteq E \cup {r} /\ e = d + 1
  <2>1. /\ Cardinality(M) \in Nat /\ Cardinality(L) \in Nat /\ Cardinality(M) <= Cardinality(L)
    BY <1>4, NoMore
  <2>2. /\ Cardinality(N) \in Nat /\ Cardinality(E) \in Nat /\ Cardinality(N) <= Cardinality(E) + 1
    BY <1>4, OneMore
  <2> QED  BY <1>4, <2>1, <2>2
<1>5. CASE L = {} /\ E = {} /\ M \subseteq L \cup {t} /\ N \subseteq E /\ d <= e
  <2>1. /\ Cardinality(M) \in Nat /\ Cardinality(L) \in Nat /\ Cardinality(M) <= Cardinality(L) + 1
    BY <1>5, OneMore
  <2>2. Cardinality(L) = 0 /\ Cardinality(N) = 0
    BY <1>5, FS_EmptySet
  <2> QED  BY <1>5, <2>1, <2>2
<1> QED  BY <1>1, <1>2, <1>3, <1>4, <1>5 DEF ClaimsMove

\* The claims of f move so in this step.
ClaimsMoveBy(f, t, r) ==
    ClaimsMove(Unclaimed(f), Sess!Exchanging(f), Unclaimed(f)', Sess!Exchanging(f)', doubled[f], doubled'[f], t, r)

LEMMA OneClaimStep ==
  ASSUME SessionInv, SessionTypes', NEW f \in Sess!Token, NEW t, NEW r, ClaimsMoveBy(f, t, r)
  PROVE  OneClaim(f)'
<1>1. doubled[f] \in Nat /\ doubled'[f] \in Nat
  BY DEF SessionInv, SessionTypes
<1>2. IsFiniteSet(Unclaimed(f)) /\ IsFiniteSet(Sess!Exchanging(f))
  BY SessionSetsFinite
<1>3. Cardinality(Unclaimed(f)) + Cardinality(Sess!Exchanging(f)) <= 1 + doubled[f]
  BY DEF SessionInv, OneClaim
<1>4. Cardinality(Unclaimed(f)') + Cardinality(Sess!Exchanging(f)') <= 1 + doubled'[f]
  BY <1>1, <1>2, <1>3, ClaimsStep DEF ClaimsMoveBy
<1> QED  BY <1>4, Zenon DEF OneClaim

LEMMA TokenShape ==
  ASSUME SessionTypes
  PROVE  /\ \A t \in Sess!Token : Sess!Issued(t) => token[t] \in Sess!Row
         /\ \A x \in Sess!Row : /\ x.family \in Sess!Token /\ x.owner \in Account /\ x.revoked \in BOOLEAN
                                /\ x # Sess!NoRow
                                /\ x = [owner |-> x.owner, family |-> x.family, revoked |-> x.revoked]
<1>1. \A t \in Sess!Token : Sess!Issued(t) => token[t] \in Sess!Row
  BY DEF SessionTypes, Sess!Issued
<1>2. ASSUME NEW x \in Sess!Row
      PROVE  /\ x.family \in Sess!Token /\ x.owner \in Account /\ x.revoked \in BOOLEAN
             /\ x # Sess!NoRow
             /\ x = [owner |-> x.owner, family |-> x.family, revoked |-> x.revoked]
  <2>1. /\ x.family \in Sess!Token /\ x.owner \in Account /\ x.revoked \in BOOLEAN
        /\ x = [owner |-> x.owner, family |-> x.family, revoked |-> x.revoked]
    BY DEF Sess!Row
  <2>2. x.family # 0
    BY <2>1, RecordsAssumption DEF Sess!Token
  <2>3. x # Sess!NoRow
    BY <2>2 DEF Sess!NoRow
  <2> QED  BY <2>1, <2>3
<1> QED  BY <1>1, <1>2

\* A request's own step, which no longer exchanges a token.
LEMMA SessionOwnStep ==
  ASSUME SessionInv, NEW r \in Request, NEW state, Sess!Become(r, state),
         state.at \in {"none", "matched", "verified"},
         state.at \in {"matched", "verified"} => state.account \in Account,
         UNCHANGED <<token, doubled, condemned, escaping>>
  PROVE  SessionInv'
<1>1. /\ SessionTypes /\ FamiliesOwned /\ RevokedAtRest
      /\ request' = [request EXCEPT ![r] = state] /\ request = [q \in Request |-> request[q]]
  BY DEF SessionInv, SessionTypes, Sess!Become
<1>2. \A q \in Request : request'[q] = IF q = r THEN state ELSE request[q]
  BY <1>1
<1>3. SessionTypes'
  <2>1. request' = [q \in Request |-> request'[q]]
    BY <1>1
  <2> QED  BY <1>1, <1>2, <2>1 DEF SessionTypes, Sess!Issued, Sess!Token, Sess!Row, Sess!NoRow
<1>4. FamiliesOwned'
  BY <1>1 DEF FamiliesOwned, Sess!Issued, Sess!Token, Sess!NoRow
<1>5. \A f : Sess!Exchanging(f)' \subseteq Sess!Exchanging(f) \ {r}
  BY <1>2 DEF Sess!Exchanging
<1>6. RevokedAtRest'
  BY <1>1, <1>5 DEF RevokedAtRest, Sess!Family, Sess!Live, Sess!Issued, Sess!Token, Sess!NoRow
<1>7. ASSUME NEW f \in Sess!Token PROVE OneClaim(f)'
  <2>1. CASE r \in Sess!Exchanging(f)
    <3>1. Unclaimed(f)' \subseteq Unclaimed(f) \cup {request[r].old}
      BY <1>1, <1>2 DEF Unclaimed, Sess!Live, Sess!Issued, Sess!Token, Sess!NoRow
    <3>2. ClaimsMoveBy(f, request[r].old, r)
      BY <1>5, <2>1, <3>1, <1>1, <1>7 DEF ClaimsMoveBy, ClaimsMove, SessionTypes
    <3> QED  BY <1>3, <3>2, OneClaimStep
  <2>2. CASE r \notin Sess!Exchanging(f)
    <3>1. Unclaimed(f)' \subseteq Unclaimed(f)
      BY <1>1, <1>2, <2>2 DEF Unclaimed, Sess!Exchanging, Sess!Live, Sess!Issued, Sess!Token, Sess!NoRow
    <3>2. ClaimsMoveBy(f, r, r)
      BY <1>5, <3>1, <1>1, <1>7 DEF ClaimsMoveBy, ClaimsMove, SessionTypes
    <3> QED  BY <1>3, <3>2, OneClaimStep
  <2> QED  BY <2>1, <2>2
<1> QED  BY <1>3, <1>4, <1>6, <1>7 DEF SessionInv, Sess!Token

\* The row of a token is read and judged.
LEMMA SessionPresents ==
  ASSUME SessionInv, NEW r \in Request, NEW t \in Sess!Token, Sess!Present(r, t)
  PROVE  SessionInv'
<1> DEFINE state == [at |-> IF token[t].revoked THEN "reused" ELSE "valid", old |-> t]
           f0 == token[t].family
<1>1. /\ SessionTypes /\ FamiliesOwned /\ RevokedAtRest
      /\ request = [q \in Request |-> request[q]] /\ doubled \in [Sess!Token -> Nat]
  BY DEF SessionInv, SessionTypes
<1>2. /\ request[r].at = "none" /\ Sess!Issued(t)
      /\ request' = [request EXCEPT ![r] = state]
      /\ UNCHANGED <<token, condemned, escaping>>
  BY DEF Sess!Present, Sess!Become, Sess!Quiet
<1>3. /\ \A q \in Request : request'[q] = IF q = r THEN state ELSE request[q]
      /\ request' = [q \in Request |-> request'[q]]
  BY <1>1, <1>2
<1>4. token[t] \in Sess!Row /\ f0 \in Sess!Token
  BY <1>1, <1>2, TokenShape
<1>5. /\ token[t].revoked => doubled' = doubled
      /\ ~token[t].revoked =>
           doubled' = IF \E s \in Sess!Exchanging(f0) : request[s].old = t
                      THEN [doubled EXCEPT ![f0] = @ + 1] ELSE doubled
  BY DEF Sess!Present
<1>6. doubled' \in [Sess!Token -> Nat] /\ \A f \in Sess!Token : doubled[f] <= doubled'[f]
  <2>1. CASE doubled' = doubled
    BY <1>1, <2>1
  <2>2. CASE doubled' = [doubled EXCEPT ![f0] = @ + 1]
    BY <1>1, <1>4, <2>2
  <2> QED  BY <1>5, <2>1, <2>2
<1>7. SessionTypes'
  <2>1. state.at \in {"valid", "reused"} /\ state = [at |-> state.at, old |-> state.old] /\ state.old = t
    OBVIOUS
  <2> HIDE DEF state
  <2> QED  BY <1>1, <1>2, <1>3, <1>6, <2>1 DEF SessionTypes, Sess!Issued, Sess!Token, Sess!Row, Sess!NoRow
<1>8. FamiliesOwned'
  BY <1>1, <1>2 DEF FamiliesOwned, Sess!Issued, Sess!Token, Sess!NoRow
<1>9. state.old = t /\ (state.at = "valid" => ~token[t].revoked) /\ (state.at # "valid" => state.at = "reused")
      /\ (state.at # "valid" => token[t].revoked)
  OBVIOUS
<1> HIDE DEF state
<1>10. \A f : /\ Sess!Exchanging(f)' \subseteq Sess!Exchanging(f) \cup {r}
              /\ state.at # "valid" \/ f # f0 => Sess!Exchanging(f)' \subseteq Sess!Exchanging(f)
  BY <1>2, <1>3, <1>9 DEF Sess!Exchanging
<1>11. state.at = "valid" => f0 \notin condemned \ escaping
  BY <1>1, <1>2, <1>9 DEF RevokedAtRest, Sess!Family, Sess!Live
<1>12. RevokedAtRest'
  BY <1>1, <1>2, <1>10, <1>11 DEF RevokedAtRest, Sess!Family, Sess!Live, Sess!Issued, Sess!Token, Sess!NoRow
<1>13. ASSUME NEW f \in Sess!Token PROVE OneClaim(f)'
  <2>1. Unclaimed(f)' \subseteq Unclaimed(f)
    BY <1>2, <1>3, <1>9 DEF Unclaimed, Sess!Live, Sess!Issued, Sess!Token, Sess!NoRow
  <2>2. CASE state.at # "valid" \/ f # f0
    <3>1. ClaimsMoveBy(f, t, r)
      BY <1>6, <1>10, <2>1, <2>2 DEF ClaimsMoveBy, ClaimsMove
    <3> QED  BY <1>7, <3>1, OneClaimStep
  <2>3. CASE state.at = "valid" /\ f = f0 /\ t \in Unclaimed(f)
    <3>1. Unclaimed(f)' \subseteq Unclaimed(f) \ {t}
      BY <1>2, <1>3, <1>9, <2>1, <2>3 DEF Unclaimed
    <3>2. ClaimsMoveBy(f, t, r)
      BY <1>6, <1>10, <2>3, <3>1 DEF ClaimsMoveBy, ClaimsMove
    <3> QED  BY <1>7, <3>2, OneClaimStep
  <2>4. CASE state.at = "valid" /\ f = f0 /\ t \notin Unclaimed(f)
    <3>1. PICK s \in Request : request[s].at = "valid" /\ request[s].old = t
      BY <1>2, <1>9, <2>4 DEF Unclaimed, Sess!Live
    <3>2. s \in Sess!Exchanging(f0)
      BY <3>1 DEF Sess!Exchanging
    <3>3. doubled'[f] = doubled[f] + 1
      BY <1>1, <1>4, <1>5, <1>9, <2>4, <3>1, <3>2
    <3>4. ClaimsMoveBy(f, t, r)
      BY <1>10, <2>1, <3>3 DEF ClaimsMoveBy, ClaimsMove
    <3> QED  BY <1>7, <3>4, OneClaimStep
  <2> QED  BY <2>2, <2>3, <2>4
<1> QED  BY <1>7, <1>8, <1>12, <1>13 DEF SessionInv, Sess!Token

\* The token read is revoked: whoever found it valid still exchanges it.
LEMMA SessionConsumes ==
  ASSUME SessionInv, NEW r \in Request, Sess!Consume(r)
  PROVE  SessionInv'
<1> DEFINE old == request[r].old
           state == [at |-> "consumed", old |-> old]
<1>1. /\ SessionTypes /\ FamiliesOwned /\ RevokedAtRest
      /\ request = [q \in Request |-> request[q]] /\ token = [s \in Sess!Token |-> token[s]]
  BY DEF SessionInv, SessionTypes
<1>2. /\ request[r].at = "valid" /\ request[r] = [at |-> "valid", old |-> old]
      /\ old \in Sess!Token /\ Sess!Issued(old)
  BY <1>1 DEF Sess!Consume, SessionTypes
<1>3. /\ request' = [request EXCEPT ![r] = state]
      /\ token' = [token EXCEPT ![old].revoked = TRUE]
      /\ UNCHANGED <<doubled, condemned, escaping>>
  <2>1. [request[r] EXCEPT !.at = "consumed"] = state
    BY <1>2
  <2> QED  BY <2>1 DEF Sess!Consume, Sess!Become
<1>4. /\ \A q \in Request : request'[q] = IF q = r THEN state ELSE request[q]
      /\ request' = [q \in Request |-> request'[q]]
  BY <1>1, <1>3
<1>5. token[old] \in Sess!Row
  BY <1>1, <1>2, TokenShape
<1>6. \A s \in Sess!Token : token'[s] = IF s = old THEN [token[old] EXCEPT !.revoked = TRUE] ELSE token[s]
  BY <1>1, <1>3
<1>7. /\ token'[old] = [owner |-> token[old].owner, family |-> token[old].family, revoked |-> TRUE]
  BY <1>2, <1>5, <1>6, TokenShape, <1>1
<1>8. token'[old] \in Sess!Row
  BY <1>1, <1>5, <1>7, TokenShape DEF Sess!Row
<1>9. \A s \in Sess!Token : /\ Sess!Issued(s)' <=> Sess!Issued(s)
                            /\ Sess!Issued(s) => token'[s].family = token[s].family /\ token'[s].owner = token[s].owner
                            /\ Sess!Live(s)' <=> Sess!Live(s) /\ s # old
                            /\ token'[s] \in Sess!Row \cup {Sess!NoRow}
  <2>1. \A x \in Sess!Row : x # Sess!NoRow
    BY <1>1, TokenShape
  <2>2. ASSUME NEW s \in Sess!Token, s = old
        PROVE  /\ Sess!Issued(s)' /\ Sess!Issued(s) /\ ~Sess!Live(s)'
               /\ token'[s].family = token[s].family /\ token'[s].owner = token[s].owner
               /\ token'[s] \in Sess!Row \cup {Sess!NoRow}
    BY <1>2, <1>7, <1>8, <2>1, <2>2 DEF Sess!Issued, Sess!Live, Sess!NoRow
  <2>3. ASSUME NEW s \in Sess!Token, s # old
        PROVE  /\ Sess!Issued(s)' <=> Sess!Issued(s)
               /\ token'[s].family = token[s].family /\ token'[s].owner = token[s].owner
               /\ Sess!Live(s)' <=> Sess!Live(s)
               /\ token'[s] \in Sess!Row \cup {Sess!NoRow}
    BY <1>1, <1>6, <2>3 DEF Sess!Issued, Sess!Live, Sess!NoRow, SessionTypes
  <2> QED  BY <2>2, <2>3
<1>10. /\ state.at = "consumed" /\ state.old = old /\ state = [at |-> state.at, old |-> state.old]
  OBVIOUS
<1> HIDE DEF state
<1>11. SessionTypes'
  <2>1. token' \in [Sess!Token -> Sess!Row \cup {Sess!NoRow}]
    BY <1>1, <1>3, <1>9
  <2>2. \A q \in Request : request'[q].at \in {"valid", "consumed", "reused"} =>
              /\ request'[q] = [at |-> request'[q].at, old |-> request'[q].old]
              /\ request'[q].old \in Sess!Token /\ token'[request'[q].old] # Sess!NoRow
    <3> SUFFICES ASSUME NEW q \in Request, request'[q].at \in {"valid", "consumed", "reused"}
                 PROVE  /\ request'[q] = [at |-> request'[q].at, old |-> request'[q].old]
                        /\ request'[q].old \in Sess!Token /\ token'[request'[q].old] # Sess!NoRow
      OBVIOUS
    <3>1. CASE q = r
      BY <3>1, <1>2, <1>4, <1>9, <1>10 DEF Sess!Issued, Sess!NoRow
    <3>2. CASE q # r
      <4>1. request'[q] = request[q]
        BY <3>2, <1>4
      <4>2. /\ request[q] = [at |-> request[q].at, old |-> request[q].old]
            /\ request[q].old \in Sess!Token /\ Sess!Issued(request[q].old)
        BY <1>1, <4>1 DEF SessionTypes
      <4>3. token'[request[q].old] # Sess!NoRow
        BY <4>2, <1>9 DEF Sess!Issued, Sess!NoRow
      <4> QED  BY <4>1, <4>2, <4>3 DEF Sess!Issued, Sess!NoRow
    <3> QED  BY <3>1, <3>2
  <2>3. \A q \in Request : request'[q].at \in {"matched", "verified"} => request'[q].account \in Account
    BY <1>1, <1>4, <1>10 DEF SessionTypes
  <2>4. doubled' \in [Sess!Token -> Nat] /\ condemned' \subseteq Sess!Token
    BY <1>1, <1>3 DEF SessionTypes
  <2> QED  BY <1>4, <2>1, <2>2, <2>3, <2>4 DEF SessionTypes, Sess!Token, Sess!Row, Sess!NoRow, Sess!Issued
<1>12. FamiliesOwned'
  <2>1. \A s \in Sess!Token : Sess!Issued(s) => token[s].family \in Sess!Token
    BY <1>1, TokenShape
  <2> QED  BY <1>1, <1>3, <1>9, <2>1 DEF FamiliesOwned, Sess!Token, SessionTypes
<1>13. \A q \in Request : request[q].at \in {"valid", "consumed"} => request[q].old \in Sess!Token /\ Sess!Issued(request[q].old)
  BY <1>1 DEF SessionTypes
<1>14. \A f : Sess!Exchanging(f)' \subseteq Sess!Exchanging(f)
  BY <1>2, <1>4, <1>9, <1>10, <1>13 DEF Sess!Exchanging
<1>15. RevokedAtRest'
  BY <1>1, <1>3, <1>9, <1>14 DEF RevokedAtRest, Sess!Family, Sess!Token
<1>16. ASSUME NEW f \in Sess!Token PROVE OneClaim(f)'
  <2>1. Unclaimed(f)' \subseteq Unclaimed(f)
    <3> SUFFICES ASSUME NEW s \in Unclaimed(f)' PROVE s \in Unclaimed(f)
      OBVIOUS
    <3>1. /\ s \in Sess!Token /\ Sess!Live(s)' /\ token'[s].family = f
          /\ \A q \in Request : ~(request'[q].at = "valid" /\ request'[q].old = s)
      BY DEF Unclaimed, Sess!Token
    <3>2. Sess!Live(s) /\ s # old /\ token[s].family = f
      BY <1>9, <3>1 DEF Sess!Live
    <3>3. \A q \in Request : ~(request[q].at = "valid" /\ request[q].old = s)
      BY <1>2, <1>4, <3>1, <3>2
    <3> QED  BY <3>1, <3>2, <3>3 DEF Unclaimed
  <2>2. doubled[f] <= doubled'[f]
    BY <1>1, <1>3 DEF SessionTypes
  <2>3. ClaimsMoveBy(f, old, r)
    BY <1>14, <2>1, <2>2 DEF ClaimsMoveBy, ClaimsMove
  <2> QED  BY <1>11, <2>3, OneClaimStep
<1> QED  BY <1>11, <1>12, <1>15, <1>16 DEF SessionInv, Sess!Token

\* A row is inserted: t is a fresh token of a, in a family of a or of its own.
LEMMA SessionStores ==
  ASSUME SessionInv, NEW r \in Request, NEW t \in Sess!Token, NEW a \in Account, NEW f0 \in Sess!Token,
         Sess!Store(a, t, f0), Sess!Become(r, Sess!Quiet), UNCHANGED <<doubled, condemned, escaping>>,
         request[r].at # "valid",
         \/ f0 = t
         \/ /\ r \in Sess!Exchanging(f0) /\ f0 \notin condemned \ escaping /\ Sess!Issued(f0)
            /\ \A s \in Sess!Token : Sess!Issued(s) /\ token[s].family = f0 => token[s].owner = a
  PROVE  SessionInv'
<1> DEFINE row == [owner |-> a, family |-> f0, revoked |-> FALSE]
<1>1. /\ SessionTypes /\ FamiliesOwned /\ RevokedAtRest
      /\ request = [q \in Request |-> request[q]] /\ token = [s \in Sess!Token |-> token[s]]
  BY DEF SessionInv, SessionTypes
<1>2. /\ request' = [request EXCEPT ![r] = Sess!Quiet] /\ Sess!Quiet.at = "none"
      /\ token' = [token EXCEPT ![t] = row] /\ ~Sess!Issued(t)
  BY DEF Sess!Store, Sess!Become, Sess!Quiet
<1>3. row \in Sess!Row /\ row.owner = a /\ row.family = f0
  BY DEF Sess!Row
<1>4. row # Sess!NoRow
  BY <1>1, <1>3, TokenShape
<1> HIDE DEF row
<1>5. /\ \A q \in Request : request'[q] = IF q = r THEN Sess!Quiet ELSE request[q]
      /\ request' = [q \in Request |-> request'[q]]
      /\ \A s \in Sess!Token : token'[s] = IF s = t THEN row ELSE token[s]
  BY <1>1, <1>2
<1>6. \A s \in Sess!Token : (token'[s] # Sess!NoRow <=> s = t \/ Sess!Issued(s))
  BY <1>4, <1>5 DEF Sess!Issued
<1>7. \A q \in Request : request'[q].at \in {"valid", "consumed", "reused"} =>
            /\ q # r /\ request[q] = [at |-> request[q].at, old |-> request[q].old]
            /\ request[q].old \in Sess!Token /\ Sess!Issued(request[q].old) /\ request[q].old # t
            /\ request'[q] = request[q]
  BY <1>1, <1>2, <1>5 DEF SessionTypes
<1>8. SessionTypes'
  <2>1. token' \in [Sess!Token -> Sess!Row \cup {Sess!NoRow}]
    BY <1>1, <1>2, <1>3 DEF SessionTypes
  <2>2. \A q \in Request : request'[q].at \in {"valid", "consumed", "reused"} =>
              /\ request'[q] = [at |-> request'[q].at, old |-> request'[q].old]
              /\ request'[q].old \in Sess!Token /\ token'[request'[q].old] # Sess!NoRow
    BY <1>6, <1>7
  <2>3. \A q \in Request : request'[q].at \in {"matched", "verified"} => request'[q].account \in Account
    BY <1>1, <1>2, <1>5 DEF SessionTypes
  <2>4. doubled' \in [Sess!Token -> Nat] /\ condemned' \subseteq Sess!Token
    BY <1>1 DEF SessionTypes
  <2> QED  BY <1>5, <2>1, <2>2, <2>3, <2>4 DEF SessionTypes, Sess!Token, Sess!Row, Sess!NoRow, Sess!Issued
<1>9. /\ \A s \in Sess!Token : Sess!Issued(s) => token[s].family \in Sess!Token /\ token[s].family # t
                                                /\ Sess!Issued(token[s].family)
      /\ t \notin condemned
  BY <1>1, <1>2, TokenShape DEF FamiliesOwned
<1>10. FamiliesOwned'
  <2>1. \A s \in Sess!Token : token'[s] # Sess!NoRow => token'[token'[s].family] # Sess!NoRow
    <3> SUFFICES ASSUME NEW s \in Sess!Token, token'[s] # Sess!NoRow
                 PROVE  token'[token'[s].family] # Sess!NoRow
      OBVIOUS
    <3>1. CASE s = t
      <4>1. token'[s].family = f0 /\ (f0 = t \/ Sess!Issued(f0))
        BY <3>1, <1>3, <1>5
      <4> QED  BY <4>1, <1>6
    <3>2. CASE s # t
      BY <3>2, <1>5, <1>6, <1>9
    <3> QED  BY <3>1, <3>2
  <2>2. \A s1, s2 \in Sess!Token :
          token'[s1] # Sess!NoRow /\ token'[s2] # Sess!NoRow /\ token'[s1].family = token'[s2].family
            => token'[s1].owner = token'[s2].owner
    <3> SUFFICES ASSUME NEW s1 \in Sess!Token, NEW s2 \in Sess!Token, token'[s1] # Sess!NoRow,
                        token'[s2] # Sess!NoRow, token'[s1].family = token'[s2].family
                 PROVE  token'[s1].owner = token'[s2].owner
      OBVIOUS
    <3>1. \A s \in Sess!Token : s # t /\ token'[s] # Sess!NoRow /\ token'[s].family = f0 => token'[s].owner = a
      BY <1>5, <1>6, <1>9
    <3>2. CASE s1 = t \/ s2 = t
      BY <1>3, <1>5, <3>1, <3>2
    <3>3. CASE s1 # t /\ s2 # t
      BY <1>1, <1>5, <1>6, <3>3 DEF FamiliesOwned
    <3> QED  BY <3>2, <3>3
  <2>3. \A f \in condemned' : token'[f] # Sess!NoRow
    BY <1>1, <1>6 DEF FamiliesOwned, SessionTypes
  <2> QED  BY <2>1, <2>2, <2>3 DEF FamiliesOwned, Sess!Issued, Sess!Token, Sess!NoRow
<1>11. \A f : Sess!Exchanging(f)' \subseteq Sess!Exchanging(f) \ {r}
  <2> SUFFICES ASSUME NEW f, NEW q \in Sess!Exchanging(f)'
               PROVE  q \in Sess!Exchanging(f) \ {r}
    OBVIOUS
  <2>1. q \in Request /\ request'[q].at \in {"valid", "consumed"} /\ token'[request'[q].old].family = f
    BY DEF Sess!Exchanging
  <2>2. q # r /\ request'[q] = request[q] /\ token'[request[q].old] = token[request[q].old]
    BY <1>5, <1>7, <2>1
  <2> QED  BY <2>1, <2>2 DEF Sess!Exchanging
<1>12. \A s \in Sess!Token : token'[s] # Sess!NoRow /\ ~token'[s].revoked => s = t \/ Sess!Live(s)
  BY <1>5, <1>6 DEF Sess!Live
<1>13. RevokedAtRest'
  <2> SUFFICES ASSUME NEW f \in condemned \ escaping
               PROVE  /\ \A q \in Request : q \notin Sess!Exchanging(f)'
                      /\ \A s \in Sess!Token : token'[s] # Sess!NoRow /\ token'[s].family = f => token'[s].revoked
    BY DEF RevokedAtRest, Sess!Family, Sess!Live, Sess!Issued, Sess!Token, Sess!NoRow, Sess!Exchanging
  <2>1. f # f0
    BY <1>9
  <2>2. \A s \in Sess!Token : Sess!Issued(s) /\ token[s].family = f => token[s].revoked
    BY <1>1 DEF RevokedAtRest, Sess!Family, Sess!Live
  <2>3. \A s \in Sess!Token : token'[s] # Sess!NoRow /\ token'[s].family = f => token'[s].revoked
    BY <1>3, <1>5, <1>6, <2>1, <2>2
  <2>4. \A q \in Request : q \notin Sess!Exchanging(f)
    BY <1>1 DEF RevokedAtRest
  <2> QED  BY <1>11, <2>3, <2>4
<1>14. ASSUME NEW f \in Sess!Token PROVE OneClaim(f)'
  <2>1. Unclaimed(f)' \subseteq Unclaimed(f) \cup {t} /\ (f # f0 => Unclaimed(f)' \subseteq Unclaimed(f))
    <3> SUFFICES ASSUME NEW s \in Unclaimed(f)'
                 PROVE  IF s = t THEN f = f0 ELSE s \in Unclaimed(f)
      OBVIOUS
    <3>1. /\ s \in Sess!Token /\ token'[s] # Sess!NoRow /\ ~token'[s].revoked /\ token'[s].family = f
          /\ \A q \in Request : ~(request'[q].at = "valid" /\ request'[q].old = s)
      BY DEF Unclaimed, Sess!Live, Sess!Issued, Sess!Token, Sess!NoRow
    <3>2. CASE s = t
      BY <3>1, <3>2, <1>3, <1>5
    <3>3. CASE s # t
      <4>1. Sess!Live(s) /\ token[s].family = f
        BY <3>1, <3>3, <1>5, <1>12
      <4>2. \A q \in Request : ~(request[q].at = "valid" /\ request[q].old = s)
        BY <3>1, <1>5
      <4> QED  BY <3>1, <3>3, <4>1, <4>2 DEF Unclaimed
    <3> QED  BY <3>2, <3>3
  <2>2. doubled[f] <= doubled'[f]
    BY <1>1 DEF SessionTypes
  <2>3. CASE f # f0
    <3>1. ClaimsMoveBy(f, t, r)
      BY <1>11, <2>1, <2>2, <2>3 DEF ClaimsMoveBy, ClaimsMove
    <3> QED  BY <1>8, <3>1, OneClaimStep
  <2>4. CASE f = f0 /\ r \in Sess!Exchanging(f0)
    <3>1. ClaimsMoveBy(f, t, r)
      BY <1>11, <2>1, <2>2, <2>4 DEF ClaimsMoveBy, ClaimsMove
    <3> QED  BY <1>8, <3>1, OneClaimStep
  <2>5. CASE f = f0 /\ f0 = t
    <3>1. Unclaimed(f) = {}
      BY <1>9, <2>5 DEF Unclaimed, Sess!Live
    <3>2. Sess!Exchanging(f) = {}
      BY <1>1, <1>9, <2>5 DEF Sess!Exchanging, SessionTypes
    <3>3. ClaimsMoveBy(f, t, r)
      BY <1>11, <2>1, <2>2, <3>1, <3>2 DEF ClaimsMoveBy, ClaimsMove
    <3> QED  BY <1>8, <3>3, OneClaimStep
  <2> QED  BY <2>3, <2>4, <2>5
<1> QED  BY <1>8, <1>10, <1>13, <1>14 DEF SessionInv, Sess!Token

\* Whole families are revoked, for an account or because a token was presented twice.
LEMMA SessionRevokes ==
  ASSUME SessionInv, NEW ts, ts \subseteq {t \in Sess!Token : Sess!Issued(t)},
         \A s \in Sess!Token, t \in ts : Sess!Issued(s) /\ token[s].family = token[t].family => s \in ts,
         Sess!RevokeAll(ts), UNCHANGED doubled, request' = [q \in Request |-> request'[q]],
         \A q \in Request : request'[q] = request[q] \/ (request'[q].at = "none"
                                                      /\ request[q].at \notin {"valid", "consumed"})
  PROVE  SessionInv'
<1> DEFINE fs == {token[t].family : t \in ts}
<1>1. /\ SessionTypes /\ FamiliesOwned /\ RevokedAtRest
      /\ token' = [t \in Sess!Token |-> IF t \in ts THEN [token[t] EXCEPT !.revoked = TRUE] ELSE token[t]]
      /\ condemned' = condemned \cup fs
      /\ escaping' = escaping \cup {f \in fs : Sess!Exchanging(f) # {}}
  BY DEF SessionInv, Sess!RevokeAll
<1>2. \A s \in Sess!Token : /\ token'[s] # Sess!NoRow <=> Sess!Issued(s)
                            /\ Sess!Issued(s) => token'[s].family = token[s].family /\ token'[s].owner = token[s].owner
                            /\ token'[s] # Sess!NoRow /\ ~token'[s].revoked <=> Sess!Live(s) /\ s \notin ts
                            /\ token'[s] \in Sess!Row \cup {Sess!NoRow}
  <2>1. ASSUME NEW s \in Sess!Token, s \in ts
        PROVE  /\ token'[s] # Sess!NoRow /\ Sess!Issued(s) /\ token'[s].revoked
               /\ token'[s].family = token[s].family /\ token'[s].owner = token[s].owner
               /\ token'[s] \in Sess!Row
    <3>1. Sess!Issued(s) /\ token[s] \in Sess!Row
      BY <1>1, <2>1, TokenShape
    <3>2. token[s] = [owner |-> token[s].owner, family |-> token[s].family, revoked |-> token[s].revoked]
          /\ token[s].family \in Sess!Token /\ token[s].owner \in Account
      BY <1>1, <3>1, TokenShape
    <3>3. token'[s] = [owner |-> token[s].owner, family |-> token[s].family, revoked |-> TRUE]
      BY <1>1, <2>1, <3>2
    <3>4. token'[s] \in Sess!Row
      BY <3>2, <3>3 DEF Sess!Row
    <3>5. token'[s] # Sess!NoRow
      BY <1>1, <3>4, TokenShape
    <3>6. token'[s].revoked /\ token'[s].family = token[s].family /\ token'[s].owner = token[s].owner
      BY <3>3
    <3> QED  BY <3>1, <3>4, <3>5, <3>6
  <2>2. ASSUME NEW s \in Sess!Token, s \notin ts
        PROVE  token'[s] = token[s] /\ token[s] \in Sess!Row \cup {Sess!NoRow}
    BY <1>1, <2>2 DEF SessionTypes
  <2> QED  BY <2>1, <2>2 DEF Sess!Issued, Sess!Live
<1>3. \A q \in Request : request'[q].at \in {"valid", "consumed", "reused"} =>
            /\ request'[q] = request[q] /\ request[q] = [at |-> request[q].at, old |-> request[q].old]
            /\ request[q].old \in Sess!Token /\ Sess!Issued(request[q].old)
  BY <1>1 DEF SessionTypes
<1>4. \A s \in Sess!Token : Sess!Issued(s) => token[s].family \in Sess!Token /\ Sess!Issued(token[s].family)
  BY <1>1, TokenShape DEF FamiliesOwned
<1>5. fs \subseteq {f \in Sess!Token : Sess!Issued(f)}
  BY <1>4
<1>6. SessionTypes'
  <2>1. token' \in [Sess!Token -> Sess!Row \cup {Sess!NoRow}]
    BY <1>1, <1>2
  <2>2. \A q \in Request : request'[q].at \in {"valid", "consumed", "reused"} =>
              /\ request'[q] = [at |-> request'[q].at, old |-> request'[q].old]
              /\ request'[q].old \in Sess!Token /\ token'[request'[q].old] # Sess!NoRow
    BY <1>2, <1>3
  <2>3. \A q \in Request : request'[q].at \in {"matched", "verified"} => request'[q].account \in Account
    BY <1>1 DEF SessionTypes
  <2>4. doubled' \in [Sess!Token -> Nat] /\ condemned' \subseteq Sess!Token
    BY <1>1, <1>5 DEF SessionTypes
  <2> QED  BY <2>1, <2>2, <2>3, <2>4 DEF SessionTypes, Sess!Token, Sess!Row, Sess!NoRow, Sess!Issued
<1>7. FamiliesOwned'
  <2>1. \A s \in Sess!Token : token'[s] # Sess!NoRow => token'[token'[s].family] # Sess!NoRow
    BY <1>2, <1>4
  <2>2. \A s1, s2 \in Sess!Token :
          token'[s1] # Sess!NoRow /\ token'[s2] # Sess!NoRow /\ token'[s1].family = token'[s2].family
            => token'[s1].owner = token'[s2].owner
    <3> SUFFICES ASSUME NEW s1 \in Sess!Token, NEW s2 \in Sess!Token, token'[s1] # Sess!NoRow,
                        token'[s2] # Sess!NoRow, token'[s1].family = token'[s2].family
                 PROVE  token'[s1].owner = token'[s2].owner
      OBVIOUS
    <3>1. Sess!Issued(s1) /\ Sess!Issued(s2) /\ token[s1].family = token[s2].family
      BY <1>2
    <3>2. token[s1].owner = token[s2].owner
      BY <1>1, <3>1 DEF FamiliesOwned
    <3> QED  BY <1>2, <3>1, <3>2
  <2>3. \A f \in condemned' : token'[f] # Sess!NoRow
    BY <1>1, <1>2, <1>5 DEF FamiliesOwned, SessionTypes
  <2> QED  BY <2>1, <2>2, <2>3 DEF FamiliesOwned, Sess!Issued, Sess!Token, Sess!NoRow
<1>8. \A f : Sess!Exchanging(f)' \subseteq Sess!Exchanging(f)
  <2> SUFFICES ASSUME NEW f, NEW q \in Sess!Exchanging(f)'
               PROVE  q \in Sess!Exchanging(f)
    OBVIOUS
  <2>1. q \in Request /\ request'[q].at \in {"valid", "consumed"} /\ token'[request'[q].old].family = f
    BY DEF Sess!Exchanging
  <2>2. request'[q] = request[q] /\ token[request[q].old].family = f
    BY <1>2, <1>3, <2>1
  <2> QED  BY <2>1, <2>2 DEF Sess!Exchanging
<1>9. RevokedAtRest'
  <2> SUFFICES ASSUME NEW f \in condemned' \ escaping'
               PROVE  /\ \A q \in Request : q \notin Sess!Exchanging(f)'
                      /\ \A s \in Sess!Token : token'[s] # Sess!NoRow /\ token'[s].family = f => token'[s].revoked
    BY DEF RevokedAtRest, Sess!Family, Sess!Live, Sess!Issued, Sess!Token, Sess!NoRow, Sess!Exchanging
  <2>1. CASE f \in fs
    <3>1. Sess!Exchanging(f) = {}
      BY <1>1, <2>1
    <3>2. \A s \in Sess!Token : Sess!Issued(s) /\ token[s].family = f => s \in ts
      BY <2>1
    <3> QED  BY <1>2, <1>8, <3>1, <3>2
  <2>2. CASE f \notin fs
    <3>1. f \in condemned \ escaping
      BY <1>1, <2>2
    <3>2. \A s \in Sess!Token : Sess!Issued(s) /\ token[s].family = f => ~Sess!Live(s)
      BY <1>1, <3>1 DEF RevokedAtRest, Sess!Family
    <3>3. \A q \in Request : q \notin Sess!Exchanging(f)
      BY <1>1, <3>1 DEF RevokedAtRest
    <3> QED  BY <1>2, <1>8, <3>2, <3>3
  <2> QED  BY <2>1, <2>2
<1>10. ASSUME NEW f \in Sess!Token PROVE OneClaim(f)'
  <2>1. Unclaimed(f)' \subseteq Unclaimed(f)
    <3> SUFFICES ASSUME NEW s \in Unclaimed(f)' PROVE s \in Unclaimed(f)
      OBVIOUS
    <3>1. /\ s \in Sess!Token /\ token'[s] # Sess!NoRow /\ ~token'[s].revoked /\ token'[s].family = f
          /\ \A q \in Request : ~(request'[q].at = "valid" /\ request'[q].old = s)
      BY DEF Unclaimed, Sess!Live, Sess!Issued, Sess!Token, Sess!NoRow
    <3>2. Sess!Live(s) /\ token[s].family = f
      BY <1>2, <3>1
    <3>3. \A q \in Request : ~(request[q].at = "valid" /\ request[q].old = s)
      BY <3>1
    <3> QED  BY <3>1, <3>2, <3>3 DEF Unclaimed
  <2>2. doubled[f] <= doubled'[f]
    BY <1>1 DEF SessionTypes
  <2>3. ClaimsMoveBy(f, f, f)
    BY <1>8, <2>1, <2>2 DEF ClaimsMoveBy, ClaimsMove
  <2> QED  BY <1>6, <2>3, OneClaimStep
<1> QED  BY <1>6, <1>7, <1>9, <1>10 DEF SessionInv, Sess!Token

LEMMA SessionRevokesAccount ==
  ASSUME SessionInv, NEW a \in Account, Sess!RevokeAccount(a)
  PROVE  SessionInv'
<1>1. /\ SessionTypes /\ FamiliesOwned /\ request = [q \in Request |-> request[q]]
  BY DEF SessionInv, SessionTypes
<1>2. /\ Sess!RevokeAll(Sess!Owned(a)) /\ UNCHANGED <<request, doubled>>
  BY DEF Sess!RevokeAccount
<1>3. Sess!Owned(a) \subseteq {t \in Sess!Token : Sess!Issued(t)}
  BY DEF Sess!Owned
<1>4. \A s \in Sess!Token, t \in Sess!Owned(a) : Sess!Issued(s) /\ token[s].family = token[t].family => s \in Sess!Owned(a)
  BY <1>1 DEF Sess!Owned, FamiliesOwned
<1>5. request' = [q \in Request |-> request'[q]]
  BY <1>1, <1>2
<1> QED  BY <1>2, <1>3, <1>4, <1>5, SessionRevokes

LEMMA SessionRevokesFamily ==
  ASSUME SessionInv, NEW r \in Request, Sess!RevokeFamily(r)
  PROVE  SessionInv'
<1> DEFINE f == token[request[r].old].family
<1>1. /\ SessionTypes /\ FamiliesOwned /\ request = [q \in Request |-> request[q]]
  BY DEF SessionInv, SessionTypes
<1>2. /\ Sess!RevokeAll(Sess!Family(f)) /\ UNCHANGED doubled /\ request[r].at = "reused"
      /\ request' = [request EXCEPT ![r] = Sess!Quiet] /\ Sess!Quiet.at = "none"
  BY DEF Sess!RevokeFamily, Sess!Become, Sess!Quiet
<1>3. Sess!Family(f) \subseteq {t \in Sess!Token : Sess!Issued(t)}
  BY DEF Sess!Family
<1>4. \A s \in Sess!Token, t \in Sess!Family(f) : Sess!Issued(s) /\ token[s].family = token[t].family => s \in Sess!Family(f)
  BY DEF Sess!Family
<1>5. request' = [q \in Request |-> request'[q]]
  BY <1>1, <1>2
<1>6. \A q \in Request : request'[q] = request[q] \/ (request'[q].at = "none" /\ request[q].at \notin {"valid", "consumed"})
  BY <1>1, <1>2
<1> QED  BY <1>2, <1>3, <1>4, <1>5, <1>6, SessionRevokes

LEMMA SessionStutter ==
  ASSUME SessionInv, UNCHANGED <<token, request, doubled, condemned, escaping>>
  PROVE  SessionInv'
<1>1. SessionTypes' /\ FamiliesOwned' /\ RevokedAtRest'
  BY DEF SessionInv, SessionTypes, FamiliesOwned, RevokedAtRest, Sess!Exchanging, Sess!Family, Sess!Live,
         Sess!Issued, Sess!Token, Sess!Row, Sess!NoRow
<1>2. ASSUME NEW f PROVE Unclaimed(f)' = Unclaimed(f) /\ Sess!Exchanging(f)' = Sess!Exchanging(f)
  BY DEF Unclaimed, Sess!Exchanging, Sess!Live, Sess!Issued, Sess!Token, Sess!NoRow
<1>3. ASSUME NEW f \in Sess!Token PROVE OneClaim(f)'
  <2>1. ClaimsMoveBy(f, f, f)
    BY <1>2 DEF ClaimsMoveBy, ClaimsMove, SessionInv, SessionTypes
  <2> QED  BY <1>1, <2>1, OneClaimStep
<1> QED  BY <1>1, <1>3 DEF SessionInv, Sess!Token

\* Sessions' own Cardinality is the one the lemmas on finite sets are about.
LEMMA SessCardinality == \A S : Sess!Cardinality(S) = Cardinality(S)
  BY DEF Sess!Cardinality, Cardinality

LEMMA SessionStep ==
  ASSUME SessionInv, Sess!Next
  PROVE  SessionInv'
<1>1. /\ SessionTypes /\ FamiliesOwned /\ RevokedAtRest /\ request = [q \in Request |-> request[q]]
      /\ token = [s \in Sess!Token |-> token[s]]
  BY DEF SessionInv, SessionTypes
<1>2. ASSUME NEW a \in Account, Sess!NonceExpires(a) \/ \E n \in Nonce : Sess!GetNonce(a, n)
      PROVE  SessionInv'
  <2>1. UNCHANGED <<token, request, doubled, condemned, escaping>>
    BY <1>2 DEF Sess!NonceExpires, Sess!GetNonce
  <2> QED  BY <2>1, SessionStutter
<1>3. ASSUME NEW a \in Account,
             Sess!Logout(a) \/ Sess!PrivyLogout(a) \/ Sess!RequestDeletion(a) \/ Sess!PresentAnothers(a)
      PROVE  SessionInv'
  BY <1>3, SessionRevokesAccount DEF Sess!Logout, Sess!PrivyLogout, Sess!RequestDeletion, Sess!PresentAnothers
<1>4. ASSUME NEW r \in Request, NEW a \in Account, Sess!MatchNonce(r, a)
      PROVE  SessionInv'
  <2> DEFINE state == [at |-> "matched", account |-> a, nonce |-> nonce[a]]
  <2>1. Sess!Become(r, state) /\ UNCHANGED <<token, doubled, condemned, escaping>>
    BY <1>4 DEF Sess!MatchNonce
  <2>2. state.at = "matched" /\ state.account = a
    OBVIOUS
  <2> HIDE DEF state
  <2> QED  BY <2>1, <2>2, SessionOwnStep
<1>5. ASSUME NEW r \in Request, NEW a \in Account, Sess!LogIn(r, a)
      PROVE  SessionInv'
  <2> DEFINE state == [at |-> "verified", account |-> a]
  <2>1. Sess!Become(r, state) /\ UNCHANGED <<token, doubled, condemned, escaping>>
    BY <1>5 DEF Sess!LogIn
  <2>2. state.at = "verified" /\ state.account = a
    OBVIOUS
  <2> HIDE DEF state
  <2> QED  BY <2>1, <2>2, SessionOwnStep
<1>6. ASSUME NEW r \in Request, NEW a \in Account,
             \/ Sess!MatchNonce(r, a) \/ Sess!LogInWithoutMessage(r, a) \/ Sess!CompleteTwoFactorLogin(r, a)
             \/ Sess!PrivyLogin(r, a) \/ Sess!RegisterWithEmail(r, a)
      PROVE  SessionInv'
  BY <1>4, <1>5, <1>6
  DEF Sess!LogInWithoutMessage, Sess!CompleteTwoFactorLogin, Sess!PrivyLogin, Sess!RegisterWithEmail
<1>7. ASSUME NEW r \in Request, Sess!SpendNonce(r)
      PROVE  SessionInv'
  <2> DEFINE state == [at |-> "verified", account |-> request[r].account]
  <2>1. /\ Sess!Become(r, state) /\ UNCHANGED <<token, doubled, condemned, escaping>>
        /\ request[r].at = "matched"
    BY <1>7 DEF Sess!SpendNonce
  <2>2. state.at = "verified" /\ state.account \in Account
    BY <1>1, <2>1 DEF SessionTypes
  <2> HIDE DEF state
  <2> QED  BY <2>1, <2>2, SessionOwnStep
<1>8. ASSUME NEW r \in Request, Sess!Lose(r)
      PROVE  SessionInv'
  <2>1. Sess!Become(r, Sess!Quiet) /\ UNCHANGED <<token, doubled, condemned, escaping>>
    BY <1>8 DEF Sess!Lose
  <2>2. Sess!Quiet.at = "none"
    BY DEF Sess!Quiet
  <2> QED  BY <2>1, <2>2, SessionOwnStep
<1>9. ASSUME NEW r \in Request, NEW t \in Sess!Token, Sess!StartFamily(r, t)
      PROVE  SessionInv'
  <2>1. /\ request[r].at = "verified" /\ Sess!Store(request[r].account, t, t)
        /\ Sess!Become(r, Sess!Quiet) /\ UNCHANGED <<doubled, condemned, escaping>>
    BY <1>9 DEF Sess!StartFamily
  <2>2. request[r].account \in Account
    BY <1>1, <2>1 DEF SessionTypes
  <2> QED  BY <2>1, <2>2, SessionStores
<1>10. ASSUME NEW r \in Request, NEW t \in Sess!Token, Sess!StoreSuccessor(r, t)
       PROVE  SessionInv'
  <2> DEFINE old == token[request[r].old]
  <2>1. /\ request[r].at = "consumed" /\ Sess!Store(old.owner, t, old.family)
        /\ Sess!Become(r, Sess!Quiet) /\ UNCHANGED <<doubled, condemned, escaping>>
    BY <1>10 DEF Sess!StoreSuccessor
  <2>2. request[r].old \in Sess!Token /\ Sess!Issued(request[r].old)
    BY <1>1, <2>1 DEF SessionTypes
  <2>3. old.owner \in Account /\ old.family \in Sess!Token /\ Sess!Issued(old.family)
    BY <1>1, <2>2, TokenShape DEF FamiliesOwned
  <2>4. r \in Sess!Exchanging(old.family)
    BY <2>1 DEF Sess!Exchanging
  <2>5. old.family \notin condemned \ escaping
    BY <1>1, <2>4 DEF RevokedAtRest
  <2>6. \A s \in Sess!Token : Sess!Issued(s) /\ token[s].family = old.family => token[s].owner = old.owner
    BY <1>1, <2>2 DEF FamiliesOwned
  <2> HIDE DEF old
  <2> QED  BY <2>1, <2>3, <2>4, <2>5, <2>6, SessionStores
<1>11. ASSUME NEW r \in Request,
              \/ Sess!RevokeFamily(r) \/ Sess!Consume(r)
              \/ \E t \in Sess!Token : Sess!Present(r, t)
       PROVE  SessionInv'
  BY <1>11, SessionRevokesFamily, SessionConsumes, SessionPresents
<1> QED  BY <1>2, <1>3, <1>6, <1>7, <1>8, <1>9, <1>10, <1>11 DEF Sess!Next

\* The property from the invariant: a live token is unclaimed, or one of the requests
\* that found a token valid claims it.
LEMMA ClaimsBoundLine ==
  ASSUME SessionInv
  PROVE  Sess!OneLineOfTokens
<1> SUFFICES ASSUME NEW f \in Sess!Token
             PROVE  Cardinality({t \in Sess!Family(f) : Sess!Live(t)})
                      + Cardinality({r \in Sess!Exchanging(f) : request[r].at = "consumed"}) <= 1 + doubled[f]
  BY SessCardinality DEF Sess!OneLineOfTokens
<1> DEFINE living == {t \in Sess!Family(f) : Sess!Live(t)}
           valid == {r \in Sess!Exchanging(f) : request[r].at = "valid"}
           consumed == {r \in Sess!Exchanging(f) : request[r].at = "consumed"}
           claimed == {request[r].old : r \in valid}
<1>1. /\ IsFiniteSet(Unclaimed(f)) /\ IsFiniteSet(Sess!Exchanging(f))
      /\ Cardinality(Unclaimed(f)) \in Nat /\ Cardinality(Sess!Exchanging(f)) \in Nat
  BY SessionSetsFinite
<1>2. living \subseteq Unclaimed(f) \cup claimed
  <2> SUFFICES ASSUME NEW t \in living, t \notin Unclaimed(f) PROVE t \in claimed
    OBVIOUS
  <2>1. t \in Sess!Token /\ Sess!Live(t) /\ token[t].family = f
    BY DEF Sess!Family
  <2>2. PICK r \in Request : request[r].at = "valid" /\ request[r].old = t
    BY <2>1 DEF Unclaimed
  <2>3. r \in valid
    BY <2>1, <2>2 DEF Sess!Exchanging
  <2> QED  BY <2>2, <2>3
<1>3. /\ IsFiniteSet(valid) /\ IsFiniteSet(consumed)
      /\ Cardinality(valid) \in Nat /\ Cardinality(consumed) \in Nat
  BY <1>1, FS_Subset, FS_CardinalityType
<1>4. IsFiniteSet(claimed) /\ Cardinality(claimed) <= Cardinality(valid) /\ Cardinality(claimed) \in Nat
  <2> DEFINE g == [r \in valid |-> request[r].old]
  <2>1. g \in Surjection(valid, claimed)
    BY DEF Surjection
  <2>2. IsFiniteSet(claimed) /\ Cardinality(claimed) <= Cardinality(valid)
    BY <1>3, <2>1, FS_Surjection
  <2> QED  BY <2>2, FS_CardinalityType
<1>5. Cardinality(valid) + Cardinality(consumed) = Cardinality(Sess!Exchanging(f))
  <2>1. valid \cup consumed = Sess!Exchanging(f) /\ valid \cap consumed = {}
    BY DEF Sess!Exchanging
  <2>2. Cardinality(valid \cup consumed) = Cardinality(valid) + Cardinality(consumed)
    BY <1>3, <2>1, UnionSize
  <2> QED  BY <2>1, <2>2
<1>6. IsFiniteSet(Unclaimed(f) \cup claimed)
      /\ Cardinality(Unclaimed(f) \cup claimed) <= Cardinality(Unclaimed(f)) + Cardinality(claimed)
  BY <1>1, <1>4, UnionSize
<1>7. Cardinality(living) <= Cardinality(Unclaimed(f) \cup claimed) /\ Cardinality(living) \in Nat
      /\ Cardinality(Unclaimed(f) \cup claimed) \in Nat
  BY <1>2, <1>6, FS_Subset, FS_CardinalityType
<1>8. Cardinality(Unclaimed(f)) + Cardinality(Sess!Exchanging(f)) <= 1 + doubled[f] /\ doubled[f] \in Nat
  BY DEF SessionInv, OneClaim, SessionTypes
<1> HIDE DEF living, valid, consumed, claimed
<1>9. Cardinality(living) + Cardinality(consumed) <= 1 + doubled[f]
  BY <1>1, <1>3, <1>4, <1>5, <1>6, <1>7, <1>8
<1> QED  BY <1>9 DEF living, consumed

LEMMA SessionsTogether ==
  ASSUME SessionInv, [RecordsNext]_<<part, sessionVars, deletionVars, songVars, versionVars, releaseVars, playlistVars, keyVars>>
  PROVE  SessionInv'
<1>1. CASE Sess!Next
  BY <1>1, SessionStep
<1>2. CASE UNCHANGED sessionVars
  <2>1. UNCHANGED <<token, request, doubled, condemned, escaping>>
    BY <1>2 DEF sessionVars
  <2> QED  BY <2>1, SessionStutter
<1> QED  BY <1>1, <1>2 DEF RecordsNext

LEMMA SessionsInvariant == RecordsSpec => []SessionInv
<1>1. SessionInv /\ [RecordsNext]_<<part, sessionVars, deletionVars, songVars, versionVars, releaseVars, playlistVars, keyVars>>
        => SessionInv'
  BY SessionsTogether
<1> QED  BY <1>1, SessionInit, PTL DEF RecordsSpec

\* For any number of refreshes, logins and lost requests, a family of refresh tokens
\* has one live token or is about to have it, plus one for each exchange that
\* overlapped another of the same token (refreshToken, privyRefreshToken).
THEOREM SessionsAreOneLine == RecordsSpec => []OneLineOfTokens
<1>1. SessionInv => OneLineOfTokens
  BY ClaimsBoundLine DEF OneLineOfTokens
<1> QED  BY <1>1, SessionsInvariant, PTL

\* After a logout, a deletion request or a detected reuse no token of the families
\* concerned is live again, unless a refresh was past its check at that moment
\* (revokeAllRefreshTokens, the reuse branch of refreshToken).
THEOREM RevokedSessionsStayRevoked == RecordsSpec => []RevocationHolds
<1>1. SessionInv => RevocationHolds
  BY DEF SessionInv, RevokedAtRest, RevocationHolds, Sess!RevocationHolds
<1> QED  BY <1>1, SessionsInvariant, PTL

----------------------------------------------------------------------------
(* Account deletion *)

\* The columns of a row that matter here, and its shape.
IsUserRow(row) ==
    /\ row = [c \in {"deleted", "asked", "schedule", "identity"} |-> row[c]]
    /\ row.deleted \in BOOLEAN /\ row.asked \in BOOLEAN

DeletionTypes ==
    /\ account = [u \in User |-> account[u]]
    /\ \A u \in User : IsUserRow(account[u])
    /\ requests = [u \in User |-> requests[u]]
    /\ \A u \in User : requests[u] \in Seq(Deletion!RequestStatus)
    /\ call = [c \in Caller |-> call[c]]
    /\ \A c \in Caller : call[c].op \in {"request", "cancel"} => call[c].user \in User
    /\ purger = [p \in Purger |-> purger[p]]
    /\ \A p \in Purger : /\ purger[p].todo \subseteq User
                         /\ purger[p].at \in {"checked", "threw"} =>
                              /\ purger[p] = [at |-> purger[p].at, todo |-> purger[p].todo, user |-> purger[p].user]
                              /\ purger[p].user \in User
    /\ editor = [e \in Editor |-> editor[e]]
    /\ \A e \in Editor : /\ editor[e].op \in {"none", "edit", "merge"}
                         /\ editor[e].op # "none" => editor[e].user \in User /\ IsUserRow(editor[e].copy)
                         /\ editor[e].op = "merge" => editor[e].other \in User /\ IsUserRow(editor[e].otherCopy)

\* What the row of u says, or a copy of it that may yet be saved.
SomeErased(u) ==
    \/ account[u].deleted
    \/ \E e \in Editor : \/ editor[e].op # "none" /\ editor[e].user = u /\ editor[e].copy.deleted
                         \/ editor[e].op = "merge" /\ editor[e].other = u /\ editor[e].otherCopy.deleted
SomeLiving(u) ==
    \/ ~account[u].deleted
    \/ \E e \in Editor : \/ editor[e].op # "none" /\ editor[e].user = u /\ ~editor[e].copy.deleted
                         \/ editor[e].op = "merge" /\ editor[e].other = u /\ ~editor[e].otherCopy.deleted
SomeAsked(u) ==
    \/ account[u].asked
    \/ \E e \in Editor : \/ editor[e].op # "none" /\ editor[e].user = u /\ editor[e].copy.asked
                         \/ editor[e].op = "merge" /\ editor[e].other = u /\ editor[e].otherCopy.asked

Requested(u) == \E i \in DOMAIN requests[u] : requests[u][i] = "requested"
Completed(u) == \E i \in DOMAIN requests[u] : requests[u][i] = "completed"

\* The row and its copies agree on the erasure, unless it met a copy or a body
\* named the columns.
AgreedOn(u) == u \notin exposed => ~(SomeErased(u) /\ SomeLiving(u))

\* An account kept is neither erased nor about to be.
KeptAlive(u) == u \in kept => ~Deletion!InPurge(u) /\ ~SomeErased(u) /\ ~SomeAsked(u)

\* An erasure is recorded, and so will be one that is asked for.
ErasureRecorded(u) == SomeErased(u) => Completed(u) \/ u \in unrecorded
AskRecorded(u) ==
    Deletion!InPurge(u) \/ SomeAsked(u) => Completed(u) \/ Requested(u) \/ u \in unrecorded

DeletionInv ==
    /\ DeletionTypes
    /\ \A u \in User : AgreedOn(u) /\ KeptAlive(u) /\ ErasureRecorded(u) /\ AskRecorded(u)

\* Updates of one column or two: the row is one still, with the other columns as they were.
Updated(row, r) == IsUserRow(row) /\ (row.deleted <=> r.deleted)

LEMMA RowUpdated ==
  ASSUME NEW r, IsUserRow(r), NEW b
  PROVE  /\ Updated([r EXCEPT !.asked = TRUE, !.schedule = "due"], r)
         /\ Updated([r EXCEPT !.asked = TRUE, !.schedule = "later"], r)
         /\ Updated([r EXCEPT !.asked = FALSE, !.schedule = "none"], r)
         /\ ~[r EXCEPT !.asked = FALSE, !.schedule = "none"].asked
         /\ Updated([r EXCEPT !.schedule = "due"], r)
         /\ [r EXCEPT !.schedule = "due"].asked <=> r.asked
         /\ IsUserRow([r EXCEPT !.deleted = TRUE, !.identity = b])
         /\ [r EXCEPT !.deleted = TRUE, !.identity = b].deleted
         /\ [r EXCEPT !.deleted = TRUE, !.identity = b].asked <=> r.asked
  BY DEF IsUserRow, Updated

LEMMA DeletionInit == RecordsInit => DeletionInv
<1> SUFFICES ASSUME RecordsInit PROVE DeletionInv
  OBVIOUS
<1> DEFINE row == [deleted |-> FALSE, asked |-> FALSE, schedule |-> "none", identity |-> Deletion!Own]
<1>1. /\ account = [u \in User |-> row] /\ requests = [u \in User |-> <<>>]
      /\ call = [c \in Caller |-> Deletion!Quiet] /\ purger = [p \in Purger |-> Deletion!Waiting]
      /\ editor = [e \in Editor |-> Deletion!Quiet] /\ kept = {}
  BY DEF RecordsInit, Deletion!Init
<1>2. IsUserRow(row) /\ ~row.deleted /\ ~row.asked
  BY DEF IsUserRow
<1> HIDE DEF row
<1>3. Deletion!Quiet.op = "none" /\ Deletion!Waiting.at = "idle" /\ Deletion!Waiting.todo = {}
  BY DEF Deletion!Quiet, Deletion!Waiting
<1>4. DeletionTypes
  BY <1>1, <1>2, <1>3 DEF DeletionTypes
<1>5. ASSUME NEW u \in User PROVE AgreedOn(u) /\ KeptAlive(u) /\ ErasureRecorded(u) /\ AskRecorded(u)
  <2>1. ~SomeErased(u) /\ ~SomeAsked(u) /\ ~Deletion!InPurge(u)
    BY <1>1, <1>2, <1>3 DEF SomeErased, SomeAsked, Deletion!InPurge
  <2> QED  BY <2>1 DEF AgreedOn, KeptAlive, ErasureRecorded, AskRecorded
<1> QED  BY <1>4, <1>5 DEF DeletionInv

\* What a step of nobody's concern to u leaves alone.
QuietFor(u) ==
    /\ SomeErased(u)' => SomeErased(u)
    /\ SomeLiving(u)' => SomeLiving(u)
    /\ SomeAsked(u)' => SomeAsked(u)
    /\ Deletion!InPurge(u)' => Deletion!InPurge(u) \/ SomeAsked(u)
    /\ Completed(u) => Completed(u)'
    /\ Requested(u) => Requested(u)' \/ Completed(u)' \/ u \in unrecorded'
    /\ u \in unrecorded => u \in unrecorded'
    /\ u \in kept' => u \in kept
    /\ u \in exposed => u \in exposed'

LEMMA QuietKeeps ==
  ASSUME DeletionInv, NEW u \in User, QuietFor(u)
  PROVE  AgreedOn(u)' /\ KeptAlive(u)' /\ ErasureRecorded(u)' /\ AskRecorded(u)'
<1>1. AgreedOn(u) /\ KeptAlive(u) /\ ErasureRecorded(u) /\ AskRecorded(u)
  BY DEF DeletionInv
<1>2. AgreedOn(u)'
  BY <1>1, Zenon DEF AgreedOn, QuietFor
<1>3. KeptAlive(u)'
  BY <1>1, Zenon DEF KeptAlive, QuietFor
<1>4. ErasureRecorded(u)'
  BY <1>1, Zenon DEF ErasureRecorded, QuietFor
<1>5. AskRecorded(u)'
  BY <1>1, Zenon DEF AskRecorded, QuietFor
<1> QED  BY <1>2, <1>3, <1>4, <1>5

\* The rows of account_deletion_requests, as they are resolved and added.
RequestsKept(u) ==
    /\ requests' = [v \in User |-> requests'[v]] /\ \A v \in User : requests'[v] \in Seq(Deletion!RequestStatus)
    /\ \A v \in User : Completed(v) => Completed(v)'
    /\ \A v \in User \ {u} : Requested(v) => Requested(v)'

LEMMA RequestsResolved ==
  ASSUME DeletionTypes, NEW u \in User, NEW s \in Deletion!RequestStatus, requests' = Deletion!Resolve(u, s)
  PROVE  RequestsKept(u) /\ (s = "completed" /\ Requested(u) => Completed(u)')
<1>1. /\ requests = [v \in User |-> requests[v]] /\ requests[u] \in Seq(Deletion!RequestStatus)
      /\ \A v \in User : requests[v] \in Seq(Deletion!RequestStatus)
  BY DEF DeletionTypes
<1> DEFINE next == [i \in DOMAIN requests[u] |-> IF requests[u][i] = "requested" THEN s ELSE requests[u][i]]
<1>2. requests' = [requests EXCEPT ![u] = next]
  BY DEF Deletion!Resolve
<1>3. next \in Seq(Deletion!RequestStatus) /\ DOMAIN next = DOMAIN requests[u]
      /\ \A i \in DOMAIN requests[u] : next[i] = IF requests[u][i] = "requested" THEN s ELSE requests[u][i]
  <2>1. DOMAIN requests[u] = 1..Len(requests[u]) /\ Len(requests[u]) \in Nat
        /\ \A i \in 1..Len(requests[u]) : requests[u][i] \in Deletion!RequestStatus
    BY <1>1
  <2>2. next \in [1..Len(requests[u]) -> Deletion!RequestStatus]
    BY <2>1
  <2>3. next \in Seq(Deletion!RequestStatus)
    BY <2>1, <2>2
  <2> QED  BY <2>3
<1> HIDE DEF next
<1>4. \A v \in User : requests'[v] = IF v = u THEN next ELSE requests[v]
  BY <1>1, <1>2
<1>5. requests' = [v \in User |-> requests'[v]] /\ \A v \in User : requests'[v] \in Seq(Deletion!RequestStatus)
  BY <1>1, <1>2, <1>3, <1>4
<1>6. \A v \in User \ {u} : (Requested(v) => Requested(v)') /\ (Completed(v) => Completed(v)')
  BY <1>4 DEF Requested, Completed
<1>7. (Completed(u) => Completed(u)') /\ (s = "completed" /\ Requested(u) => Completed(u)')
  BY <1>3, <1>4 DEF Requested, Completed
<1> QED  BY <1>5, <1>6, <1>7 DEF RequestsKept

LEMMA OneAppended ==
  ASSUME NEW S, NEW q \in Seq(S), NEW x \in S
  PROVE  /\ Append(q, x) \in Seq(S) /\ Len(Append(q, x)) = Len(q) + 1 /\ Len(q) \in Nat
         /\ Append(q, x)[Len(q) + 1] = x
         /\ \A i \in 1..Len(q) : Append(q, x)[i] = q[i]
  OBVIOUS

LEMMA RequestAdded ==
  ASSUME DeletionTypes, NEW u \in User, requests' = [requests EXCEPT ![u] = Append(@, "requested")]
  PROVE  RequestsKept(u) /\ Requested(u)'
<1>1. /\ requests = [v \in User |-> requests[v]] /\ requests[u] \in Seq(Deletion!RequestStatus)
      /\ \A v \in User : requests[v] \in Seq(Deletion!RequestStatus)
  BY DEF DeletionTypes
<1> DEFINE next == Append(requests[u], "requested")
<1>2. requests' = [requests EXCEPT ![u] = next]
  OBVIOUS
<1>3. /\ next \in Seq(Deletion!RequestStatus) /\ Len(requests[u]) + 1 \in DOMAIN next /\ next[Len(requests[u]) + 1] = "requested"
      /\ \A i \in DOMAIN requests[u] : i \in DOMAIN next /\ next[i] = requests[u][i]
  <2>1. /\ next \in Seq(Deletion!RequestStatus) /\ Len(next) = Len(requests[u]) + 1 /\ Len(requests[u]) \in Nat
        /\ next[Len(requests[u]) + 1] = "requested"
        /\ \A i \in 1..Len(requests[u]) : next[i] = requests[u][i]
    <3>1. "requested" \in Deletion!RequestStatus
      BY DEF Deletion!RequestStatus
    <3>2. requests[u] \in Seq(Deletion!RequestStatus)
      BY <1>1
    <3>3. /\ Append(requests[u], "requested") \in Seq(Deletion!RequestStatus)
          /\ Len(Append(requests[u], "requested")) = Len(requests[u]) + 1 /\ Len(requests[u]) \in Nat
      BY <3>1, <3>2, OneAppended
    <3>4. /\ Append(requests[u], "requested")[Len(requests[u]) + 1] = "requested"
          /\ \A i \in 1..Len(requests[u]) : Append(requests[u], "requested")[i] = requests[u][i]
      BY <3>1, <3>2, OneAppended
    <3> QED  BY <3>3, <3>4
  <2>2. DOMAIN next = 1..Len(requests[u]) + 1 /\ DOMAIN requests[u] = 1..Len(requests[u])
    BY <1>1, <2>1
  <2> HIDE DEF next
  <2> QED  BY <2>1, <2>2
<1> HIDE DEF next
<1>4. \A v \in User : requests'[v] = IF v = u THEN next ELSE requests[v]
  BY <1>1, <1>2
<1>5. requests' = [v \in User |-> requests'[v]] /\ \A v \in User : requests'[v] \in Seq(Deletion!RequestStatus)
  BY <1>1, <1>2, <1>3, <1>4
<1>6. \A v \in User \ {u} : (Requested(v) => Requested(v)') /\ (Completed(v) => Completed(v)')
  BY <1>4 DEF Requested, Completed
<1>7. (Completed(u) => Completed(u)') /\ Requested(u)'
  BY <1>3, <1>4 DEF Requested, Completed
<1> QED  BY <1>5, <1>6, <1>7 DEF RequestsKept

LEMMA RowsUnchanged ==
  ASSUME NEW u \in User, UNCHANGED <<account, editor>>
  PROVE  /\ SomeErased(u)' <=> SomeErased(u)
         /\ SomeLiving(u)' <=> SomeLiving(u)
         /\ SomeAsked(u)' <=> SomeAsked(u)
  BY DEF SomeErased, SomeLiving, SomeAsked

LEMMA RequestsUnchanged ==
  ASSUME NEW u \in User, UNCHANGED requests
  PROVE  (Requested(u)' <=> Requested(u)) /\ (Completed(u)' <=> Completed(u))
  BY DEF Requested, Completed

LEMMA PurgesUnchanged ==
  ASSUME NEW u \in User, UNCHANGED purger
  PROVE  Deletion!InPurge(u)' <=> Deletion!InPurge(u)
  BY DEF Deletion!InPurge

LEMMA CallsMove ==
  ASSUME DeletionInv, NEW c \in Caller, NEW state, call' = [call EXCEPT ![c] = state],
         state.op \in {"request", "cancel"} => state.user \in User,
         UNCHANGED <<account, requests, purger, editor, kept, exposed, unrecorded>>
  PROVE  DeletionInv'
<1>1. DeletionTypes /\ call = [d \in Caller |-> call[d]]
  BY DEF DeletionInv, DeletionTypes
<1>2. /\ \A d \in Caller : call'[d] = IF d = c THEN state ELSE call[d]
      /\ call' = [d \in Caller |-> call'[d]]
  BY <1>1
<1>3. DeletionTypes'
  BY <1>1, <1>2 DEF DeletionTypes, IsUserRow
<1>4. ASSUME NEW u \in User PROVE QuietFor(u)
  BY RowsUnchanged, RequestsUnchanged, PurgesUnchanged DEF QuietFor
<1> QED  BY <1>3, <1>4, QuietKeeps DEF DeletionInv

\* A purger's own step: it checks no account but one that has asked.
LEMMA PurgerMoves ==
  ASSUME DeletionInv, NEW p \in Purger, NEW state, purger' = [purger EXCEPT ![p] = state],
         state.todo \subseteq User,
         state.at \in {"checked", "threw"} =>
           state = [at |-> state.at, todo |-> state.todo, user |-> state.user] /\ state.user \in User,
         state.at = "checked" => account[state.user].asked,
         UNCHANGED <<account, requests, call, editor, kept, exposed, unrecorded>>
  PROVE  DeletionInv'
<1>1. DeletionTypes /\ purger = [q \in Purger |-> purger[q]]
  BY DEF DeletionInv, DeletionTypes
<1>2. /\ \A q \in Purger : purger'[q] = IF q = p THEN state ELSE purger[q]
      /\ purger' = [q \in Purger |-> purger'[q]]
  BY <1>1
<1>3. DeletionTypes'
  BY <1>1, <1>2 DEF DeletionTypes, IsUserRow
<1>4. ASSUME NEW u \in User PROVE QuietFor(u)
  <2>1. Deletion!InPurge(u)' => Deletion!InPurge(u) \/ SomeAsked(u)
    BY <1>2 DEF Deletion!InPurge, SomeAsked
  <2> QED  BY <2>1, RowsUnchanged, RequestsUnchanged DEF QuietFor
<1> QED  BY <1>3, <1>4, QuietKeeps DEF DeletionInv

LEMMA PurgersStep ==
  ASSUME DeletionInv, NEW p \in Purger,
         \/ Deletion!ListDue(p) \/ Deletion!EraseFails(p) \/ Deletion!PurgerDies(p)
         \/ \E u \in User : Deletion!PurgeCheck(p, u)
  PROVE  DeletionInv'
<1>1. DeletionTypes /\ purger[p].todo \subseteq User
  BY DEF DeletionInv, DeletionTypes
<1>2. Deletion!Waiting.at = "idle" /\ Deletion!Waiting.todo = {} /\ Deletion!Waiting = [at |-> "idle", todo |-> {}]
  BY DEF Deletion!Waiting
<1>3. CASE Deletion!ListDue(p)
  <2> DEFINE due == {u \in User : ~account[u].deleted /\ account[u].asked /\ account[u].schedule = "due"}
             state == [at |-> "idle", todo |-> due]
  <2>1. [purger[p] EXCEPT !.todo = due] = state
    <3>1. purger[p] = [at |-> "idle", todo |-> {}]
      BY <1>2, <1>3 DEF Deletion!ListDue
    <3> HIDE DEF due
    <3> QED  BY <3>1
  <2>2. purger' = [purger EXCEPT ![p] = state] /\ UNCHANGED <<account, requests, call, editor, kept, exposed, unrecorded>>
    BY <1>3, <2>1 DEF Deletion!ListDue, Deletion!ghosts
  <2>3. state.at = "idle" /\ state.todo \subseteq User
    OBVIOUS
  <2> HIDE DEF state
  <2> QED  BY <2>2, <2>3, PurgerMoves
<1>4. CASE Deletion!EraseFails(p)
  <2> DEFINE state == [at |-> "threw", todo |-> purger[p].todo, user |-> purger[p].user]
  <2>1. /\ purger[p] = [at |-> "checked", todo |-> purger[p].todo, user |-> purger[p].user]
        /\ purger[p].user \in User
    BY <1>1, <1>4 DEF Deletion!EraseFails, DeletionTypes
  <2>2. [purger[p] EXCEPT !.at = "threw"] = state
    BY <2>1
  <2>3. purger' = [purger EXCEPT ![p] = state] /\ UNCHANGED <<account, requests, call, editor, kept, exposed, unrecorded>>
    BY <1>4, <2>2 DEF Deletion!EraseFails, Deletion!ghosts
  <2>4. state.at = "threw" /\ state.todo = purger[p].todo /\ state.user = purger[p].user
        /\ state = [at |-> state.at, todo |-> state.todo, user |-> state.user]
    OBVIOUS
  <2> HIDE DEF state
  <2> QED  BY <1>1, <2>1, <2>3, <2>4, PurgerMoves
<1>5. CASE Deletion!PurgerDies(p)
  <2>1. purger' = [purger EXCEPT ![p] = Deletion!Waiting] /\ UNCHANGED <<account, requests, call, editor, kept, exposed, unrecorded>>
    BY <1>5 DEF Deletion!PurgerDies, Deletion!ghosts
  <2> QED  BY <1>2, <2>1, PurgerMoves
<1>6. ASSUME NEW u \in User, Deletion!PurgeCheck(p, u) PROVE DeletionInv'
  <2> DEFINE left == purger[p].todo \ {u}
             next(at) == [at |-> at, todo |-> left, user |-> u]
             idle == [at |-> "idle", todo |-> left]
  <2>1. UNCHANGED <<account, requests, call, editor, kept, exposed, unrecorded>>
    BY <1>6 DEF Deletion!PurgeCheck, Deletion!ghosts
  <2>2. CASE account[u].deleted
    <3>1. purger' = [purger EXCEPT ![p] = idle]
      BY <1>6, <2>2 DEF Deletion!PurgeCheck
    <3>2. idle.at = "idle" /\ idle.todo \subseteq User
      BY <1>1
    <3> HIDE DEF idle
    <3> QED  BY <2>1, <3>1, <3>2, PurgerMoves
  <2>3. CASE ~account[u].deleted /\ account[u].asked /\ account[u].schedule # "later"
    <3> DEFINE state == next("checked")
    <3>1. purger' = [purger EXCEPT ![p] = state]
      BY <1>6, <2>3 DEF Deletion!PurgeCheck
    <3>2. state.at = "checked" /\ state.todo \subseteq User /\ state.user = u
          /\ state = [at |-> state.at, todo |-> state.todo, user |-> state.user]
      BY <1>1
    <3> HIDE DEF state
    <3> QED  BY <2>1, <2>3, <3>1, <3>2, PurgerMoves
  <2>4. CASE ~account[u].deleted /\ ~(account[u].asked /\ account[u].schedule # "later")
    <3> DEFINE state == next("threw")
    <3>1. purger' = [purger EXCEPT ![p] = state]
      BY <1>6, <2>4 DEF Deletion!PurgeCheck
    <3>2. state.at = "threw" /\ state.todo \subseteq User /\ state.user = u
          /\ state = [at |-> state.at, todo |-> state.todo, user |-> state.user]
      BY <1>1
    <3> HIDE DEF state
    <3> QED  BY <2>1, <3>1, <3>2, PurgerMoves
  <2> QED  BY <2>2, <2>3, <2>4
<1> QED  BY <1>3, <1>4, <1>5, <1>6

\* The rows and the copies of u after an editor of u, or of another, has moved.
LEMMA EditorsStep ==
  ASSUME DeletionInv, NEW e \in Editor,
         \/ Deletion!EditSave(e) \/ Deletion!GiveUp(e)
         \/ \E u \in User : Deletion!EditBegin(e, u)
         \/ \E u, v \in User : Deletion!MergeBegin(e, u, v)
  PROVE  DeletionInv' /\ \A u \in User : QuietFor(u)
<1>1. DeletionTypes /\ editor = [d \in Editor |-> editor[d]] /\ account = [u \in User |-> account[u]]
      /\ \A u \in User : IsUserRow(account[u])
  BY DEF DeletionInv, DeletionTypes
<1>2. Deletion!Quiet.op = "none"
  BY DEF Deletion!Quiet
<1>3. SUFFICES DeletionTypes' /\ \A u \in User : QuietFor(u)
  BY QuietKeeps DEF DeletionInv
<1>4. UNCHANGED <<requests, call, purger, kept, exposed, unrecorded>>
  BY DEF Deletion!EditSave, Deletion!GiveUp, Deletion!EditBegin, Deletion!MergeBegin, Deletion!ghosts
<1>5. ASSUME NEW u \in User, SomeErased(u)' => SomeErased(u), SomeLiving(u)' => SomeLiving(u),
             SomeAsked(u)' => SomeAsked(u)
      PROVE  QuietFor(u)
  BY <1>4, <1>5, RequestsUnchanged, PurgesUnchanged DEF QuietFor
<1>6. ASSUME NEW state, editor' = [editor EXCEPT ![e] = state], UNCHANGED account,
             state.op = "none"
      PROVE  DeletionTypes' /\ \A u \in User : QuietFor(u)
  <2>1. /\ \A d \in Editor : editor'[d] = IF d = e THEN state ELSE editor[d]
        /\ editor' = [d \in Editor |-> editor'[d]]
    BY <1>1, <1>6
  <2>2. DeletionTypes'
    BY <1>1, <1>4, <1>6, <2>1 DEF DeletionTypes, IsUserRow
  <2>3. ASSUME NEW u \in User
        PROVE  /\ SomeErased(u)' => SomeErased(u)
               /\ SomeLiving(u)' => SomeLiving(u)
               /\ SomeAsked(u)' => SomeAsked(u)
    BY <1>6, <2>1 DEF SomeErased, SomeLiving, SomeAsked
  <2> QED  BY <1>5, <2>2, <2>3
<1>7. ASSUME Deletion!GiveUp(e) PROVE DeletionTypes' /\ \A u \in User : QuietFor(u)
  <2>1. editor' = [editor EXCEPT ![e] = Deletion!Quiet] /\ UNCHANGED account
    BY <1>7 DEF Deletion!GiveUp
  <2> QED  BY <1>2, <1>6, <2>1
<1>8. ASSUME NEW u0 \in User, Deletion!EditBegin(e, u0) PROVE DeletionTypes' /\ \A u \in User : QuietFor(u)
  <2> DEFINE state == [op |-> "edit", user |-> u0, copy |-> account[u0]]
  <2>1. editor' = [editor EXCEPT ![e] = state] /\ UNCHANGED account
    BY <1>8 DEF Deletion!EditBegin
  <2>2. state.op = "edit" /\ state.user = u0 /\ state.copy = account[u0]
    OBVIOUS
  <2> HIDE DEF state
  <2>3. /\ \A d \in Editor : editor'[d] = IF d = e THEN state ELSE editor[d]
        /\ editor' = [d \in Editor |-> editor'[d]]
    BY <1>1, <2>1
  <2>4. DeletionTypes'
    BY <1>1, <1>4, <2>1, <2>2, <2>3 DEF DeletionTypes, IsUserRow
  <2>5. ASSUME NEW u \in User
        PROVE  /\ SomeErased(u)' => SomeErased(u)
               /\ SomeLiving(u)' => SomeLiving(u)
               /\ SomeAsked(u)' => SomeAsked(u)
    BY <2>1, <2>2, <2>3 DEF SomeErased, SomeLiving, SomeAsked
  <2> QED  BY <1>5, <2>4, <2>5
<1>9. ASSUME NEW u0 \in User, NEW v0 \in User, Deletion!MergeBegin(e, u0, v0)
      PROVE  DeletionTypes' /\ \A u \in User : QuietFor(u)
  <2> DEFINE state == [op |-> "merge", user |-> u0, copy |-> account[u0], other |-> v0, otherCopy |-> account[v0]]
  <2>1. editor' = [editor EXCEPT ![e] = state] /\ UNCHANGED account
    BY <1>9 DEF Deletion!MergeBegin
  <2>2. /\ state.op = "merge" /\ state.user = u0 /\ state.copy = account[u0]
        /\ state.other = v0 /\ state.otherCopy = account[v0]
    OBVIOUS
  <2> HIDE DEF state
  <2>3. /\ \A d \in Editor : editor'[d] = IF d = e THEN state ELSE editor[d]
        /\ editor' = [d \in Editor |-> editor'[d]]
    BY <1>1, <2>1
  <2>4. DeletionTypes'
    BY <1>1, <1>4, <2>1, <2>2, <2>3 DEF DeletionTypes, IsUserRow
  <2>5. ASSUME NEW u \in User
        PROVE  /\ SomeErased(u)' => SomeErased(u)
               /\ SomeLiving(u)' => SomeLiving(u)
               /\ SomeAsked(u)' => SomeAsked(u)
    BY <2>1, <2>2, <2>3 DEF SomeErased, SomeLiving, SomeAsked
  <2> QED  BY <1>5, <2>4, <2>5
<1>10. ASSUME Deletion!EditSave(e) PROVE DeletionTypes' /\ \A u \in User : QuietFor(u)
  <2> DEFINE u0 == editor[e].user
             copy == editor[e].copy
  <2>1. /\ editor[e].op = "edit" /\ account' = [account EXCEPT ![u0] = copy]
        /\ editor' = [editor EXCEPT ![e] = Deletion!Quiet]
    BY <1>10 DEF Deletion!EditSave
  <2>2. u0 \in User /\ IsUserRow(copy)
    BY <1>1, <2>1 DEF DeletionTypes
  <2>3. /\ \A d \in Editor : editor'[d] = IF d = e THEN Deletion!Quiet ELSE editor[d]
        /\ editor' = [d \in Editor |-> editor'[d]]
        /\ \A u \in User : account'[u] = IF u = u0 THEN copy ELSE account[u]
        /\ account' = [u \in User |-> account'[u]]
    BY <1>1, <2>1
  <2>4. DeletionTypes'
    <3>1. \A u \in User : IsUserRow(account'[u])
      BY <1>1, <2>2, <2>3
    <3>2. \A d \in Editor : d # e => editor'[d] = editor[d]
      BY <2>3
    <3>3. editor'[e].op = "none"
      BY <1>2, <2>3
    <3>4. \A d \in Editor : /\ editor'[d].op \in {"none", "edit", "merge"}
                            /\ editor'[d].op # "none" => editor'[d].user \in User /\ IsUserRow(editor'[d].copy)
                            /\ editor'[d].op = "merge" => editor'[d].other \in User /\ IsUserRow(editor'[d].otherCopy)
      BY <1>1, <3>2, <3>3 DEF DeletionTypes
    <3> QED  BY <1>1, <1>4, <2>3, <3>1, <3>4 DEF DeletionTypes
  <2>5. ASSUME NEW u \in User
        PROVE  /\ SomeErased(u)' => SomeErased(u)
               /\ SomeLiving(u)' => SomeLiving(u)
               /\ SomeAsked(u)' => SomeAsked(u)
    BY <1>2, <2>1, <2>3 DEF SomeErased, SomeLiving, SomeAsked
  <2> QED  BY <1>5, <2>4, <2>5
<1> QED  BY <1>7, <1>8, <1>9, <1>10

\* A body that names the deletion columns: whatever it says of u, the ghosts say so.
LEMMA BodyBegins ==
  ASSUME DeletionInv, NEW e \in Editor, NEW u0 \in User, Deletion!BodyBegin(e, u0)
  PROVE  DeletionInv'
<1>1. DeletionTypes /\ editor = [d \in Editor |-> editor[d]]
  BY DEF DeletionInv, DeletionTypes
<1>2. PICK deleted \in BOOLEAN, asked \in BOOLEAN, schedule \in {"none", "later", "due"},
           identity \in {account[u0].identity, Deletion!Own} :
        /\ editor' = [editor EXCEPT ![e] =
             [op |-> "edit", user |-> u0,
              copy |-> [deleted |-> deleted, asked |-> asked, schedule |-> schedule, identity |-> identity]]]
        /\ kept' = kept \ {u0} /\ exposed' = exposed \cup {u0} /\ unrecorded' = unrecorded \cup {u0}
        /\ UNCHANGED <<account, requests, call, purger>>
  BY ZenonT(60) DEF Deletion!BodyBegin
<1> DEFINE row == [deleted |-> deleted, asked |-> asked, schedule |-> schedule, identity |-> identity]
           state == [op |-> "edit", user |-> u0, copy |-> row]
<1>3. state.op = "edit" /\ state.user = u0 /\ state.copy = row
  OBVIOUS
<1>4. IsUserRow(row)
  BY DEF IsUserRow
<1>5. editor' = [editor EXCEPT ![e] = state]
  BY <1>2
<1> HIDE DEF row, state
<1>6. /\ \A d \in Editor : editor'[d] = IF d = e THEN state ELSE editor[d]
      /\ editor' = [d \in Editor |-> editor'[d]]
  BY <1>1, <1>5
<1>7. DeletionTypes'
  BY <1>1, <1>2, <1>3, <1>4, <1>6 DEF DeletionTypes, IsUserRow
<1>8. ASSUME NEW u \in User, u # u0 PROVE QuietFor(u)
  <2>1. /\ SomeErased(u)' => SomeErased(u)
        /\ SomeLiving(u)' => SomeLiving(u)
        /\ SomeAsked(u)' => SomeAsked(u)
    BY <1>2, <1>3, <1>6, <1>8 DEF SomeErased, SomeLiving, SomeAsked
  <2> QED  BY <1>2, <1>8, <2>1, RequestsUnchanged, PurgesUnchanged DEF QuietFor
<1>9. AgreedOn(u0)' /\ KeptAlive(u0)' /\ ErasureRecorded(u0)' /\ AskRecorded(u0)'
  <2>1. u0 \in exposed' /\ u0 \notin kept' /\ u0 \in unrecorded'
    BY <1>2
  <2> QED  BY <2>1 DEF AgreedOn, KeptAlive, ErasureRecorded, AskRecorded
<1>10. ASSUME NEW u \in User PROVE AgreedOn(u)' /\ KeptAlive(u)' /\ ErasureRecorded(u)' /\ AskRecorded(u)'
  BY <1>8, <1>9, QuietKeeps
<1> QED  BY <1>7, <1>10 DEF DeletionInv

\* A merge saves both rows: the secondary is due, and the ghosts say so.
LEMMA MergeSaves ==
  ASSUME DeletionInv, NEW e \in Editor, Deletion!MergeSave(e)
  PROVE  /\ DeletionInv'
         /\ \A u \in User : SomeLiving(u)' => SomeLiving(u)
<1> DEFINE m == editor[e]
           row == [m.otherCopy EXCEPT !.asked = TRUE, !.schedule = "due"]
<1>1. DeletionTypes /\ editor = [d \in Editor |-> editor[d]] /\ account = [u \in User |-> account[u]]
      /\ \A u \in User : IsUserRow(account[u])
  BY DEF DeletionInv, DeletionTypes
<1>2. Deletion!Quiet.op = "none"
  BY DEF Deletion!Quiet
<1>3. /\ m.op = "merge" /\ m.user \in User /\ m.other \in User /\ IsUserRow(m.copy) /\ IsUserRow(m.otherCopy)
  BY <1>1 DEF DeletionTypes, Deletion!MergeSave
<1>4. Updated(row, m.otherCopy)
  BY <1>3, RowUpdated
<1>5. /\ account' = [account EXCEPT ![m.user] = m.copy, ![m.other] = row]
      /\ editor' = [editor EXCEPT ![e] = Deletion!Quiet]
      /\ kept' = kept \ {m.other} /\ unrecorded' = unrecorded \cup {m.other}
      /\ UNCHANGED <<requests, call, purger, exposed>>
  BY DEF Deletion!MergeSave
<1> HIDE DEF row
<1>6. IsUserRow(row) /\ (row.deleted <=> m.otherCopy.deleted)
  BY <1>4 DEF Updated
<1>7. /\ \A d \in Editor : editor'[d] = IF d = e THEN Deletion!Quiet ELSE editor[d]
      /\ editor' = [d \in Editor |-> editor'[d]]
      /\ \A u \in User : account'[u] = IF u = m.other THEN row ELSE IF u = m.user THEN m.copy ELSE account[u]
      /\ account' = [u \in User |-> account'[u]]
  BY <1>1, <1>5
<1>8. DeletionTypes'
  BY <1>1, <1>2, <1>3, <1>5, <1>6, <1>7 DEF DeletionTypes, IsUserRow
<1>9. ASSUME NEW u \in User
      PROVE  /\ SomeErased(u)' => SomeErased(u)
             /\ SomeLiving(u)' => SomeLiving(u)
  BY <1>2, <1>3, <1>6, <1>7 DEF SomeErased, SomeLiving
<1>10. ASSUME NEW u \in User, u # m.other PROVE SomeAsked(u)' => SomeAsked(u)
  BY <1>2, <1>3, <1>7, <1>10 DEF SomeAsked
<1>11. ASSUME NEW u \in User PROVE AgreedOn(u)' /\ KeptAlive(u)' /\ ErasureRecorded(u)' /\ AskRecorded(u)'
  <2>1. CASE u # m.other
    <3>1. QuietFor(u)
      BY <1>5, <1>9, <1>10, <2>1, RequestsUnchanged, PurgesUnchanged DEF QuietFor
    <3> QED  BY <3>1, QuietKeeps
  <2>2. CASE u = m.other
    <3>1. u \notin kept' /\ u \in unrecorded' /\ (u \notin exposed' => u \notin exposed)
      BY <1>5, <2>2
    <3>2. AgreedOn(u)
      BY DEF DeletionInv
    <3>3. AgreedOn(u)'
      BY <1>9, <3>1, <3>2, Zenon DEF AgreedOn
    <3> QED  BY <3>1, <3>3 DEF KeptAlive, ErasureRecorded, AskRecorded
  <2> QED  BY <2>1, <2>2
<1> QED  BY <1>8, <1>9, <1>11 DEF DeletionInv

\* A step that gives u a new row, and leaves the copies alone.
LEMMA RowMoves ==
  ASSUME DeletionInv, NEW u0 \in User, NEW row, IsUserRow(row), account' = [account EXCEPT ![u0] = row],
         UNCHANGED editor
  PROVE  /\ account' = [u \in User |-> account'[u]] /\ \A u \in User : IsUserRow(account'[u])
         /\ account'[u0] = row
         /\ \A u \in User \ {u0} : /\ account'[u] = account[u]
                                   /\ SomeErased(u)' <=> SomeErased(u)
                                   /\ SomeLiving(u)' <=> SomeLiving(u)
                                   /\ SomeAsked(u)' <=> SomeAsked(u)
         /\ (row.deleted <=> account[u0].deleted) =>
              (SomeErased(u0)' <=> SomeErased(u0)) /\ (SomeLiving(u0)' <=> SomeLiving(u0))
         /\ (row.asked => account[u0].asked) => (SomeAsked(u0)' => SomeAsked(u0))
         /\ Deletion!Holders(u0) = {} =>
              /\ SomeErased(u0)' <=> row.deleted
              /\ SomeLiving(u0)' <=> ~row.deleted
              /\ SomeAsked(u0)' <=> row.asked
<1>1. account = [u \in User |-> account[u]] /\ \A u \in User : IsUserRow(account[u])
  BY DEF DeletionInv, DeletionTypes
<1>2. /\ account' = [u \in User |-> account'[u]]
      /\ \A u \in User : account'[u] = IF u = u0 THEN row ELSE account[u]
  BY <1>1
<1>3. \A u \in User : IsUserRow(account'[u])
  BY <1>1, <1>2
<1>4. \A u \in User \ {u0} : /\ SomeErased(u)' <=> SomeErased(u)
                             /\ SomeLiving(u)' <=> SomeLiving(u)
                             /\ SomeAsked(u)' <=> SomeAsked(u)
  BY <1>2 DEF SomeErased, SomeLiving, SomeAsked
<1>5. (row.deleted <=> account[u0].deleted) =>
        (SomeErased(u0)' <=> SomeErased(u0)) /\ (SomeLiving(u0)' <=> SomeLiving(u0))
  BY <1>2 DEF SomeErased, SomeLiving
<1>6. (row.asked => account[u0].asked) => (SomeAsked(u0)' => SomeAsked(u0))
  BY <1>2 DEF SomeAsked
<1>7. ASSUME Deletion!Holders(u0) = {}
      PROVE  /\ SomeErased(u0)' <=> row.deleted
             /\ SomeLiving(u0)' <=> ~row.deleted
             /\ SomeAsked(u0)' <=> row.asked
  <2>1. \A e \in Editor : /\ ~(editor[e].op # "none" /\ editor[e].user = u0)
                          /\ ~(editor[e].op = "merge" /\ editor[e].other = u0)
    BY <1>7 DEF Deletion!Holders
  <2> QED  BY <1>2, <2>1 DEF SomeErased, SomeLiving, SomeAsked
<1> QED  BY <1>2, <1>3, <1>4, <1>5, <1>6, <1>7

LEMMA GraceElapsesFor ==
  ASSUME DeletionInv, NEW u0 \in User, Deletion!GraceElapses(u0)
  PROVE  DeletionInv' /\ \A u \in User : QuietFor(u)
<1> DEFINE row == [account[u0] EXCEPT !.schedule = "due"]
<1>1. DeletionTypes /\ IsUserRow(account[u0]) /\ account = [u \in User |-> account[u]]
  BY DEF DeletionInv, DeletionTypes
<1>2. Updated(row, account[u0]) /\ (row.asked <=> account[u0].asked)
  BY <1>1, RowUpdated
<1>3. account' = [account EXCEPT ![u0] = row] /\ UNCHANGED <<requests, call, purger, editor, kept, exposed, unrecorded>>
  BY <1>1 DEF Deletion!GraceElapses, Deletion!ghosts
<1> HIDE DEF row
<1>4. IsUserRow(row) /\ (row.deleted <=> account[u0].deleted) /\ (row.asked <=> account[u0].asked)
  BY <1>2 DEF Updated
<1>5. DeletionTypes'
  <2>1. account' = [u \in User |-> account'[u]] /\ \A u \in User : IsUserRow(account'[u])
    BY <1>3, <1>4, RowMoves
  <2> QED  BY <1>1, <1>3, <2>1 DEF DeletionTypes, IsUserRow
<1>6. ASSUME NEW u \in User PROVE QuietFor(u)
  <2>1. /\ SomeErased(u)' => SomeErased(u)
        /\ SomeLiving(u)' => SomeLiving(u)
        /\ SomeAsked(u)' => SomeAsked(u)
    BY <1>3, <1>4, RowMoves
  <2> QED  BY <1>3, <2>1, RequestsUnchanged, PurgesUnchanged DEF QuietFor
<1> QED  BY <1>5, <1>6, QuietKeeps DEF DeletionInv

LEMMA AskCommits ==
  ASSUME DeletionInv, NEW c \in Caller, Deletion!AskCommit(c)
  PROVE  DeletionInv' /\ \A u \in User : SomeLiving(u)' => SomeLiving(u)
<1>0. PICK u0 \in User : u0 = call[c].user
  BY DEF DeletionInv, DeletionTypes, Deletion!AskCommit
<1> DEFINE row == [account[u0] EXCEPT !.asked = TRUE, !.schedule = "later"]
<1>1. DeletionTypes /\ account = [u \in User |-> account[u]] /\ call = [d \in Caller |-> call[d]]
      /\ IsUserRow(account[u0])
  BY DEF DeletionInv, DeletionTypes
<1>2. account' = [account EXCEPT ![u0] = row]
  <2>1. [account EXCEPT ![u0].asked = TRUE, ![u0].schedule = "later"] = [account EXCEPT ![u0] = row]
    BY <1>1
  <2> QED  BY <1>0, <2>1 DEF Deletion!AskCommit
<1>3. /\ requests' = [requests EXCEPT ![u0] = Append(@, "requested")]
      /\ call' = [call EXCEPT ![c] = Deletion!Quiet]
      /\ kept' = kept \ {u0}
      /\ unrecorded' = IF account[u0].deleted \/ Deletion!Holders(u0) # {} THEN unrecorded ELSE unrecorded \ {u0}
      /\ UNCHANGED <<purger, editor, exposed>>
  BY <1>0 DEF Deletion!AskCommit
<1>4. IsUserRow(row) /\ (row.deleted <=> account[u0].deleted)
  BY <1>1, RowUpdated DEF Updated
<1> HIDE DEF row
<1>5. DeletionTypes'
  <2>1. account' = [u \in User |-> account'[u]] /\ \A u \in User : IsUserRow(account'[u])
    BY <1>1, <1>2, <1>3, <1>4, RowMoves
  <2>2. requests' = [u \in User |-> requests'[u]] /\ \A u \in User : requests'[u] \in Seq(Deletion!RequestStatus)
    BY <1>1, <1>3, RequestAdded DEF RequestsKept
  <2>3. call' = [d \in Caller |-> call'[d]] /\ \A d \in Caller : call'[d].op \in {"request", "cancel"} => call'[d].user \in User
    BY <1>1, <1>3 DEF DeletionTypes, Deletion!Quiet
  <2> QED  BY <1>1, <1>3, <2>1, <2>2, <2>3 DEF DeletionTypes, IsUserRow
<1>6. ASSUME NEW u \in User, u # u0 PROVE QuietFor(u)
  <2>1. /\ SomeErased(u)' => SomeErased(u)
        /\ SomeLiving(u)' => SomeLiving(u)
        /\ SomeAsked(u)' => SomeAsked(u)
    BY <1>1, <1>2, <1>3, <1>4, <1>6, RowMoves
  <2>2. (Requested(u) => Requested(u)') /\ (Completed(u) => Completed(u)')
    BY <1>1, <1>3, <1>6, RequestAdded DEF RequestsKept
  <2> QED  BY <1>3, <1>6, <2>1, <2>2, PurgesUnchanged DEF QuietFor
<1>7. /\ SomeErased(u0)' => SomeErased(u0)
      /\ SomeLiving(u0)' => SomeLiving(u0)
  BY <1>1, <1>2, <1>3, <1>4, RowMoves
<1>8. AgreedOn(u0)' /\ KeptAlive(u0)' /\ ErasureRecorded(u0)' /\ AskRecorded(u0)'
  <2>1. AgreedOn(u0) /\ ErasureRecorded(u0)
    BY <1>1 DEF DeletionInv
  <2>2. u0 \notin kept' /\ (u0 \notin exposed' => u0 \notin exposed)
    BY <1>3
  <2>3. Requested(u0)' /\ (Completed(u0) => Completed(u0)')
    BY <1>1, <1>3, RequestAdded DEF RequestsKept
  <2>4. AgreedOn(u0)'
    BY <1>7, <2>1, <2>2, Zenon DEF AgreedOn
  <2>5. ErasureRecorded(u0)'
    <3>1. CASE account[u0].deleted \/ Deletion!Holders(u0) # {}
      BY <1>3, <1>7, <2>1, <2>3, <3>1 DEF ErasureRecorded
    <3>2. CASE ~account[u0].deleted /\ Deletion!Holders(u0) = {}
      <4>1. ~SomeErased(u0)'
        BY <1>1, <1>2, <1>3, <1>4, <3>2, RowMoves
      <4> QED  BY <4>1 DEF ErasureRecorded
    <3> QED  BY <3>1, <3>2
  <2> QED  BY <2>2, <2>3, <2>4, <2>5 DEF KeptAlive, AskRecorded
<1>9. ASSUME NEW u \in User PROVE AgreedOn(u)' /\ KeptAlive(u)' /\ ErasureRecorded(u)' /\ AskRecorded(u)'
  BY <1>6, <1>8, <1>9, QuietKeeps
<1>10. \A u \in User : SomeLiving(u)' => SomeLiving(u)
  BY <1>6, <1>7 DEF QuietFor
<1> QED  BY <1>5, <1>9, <1>10 DEF DeletionInv

LEMMA CancelCommits ==
  ASSUME DeletionInv, NEW c \in Caller, Deletion!CancelCommit(c)
  PROVE  DeletionInv' /\ \A u \in User : SomeLiving(u)' => SomeLiving(u)
<1>0. PICK u0 \in User : u0 = call[c].user
  BY DEF DeletionInv, DeletionTypes, Deletion!CancelCommit
<1> DEFINE row == [account[u0] EXCEPT !.asked = FALSE, !.schedule = "none"]
           met == Deletion!InPurge(u0) \/ Deletion!Holders(u0) # {}
<1>1. DeletionTypes /\ account = [u \in User |-> account[u]] /\ call = [d \in Caller |-> call[d]]
      /\ IsUserRow(account[u0])
  BY DEF DeletionInv, DeletionTypes
<1>2. account' = [account EXCEPT ![u0] = row]
  <2>1. [account EXCEPT ![u0].asked = FALSE, ![u0].schedule = "none"] = [account EXCEPT ![u0] = row]
    BY <1>1
  <2> QED  BY <1>0, <2>1 DEF Deletion!CancelCommit
<1>3. /\ requests' = Deletion!Resolve(u0, "cancelled") /\ "cancelled" \in Deletion!RequestStatus
      /\ call' = [call EXCEPT ![c] = Deletion!Quiet]
      /\ kept' = IF account[u0].deleted \/ met THEN kept ELSE kept \cup {u0}
      /\ unrecorded' = IF met THEN unrecorded \cup {u0} ELSE unrecorded
      /\ UNCHANGED <<purger, editor, exposed>>
  BY <1>0 DEF Deletion!CancelCommit, Deletion!RequestStatus
<1>4. IsUserRow(row) /\ (row.deleted <=> account[u0].deleted) /\ ~row.asked
  BY <1>1, RowUpdated DEF Updated
<1> HIDE DEF row
<1>5. DeletionTypes'
  <2>1. account' = [u \in User |-> account'[u]] /\ \A u \in User : IsUserRow(account'[u])
    BY <1>1, <1>2, <1>3, <1>4, RowMoves
  <2>2. requests' = [u \in User |-> requests'[u]] /\ \A u \in User : requests'[u] \in Seq(Deletion!RequestStatus)
    BY <1>1, <1>3, RequestsResolved DEF RequestsKept
  <2>3. call' = [d \in Caller |-> call'[d]] /\ \A d \in Caller : call'[d].op \in {"request", "cancel"} => call'[d].user \in User
    BY <1>1, <1>3 DEF DeletionTypes, Deletion!Quiet
  <2> QED  BY <1>1, <1>3, <2>1, <2>2, <2>3 DEF DeletionTypes, IsUserRow
<1>6. ASSUME NEW u \in User, u # u0 PROVE QuietFor(u)
  <2>1. /\ SomeErased(u)' => SomeErased(u)
        /\ SomeLiving(u)' => SomeLiving(u)
        /\ SomeAsked(u)' => SomeAsked(u)
    BY <1>1, <1>2, <1>3, <1>4, <1>6, RowMoves
  <2>2. (Requested(u) => Requested(u)') /\ (Completed(u) => Completed(u)')
    BY <1>1, <1>3, <1>6, RequestsResolved DEF RequestsKept
  <2>3. (u \in kept' => u \in kept) /\ (u \in unrecorded => u \in unrecorded')
    BY <1>3, <1>6
  <2> QED  BY <1>3, <2>1, <2>2, <2>3, PurgesUnchanged DEF QuietFor
<1>7. /\ SomeErased(u0)' => SomeErased(u0)
      /\ SomeLiving(u0)' => SomeLiving(u0)
      /\ SomeAsked(u0)' => SomeAsked(u0)
      /\ Deletion!InPurge(u0)' <=> Deletion!InPurge(u0)
      /\ Completed(u0) => Completed(u0)'
  BY <1>1, <1>2, <1>3, <1>4, RowMoves, PurgesUnchanged, RequestsResolved DEF RequestsKept
<1>8. AgreedOn(u0)' /\ KeptAlive(u0)' /\ ErasureRecorded(u0)' /\ AskRecorded(u0)'
  <2>1. AgreedOn(u0) /\ KeptAlive(u0) /\ ErasureRecorded(u0)
    BY <1>1 DEF DeletionInv
  <2>2. AgreedOn(u0)' /\ ErasureRecorded(u0)'
    <3>1. (u0 \notin exposed' => u0 \notin exposed) /\ (u0 \in unrecorded => u0 \in unrecorded')
      BY <1>3
    <3> QED  BY <1>7, <2>1, <3>1, Zenon DEF AgreedOn, ErasureRecorded
  <2>3. CASE met
    <3>1. u0 \in unrecorded' /\ (u0 \in kept' => u0 \in kept)
      BY <1>3, <2>3
    <3>2. KeptAlive(u0)'
      BY <1>7, <2>1, <3>1, Zenon DEF KeptAlive
    <3> QED  BY <2>2, <3>1, <3>2 DEF AskRecorded
  <2>4. CASE ~met
    <3>1. ~SomeAsked(u0)' /\ (SomeErased(u0)' <=> account[u0].deleted) /\ ~Deletion!InPurge(u0)'
      BY <1>1, <1>2, <1>3, <1>4, <1>7, <2>4, RowMoves
    <3>2. u0 \in kept' => u0 \in kept \/ ~account[u0].deleted
      BY <1>3
    <3>3. KeptAlive(u0)'
      BY <1>7, <2>1, <3>1, <3>2, Zenon DEF KeptAlive
    <3> QED  BY <2>2, <3>1, <3>3 DEF AskRecorded
  <2> QED  BY <2>3, <2>4
<1>9. ASSUME NEW u \in User PROVE AgreedOn(u)' /\ KeptAlive(u)' /\ ErasureRecorded(u)' /\ AskRecorded(u)'
  BY <1>6, <1>8, <1>9, QuietKeeps
<1>10. \A u \in User : SomeLiving(u)' => SomeLiving(u)
  BY <1>6, <1>7 DEF QuietFor
<1> QED  BY <1>5, <1>9, <1>10 DEF DeletionInv

LEMMA PurgerContinues ==
  ASSUME DeletionTypes, NEW p \in Purger, Deletion!Continue(p)
  PROVE  /\ purger' = [q \in Purger |-> purger'[q]]
         /\ \A q \in Purger \ {p} : purger'[q] = purger[q]
         /\ purger'[p].at = "idle" /\ purger'[p].todo = purger[p].todo
<1>1. purger = [q \in Purger |-> purger[q]]
  BY DEF DeletionTypes
<1> QED  BY <1>1 DEF Deletion!Continue

\* The account is erased, and its request completed; a copy held by then is exposed.
LEMMA Erases ==
  ASSUME DeletionInv, NEW p \in Purger, Deletion!Erase(p)
  PROVE  DeletionInv' /\ \A u \in User : account[u].deleted => account'[u].deleted
<1>1. DeletionTypes /\ account = [u \in User |-> account[u]]
  BY DEF DeletionInv, DeletionTypes
<1>0. PICK u0 \in User : u0 = purger[p].user /\ purger[p].at = "checked"
  BY <1>1 DEF DeletionTypes, Deletion!Erase
<1> DEFINE row == [account[u0] EXCEPT !.deleted = TRUE, !.identity = Deletion!Tombstone]
<1>2. account' = [account EXCEPT ![u0] = row]
  <2>1. [account EXCEPT ![u0].deleted = TRUE, ![u0].identity = Deletion!Tombstone] = [account EXCEPT ![u0] = row]
    BY <1>1
  <2> QED  BY <1>0, <2>1 DEF Deletion!Erase
<1>3. /\ requests' = Deletion!Resolve(u0, "completed") /\ "completed" \in Deletion!RequestStatus
      /\ exposed' = IF Deletion!Holders(u0) = {} THEN exposed ELSE exposed \cup {u0}
      /\ Deletion!Continue(p)
      /\ UNCHANGED <<call, editor, kept, unrecorded>>
  BY <1>0 DEF Deletion!Erase, Deletion!RequestStatus
<1>4. IsUserRow(row) /\ row.deleted /\ (row.asked <=> account[u0].asked)
  BY <1>1, RowUpdated DEF DeletionTypes
<1> HIDE DEF row
<1>5. DeletionTypes'
  <2>1. account' = [u \in User |-> account'[u]] /\ \A u \in User : IsUserRow(account'[u])
    BY <1>2, <1>3, <1>4, RowMoves
  <2>2. requests' = [u \in User |-> requests'[u]] /\ \A u \in User : requests'[u] \in Seq(Deletion!RequestStatus)
    BY <1>1, <1>3, RequestsResolved DEF RequestsKept
  <2>3. /\ purger' = [q \in Purger |-> purger'[q]]
        /\ \A q \in Purger : \/ purger'[q] = purger[q]
                             \/ purger'[q].at = "idle" /\ purger'[q].todo = purger[q].todo
    BY <1>1, <1>3, PurgerContinues
  <2> QED  BY <1>1, <1>3, <2>1, <2>2, <2>3, ZenonT(60) DEF DeletionTypes, IsUserRow
<1>6. \A u \in User : Deletion!InPurge(u)' => Deletion!InPurge(u)
  <2>1. \A q \in Purger : purger'[q] = purger[q] \/ purger'[q].at = "idle"
    BY <1>1, <1>3, PurgerContinues
  <2> QED  BY <2>1 DEF Deletion!InPurge
<1>7. ASSUME NEW u \in User, u # u0 PROVE QuietFor(u)
  <2>1. /\ SomeErased(u)' => SomeErased(u)
        /\ SomeLiving(u)' => SomeLiving(u)
        /\ SomeAsked(u)' => SomeAsked(u)
    BY <1>2, <1>3, <1>4, <1>7, RowMoves
  <2>2. (Requested(u) => Requested(u)') /\ (Completed(u) => Completed(u)')
    BY <1>1, <1>3, <1>7, RequestsResolved DEF RequestsKept
  <2>3. u \in exposed => u \in exposed'
    BY <1>3
  <2> QED  BY <1>3, <1>6, <2>1, <2>2, <2>3 DEF QuietFor
<1>8. AgreedOn(u0)' /\ KeptAlive(u0)' /\ ErasureRecorded(u0)' /\ AskRecorded(u0)'
  <2>1. KeptAlive(u0) /\ AskRecorded(u0) /\ Deletion!InPurge(u0)
    BY <1>0 DEF DeletionInv, Deletion!InPurge
  <2>2. u0 \notin kept'
    BY <1>3, <2>1 DEF KeptAlive
  <2>3. Completed(u0)' \/ u0 \in unrecorded'
    BY <1>1, <1>3, <2>1, RequestsResolved DEF AskRecorded, RequestsKept
  <2>4. AgreedOn(u0)'
    <3>1. CASE Deletion!Holders(u0) = {}
      <4>1. ~SomeLiving(u0)'
        BY <1>2, <1>3, <1>4, <3>1, RowMoves
      <4> QED  BY <4>1 DEF AgreedOn
    <3>2. CASE Deletion!Holders(u0) # {}
      <4>1. u0 \in exposed'
        BY <1>3, <3>2
      <4> QED  BY <4>1 DEF AgreedOn
    <3> QED  BY <3>1, <3>2
  <2> QED  BY <2>2, <2>3, <2>4 DEF KeptAlive, ErasureRecorded, AskRecorded
<1>9. ASSUME NEW u \in User PROVE AgreedOn(u)' /\ KeptAlive(u)' /\ ErasureRecorded(u)' /\ AskRecorded(u)'
  BY <1>7, <1>8, <1>9, QuietKeeps
<1>10. \A u \in User : account[u].deleted => account'[u].deleted
  BY <1>2, <1>3, <1>4, RowMoves
<1> QED  BY <1>5, <1>9, <1>10 DEF DeletionInv

LEMMA MarksFailed ==
  ASSUME DeletionInv, NEW p \in Purger, Deletion!MarkFailed(p)
  PROVE  DeletionInv'
<1>1. DeletionTypes
  BY DEF DeletionInv
<1>0. PICK u0 \in User : u0 = purger[p].user /\ purger[p].at = "threw"
  BY <1>1 DEF DeletionTypes, Deletion!MarkFailed
<1>2. /\ requests' = Deletion!Resolve(u0, "failed") /\ "failed" \in Deletion!RequestStatus
      /\ unrecorded' = IF Deletion!Pending(u0) THEN unrecorded \cup {u0} ELSE unrecorded
      /\ Deletion!Continue(p)
      /\ UNCHANGED <<account, call, editor, kept, exposed>>
  BY <1>0 DEF Deletion!MarkFailed, Deletion!RequestStatus
<1>3. Deletion!Pending(u0) <=> Requested(u0)
  BY DEF Deletion!Pending, Requested, Deletion!ToSet
<1>4. DeletionTypes'
  <2>1. requests' = [u \in User |-> requests'[u]] /\ \A u \in User : requests'[u] \in Seq(Deletion!RequestStatus)
    BY <1>1, <1>2, RequestsResolved DEF RequestsKept
  <2>2. /\ purger' = [q \in Purger |-> purger'[q]]
        /\ \A q \in Purger : \/ purger'[q] = purger[q]
                             \/ purger'[q].at = "idle" /\ purger'[q].todo = purger[q].todo
    BY <1>1, <1>2, PurgerContinues
  <2> QED  BY <1>1, <1>2, <2>1, <2>2 DEF DeletionTypes, IsUserRow
<1>5. ASSUME NEW u \in User PROVE QuietFor(u)
  <2>1. \A q \in Purger : purger'[q] = purger[q] \/ purger'[q].at = "idle"
    BY <1>1, <1>2, PurgerContinues
  <2>2. Deletion!InPurge(u)' => Deletion!InPurge(u)
    BY <2>1 DEF Deletion!InPurge
  <2>3. Completed(u) => Completed(u)'
    BY <1>1, <1>2, RequestsResolved DEF RequestsKept
  <2>4. (Requested(u) => Requested(u)' \/ u \in unrecorded') /\ (u \in unrecorded => u \in unrecorded')
    BY <1>1, <1>2, <1>3, RequestsResolved DEF RequestsKept
  <2> QED  BY <1>2, <2>2, <2>3, <2>4, RowsUnchanged DEF QuietFor
<1> QED  BY <1>4, <1>5, QuietKeeps DEF DeletionInv

\* What is erased and was not exposed stays erased in this step.
StaysErased == \A u \in User : account[u].deleted /\ u \notin exposed => account'[u].deleted

LEMMA LivingNeverReturns ==
  ASSUME DeletionInv, \A u \in User : SomeLiving(u)' => SomeLiving(u)
  PROVE  StaysErased
<1> SUFFICES ASSUME NEW u \in User, account[u].deleted, u \notin exposed PROVE account'[u].deleted
  BY DEF StaysErased
<1>1. AgreedOn(u) /\ SomeErased(u)
  BY DEF DeletionInv, SomeErased
<1>2. ~SomeLiving(u)'
  BY <1>1 DEF AgreedOn
<1> QED  BY <1>2 DEF SomeLiving

LEMMA RowsStayErased ==
  ASSUME UNCHANGED account
  PROVE  StaysErased
  BY DEF StaysErased

LEMMA DeletionStep ==
  ASSUME DeletionInv, Deletion!Next
  PROVE  DeletionInv' /\ StaysErased
<1>1. ASSUME NEW c \in Caller, \/ Deletion!CallFails(c)
                               \/ \E u \in User : Deletion!AskBegin(c, u) \/ Deletion!CancelBegin(c, u)
      PROVE  DeletionInv' /\ StaysErased
  <2>1. UNCHANGED <<account, requests, purger, editor, kept, exposed, unrecorded>>
    BY <1>1 DEF Deletion!CallFails, Deletion!AskBegin, Deletion!CancelBegin, Deletion!ghosts
  <2>2. ASSUME NEW state, call' = [call EXCEPT ![c] = state], state.op \in {"request", "cancel"} => state.user \in User
        PROVE  DeletionInv' /\ StaysErased
    BY <2>1, <2>2, CallsMove, RowsStayErased
  <2>3. CASE Deletion!CallFails(c)
    <3>1. call' = [call EXCEPT ![c] = Deletion!Quiet] /\ Deletion!Quiet.op = "none"
      BY <2>3 DEF Deletion!CallFails, Deletion!Quiet
    <3> QED  BY <2>2, <3>1
  <2>4. ASSUME NEW u \in User, Deletion!AskBegin(c, u) PROVE DeletionInv' /\ StaysErased
    <3> DEFINE state == [op |-> "request", user |-> u]
    <3>1. call' = [call EXCEPT ![c] = state] /\ state.user = u
      BY <2>4 DEF Deletion!AskBegin
    <3> HIDE DEF state
    <3> QED  BY <2>2, <3>1
  <2>5. ASSUME NEW u \in User, Deletion!CancelBegin(c, u) PROVE DeletionInv' /\ StaysErased
    <3> DEFINE state == [op |-> "cancel", user |-> u]
    <3>1. call' = [call EXCEPT ![c] = state] /\ state.user = u
      BY <2>5 DEF Deletion!CancelBegin
    <3> HIDE DEF state
    <3> QED  BY <2>2, <3>1
  <2> QED  BY <1>1, <2>3, <2>4, <2>5
<1>2. ASSUME NEW c \in Caller, Deletion!AskCommit(c) \/ Deletion!CancelCommit(c)
      PROVE  DeletionInv' /\ StaysErased
  BY <1>2, AskCommits, CancelCommits, LivingNeverReturns
<1>3. ASSUME NEW p \in Purger,
             \/ Deletion!ListDue(p) \/ Deletion!EraseFails(p) \/ Deletion!PurgerDies(p)
             \/ \E u \in User : Deletion!PurgeCheck(p, u)
      PROVE  DeletionInv' /\ StaysErased
  <2>1. UNCHANGED account
    BY <1>3 DEF Deletion!ListDue, Deletion!EraseFails, Deletion!PurgerDies, Deletion!PurgeCheck
  <2> QED  BY <1>3, <2>1, PurgersStep, RowsStayErased
<1>4. ASSUME NEW p \in Purger, Deletion!MarkFailed(p) PROVE DeletionInv' /\ StaysErased
  <2>1. UNCHANGED account
    BY <1>4 DEF Deletion!MarkFailed
  <2> QED  BY <1>4, <2>1, MarksFailed, RowsStayErased
<1>5. ASSUME NEW p \in Purger, Deletion!Erase(p) PROVE DeletionInv' /\ StaysErased
  BY <1>5, Erases DEF StaysErased
<1>6. ASSUME NEW e \in Editor, \/ Deletion!EditSave(e) \/ Deletion!GiveUp(e)
                               \/ \E u \in User : Deletion!EditBegin(e, u)
                               \/ \E u, v \in User : Deletion!MergeBegin(e, u, v)
      PROVE  DeletionInv' /\ StaysErased
  BY <1>6, EditorsStep, LivingNeverReturns DEF QuietFor
<1>7. ASSUME NEW e \in Editor, Deletion!MergeSave(e) PROVE DeletionInv' /\ StaysErased
  BY <1>7, MergeSaves, LivingNeverReturns
<1>9. ASSUME NEW e \in Editor, NEW u \in User, Deletion!BodyBegin(e, u) PROVE DeletionInv' /\ StaysErased
  <2>1. UNCHANGED account
    BY <1>9 DEF Deletion!BodyBegin
  <2> QED  BY <1>9, <2>1, BodyBegins, RowsStayErased
<1>8. ASSUME NEW u \in User, Deletion!GraceElapses(u) PROVE DeletionInv' /\ StaysErased
  BY <1>8, GraceElapsesFor, LivingNeverReturns DEF QuietFor
<1> QED  BY <1>1, <1>2, <1>3, <1>4, <1>5, <1>6, <1>7, <1>8, <1>9 DEF Deletion!Next

LEMMA DeletionTogether ==
  ASSUME DeletionInv, [RecordsNext]_<<part, sessionVars, deletionVars, songVars, versionVars, releaseVars, playlistVars, keyVars>>
  PROVE  DeletionInv' /\ StaysErased
<1>1. CASE Deletion!Next
  BY <1>1, DeletionStep
<1>2. CASE UNCHANGED deletionVars
  <2>1. UNCHANGED <<account, requests, call, purger, editor, kept, exposed, unrecorded>>
    BY <1>2 DEF deletionVars
  <2>2. DeletionTypes'
    BY <2>1 DEF DeletionInv, DeletionTypes, IsUserRow
  <2>3. ASSUME NEW u \in User PROVE QuietFor(u)
    BY <2>1, RowsUnchanged, RequestsUnchanged, PurgesUnchanged DEF QuietFor
  <2> QED  BY <2>1, <2>2, <2>3, QuietKeeps, RowsStayErased DEF DeletionInv
<1> QED  BY <1>1, <1>2 DEF RecordsNext

LEMMA DeletionInvariant == RecordsSpec => []DeletionInv
<1>1. DeletionInv /\ [RecordsNext]_<<part, sessionVars, deletionVars, songVars, versionVars, releaseVars, playlistVars, keyVars>>
        => DeletionInv'
  BY DeletionTogether
<1> QED  BY <1>1, DeletionInit, PTL DEF RecordsSpec

\* Whoever cancels in time keeps the account, and every erased account has a completed
\* request unless none was left to complete, for any number of requests, runs of the
\* job, edits, bodies and merges at once (AccountDeletionService, AccountMergeService).
THEOREM ErasuresAreAsAsked == RecordsSpec => []ErasedAsAsked
<1>1. DeletionInv => ErasedAsAsked
  <2> SUFFICES ASSUME DeletionInv, NEW u \in User, account[u].deleted
               PROVE  u \notin kept /\ ("completed" \in Deletion!ToSet(requests[u]) \/ u \in unrecorded)
    BY DEF ErasedAsAsked, Deletion!ErasedAsAsked
  <2>1. SomeErased(u) /\ KeptAlive(u) /\ ErasureRecorded(u)
    BY DEF DeletionInv, SomeErased
  <2>2. Completed(u) => "completed" \in Deletion!ToSet(requests[u])
    BY DEF Completed, Deletion!ToSet
  <2> QED  BY <2>1, <2>2 DEF KeptAlive, ErasureRecorded
<1> QED  BY <1>1, DeletionInvariant, PTL

\* No step brings an erased account back, unless an edit or a merge held a copy of its
\* row when it was erased (purgeUser, UserService.updateProfile, mergeAccounts).
THEOREM ErasuresAreFinal == RecordsSpec => ErasureIsFinal
<1>1. DeletionInv /\ [RecordsNext]_<<part, sessionVars, deletionVars, songVars, versionVars, releaseVars, playlistVars, keyVars>>
        => [\A u \in User : account[u].deleted /\ u \notin exposed => account'[u].deleted]_Deletion!vars
  BY DeletionTogether DEF StaysErased
<1> QED  BY <1>1, DeletionInvariant, PTL DEF RecordsSpec, ErasureIsFinal, Deletion!ErasureIsFinal

----------------------------------------------------------------------------
(* The song row *)

IsSong(s) == s = [c \in {"there", "mint", "flag"} |-> s[c]] /\ s.there \in BOOLEAN

Acting == {"sent", "counting", "saving", "removing"}

IsClaim(d) == d = [c \in DOMAIN d |-> d[c]] /\ "status" \in DOMAIN d

\* A request in progress holds a copy of the row; a review of a takedown also names it.
IsWriter(k) ==
    /\ k = [c \in DOMAIN k |-> k[c]]
    /\ "at" \in DOMAIN k
    /\ k.at = "closing" => IsClaim(k.claim)
    /\ k.at \in Acting =>
         /\ {"op", "copy", "stale"} \subseteq DOMAIN k /\ IsSong(k.copy) /\ k.stale \in BOOLEAN
         /\ k.at = "sent" => k.op = "mint"
         /\ k.at = "counting" => k.op = "report"
         /\ k.op \in {"take down", "reverse"} => {"t", "claim"} \subseteq DOMAIN k /\ IsClaim(k.claim)
         /\ k.op = "reverse" => k.claim.status # "approved"

SongTypes ==
    /\ IsSong(song)
    /\ writer = [w \in SongWriter |-> writer[w]]
    /\ \A w \in SongWriter : IsWriter(writer[w])
    /\ takedown = [t \in Takedown |-> takedown[t]]
    /\ \A t \in Takedown : IsClaim(takedown[t])

\* A copy nobody has overtaken holds the mint status of the row, except the one that
\* is about to write a new status.
HonestMintIf(k, excused) ==
    k.at \in Acting =>
      /\ k.copy.there
      /\ ~k.stale => IF k.op = "mint" /\ k.at = "saving"
                     THEN k.copy.mint = "minted" \/ song.mint # "minted" \/ excused
                     ELSE k.copy.mint = song.mint

HonestMint(k) == HonestMintIf(k, doubtful)

\* Nor does it lift a flag set by hand, unless its request is to show the song again.
HonestFlag(k) ==
    /\ k.at \in {"sent", "counting"} /\ ~k.stale => k.copy.flag = song.flag
    /\ k.at = "saving" /\ ~k.stale /\ song.flag = "manual" /\ ~Row!Republishes(k.op) => k.copy.flag = "manual"
    /\ k.at = "saving" /\ k.op = "take down" => k.copy.flag = "manual"

HasLanded(k) == k.at = "saving" /\ k.op = "mint" /\ k.copy.mint = "minted"
Landed(w) == HasLanded(writer[w])

\* A mint that landed is in the row, or in the copy of the request that waited for it.
MintKept == chain => (song.there /\ song.mint = "minted") \/ doubtful \/ \E w \in SongWriter : Landed(w)

\* The takedown t hides the song: approved, or about to be recorded so.
Approves(k, t) == k.at = "closing" /\ k.t = t /\ k.claim.status = "approved"
Approving(w, t) == Approves(writer[w], t)
Stands(t) == takedown[t].status = "approved" \/ \E w \in SongWriter : Approving(w, t)

TakedownKept == \A t \in Takedown : Stands(t) /\ t \notin lifted => song.flag = "manual"

SongInv ==
    /\ SongTypes
    /\ \A w \in SongWriter : HonestMint(writer[w]) /\ HonestFlag(writer[w])
    /\ MintKept /\ TakedownKept

\* One column of a song is changed, and one of the copy that a request holds.
LEMMA SongColumn ==
  ASSUME NEW s, IsSong(s), NEW x
  PROVE  /\ IsSong([s EXCEPT !.flag = x]) /\ [s EXCEPT !.flag = x].flag = x
         /\ [s EXCEPT !.flag = x].mint = s.mint /\ ([s EXCEPT !.flag = x].there <=> s.there)
         /\ IsSong([s EXCEPT !.mint = x]) /\ [s EXCEPT !.mint = x].mint = x
         /\ [s EXCEPT !.mint = x].flag = s.flag /\ ([s EXCEPT !.mint = x].there <=> s.there)
         /\ IsSong([s EXCEPT !.there = FALSE]) /\ ~[s EXCEPT !.there = FALSE].there
         /\ [s EXCEPT !.there = FALSE].mint = s.mint /\ [s EXCEPT !.there = FALSE].flag = s.flag
  BY DEF IsSong

\* A request of op at `at', with an up-to-date copy.
IsCopy(k, op, at, row) ==
    IsWriter(k) /\ k.at = at /\ k.op = op /\ k.copy = row /\ ~k.stale

LEMMA CopyState ==
  ASSUME NEW op, NEW at, NEW row, IsSong(row), at = "sent" => op = "mint",
         at = "counting" => op = "report", op \notin {"take down", "reverse"}, at # "closing"
  PROVE  IsCopy(Row!Copy(op, at, row), op, at, row)
<1> DEFINE k == Row!Copy(op, at, row)
<1>1. k = [c \in {"at", "op", "copy", "stale"} |-> k[c]] /\ DOMAIN k = {"at", "op", "copy", "stale"}
  BY DEF Row!Copy
<1>2. k.at = at /\ k.op = op /\ k.copy = row
  BY DEF Row!Copy
<1>3. k.stale = FALSE
  BY DEF Row!Copy
<1> HIDE DEF k
<1>4. IsWriter(k)
  <2>1. k.stale \in BOOLEAN
    BY <1>3
  <2>2. k = [c \in DOMAIN k |-> k[c]] /\ "at" \in DOMAIN k /\ {"op", "copy", "stale"} \subseteq DOMAIN k
    BY <1>1
  <2>3. (k.at = "sent" => k.op = "mint") /\ (k.at = "counting" => k.op = "report") /\ k.op \notin {"take down", "reverse"} /\ IsSong(k.copy)
    BY <1>2
  <2>4. k.at # "closing"
    BY <1>2
  <2> QED  BY <2>1, <2>2, <2>3, <2>4, Zenon DEF IsWriter
<1>5. IsCopy(k, op, at, row)
  BY <1>2, <1>3, <1>4 DEF IsCopy
<1> QED  BY <1>5 DEF k

LEMMA ReviewState ==
  ASSUME NEW op, NEW at, NEW row, IsSong(row), NEW t, NEW claim, IsClaim(claim),
         at # "sent", at # "counting", op = "reverse" => claim.status # "approved"
  PROVE  LET k == [at |-> at, op |-> op, copy |-> row, stale |-> FALSE, t |-> t, claim |-> claim]
         IN  IsCopy(k, op, at, row) /\ k.t = t /\ k.claim = claim
<1> DEFINE k == [at |-> at, op |-> op, copy |-> row, stale |-> FALSE, t |-> t, claim |-> claim]
<1>1. k = [c \in {"at", "op", "copy", "stale", "t", "claim"} |-> k[c]]
      /\ DOMAIN k = {"at", "op", "copy", "stale", "t", "claim"}
  OBVIOUS
<1>2. k.at = at /\ k.op = op /\ k.copy = row /\ k.t = t /\ k.claim = claim
  OBVIOUS
<1>3. k.stale = FALSE
  OBVIOUS
<1> HIDE DEF k
<1>4. IsWriter(k)
  BY <1>1, <1>2, <1>3 DEF IsWriter
<1>5. IsCopy(k, op, at, row) /\ k.t = t /\ k.claim = claim
  BY <1>2, <1>3, <1>4 DEF IsCopy
<1> QED  BY <1>5 DEF k

LEMMA QuietState == IsWriter(Row!Quiet) /\ Row!Quiet.at = "none"
<1>1. Row!Quiet.at = "none" /\ DOMAIN Row!Quiet = {"at"} /\ Row!Quiet = [c \in {"at"} |-> Row!Quiet[c]]
  BY DEF Row!Quiet
<1> QED  BY <1>1 DEF IsWriter, Acting

\* One field of a request is changed, and one column of its copy.
LEMMA StaleCopy ==
  ASSUME NEW k, IsWriter(k), k.at \in Acting
  PROVE  /\ IsWriter([k EXCEPT !.stale = TRUE]) /\ [k EXCEPT !.stale = TRUE].stale
         /\ [k EXCEPT !.stale = TRUE].at = k.at /\ [k EXCEPT !.stale = TRUE].op = k.op
         /\ [k EXCEPT !.stale = TRUE].copy = k.copy
  BY DEF IsWriter, Acting

LEMMA WriterField ==
  ASSUME NEW k, IsWriter(k), k.at \in Acting, NEW x
  PROVE  /\ k.at \notin {"sent", "counting"} => /\ IsWriter([k EXCEPT !.op = "edit"]) /\ [k EXCEPT !.op = "edit"].op = "edit"
                             /\ [k EXCEPT !.op = "edit"].at = k.at
                             /\ [k EXCEPT !.op = "edit"].copy = k.copy /\ ([k EXCEPT !.op = "edit"].stale <=> k.stale)
         /\ x \notin Acting /\ k.op \in {"take down", "reverse"} => /\ IsWriter([k EXCEPT !.at = x]) /\ [k EXCEPT !.at = x].at = x
                               /\ [k EXCEPT !.at = x].t = k.t /\ [k EXCEPT !.at = x].claim = k.claim
  BY DEF IsWriter, Acting

\* The request `next' is about to save row, which `me' has made.
Written(next, me, row) ==
    IsWriter(next) /\ next.at = "saving" /\ next.op = me.op /\ (next.stale <=> me.stale) /\ next.copy = row

LEMMA NewCopy ==
  ASSUME NEW me, IsWriter(me), me.at \in Acting, NEW row, IsSong(row)
  PROVE  Written([me EXCEPT !.at = "saving", !.copy = row], me, row)
  BY DEF IsWriter, Acting, Written

\* One column of the copy changes.
LEMMA CopyColumn ==
  ASSUME NEW me, IsWriter(me), me.at \in Acting, NEW x
  PROVE  /\ Written([me EXCEPT !.at = "saving", !.copy.mint = x], me, [me.copy EXCEPT !.mint = x])
         /\ Written([me EXCEPT !.at = "saving", !.copy.flag = x], me, [me.copy EXCEPT !.flag = x])
         /\ me.at = "saving" => Written([me EXCEPT !.copy.mint = x], me, [me.copy EXCEPT !.mint = x])
<1>1. me = [c \in DOMAIN me |-> me[c]] /\ {"at", "op", "copy", "stale"} \subseteq DOMAIN me /\ IsSong(me.copy)
  BY DEF IsWriter
<1>2. /\ [me EXCEPT !.at = "saving", !.copy.mint = x] = [me EXCEPT !.at = "saving", !.copy = [me.copy EXCEPT !.mint = x]]
      /\ [me EXCEPT !.at = "saving", !.copy.flag = x] = [me EXCEPT !.at = "saving", !.copy = [me.copy EXCEPT !.flag = x]]
      /\ me.at = "saving" => [me EXCEPT !.copy.mint = x] = [me EXCEPT !.at = "saving", !.copy = [me.copy EXCEPT !.mint = x]]
  BY <1>1
<1>3. IsSong([me.copy EXCEPT !.mint = x]) /\ IsSong([me.copy EXCEPT !.flag = x])
  BY <1>1, SongColumn
<1>4. /\ Written([me EXCEPT !.at = "saving", !.copy = [me.copy EXCEPT !.mint = x]], me, [me.copy EXCEPT !.mint = x])
      /\ Written([me EXCEPT !.at = "saving", !.copy = [me.copy EXCEPT !.flag = x]], me, [me.copy EXCEPT !.flag = x])
  <2> DEFINE m == [me.copy EXCEPT !.mint = x]
             f == [me.copy EXCEPT !.flag = x]
  <2>1. IsSong(m) /\ IsSong(f)
    BY <1>3
  <2> HIDE DEF m, f
  <2>2. Written([me EXCEPT !.at = "saving", !.copy = m], me, m)
    BY <2>1, NewCopy
  <2>3. Written([me EXCEPT !.at = "saving", !.copy = f], me, f)
    BY <2>1, NewCopy
  <2> QED  BY <2>2, <2>3 DEF m, f
<1> QED  BY <1>2, <1>4, Zenon

\* A request goes from one state to another and leaves the rows alone.
LEMMA SongOwnStep ==
  ASSUME SongInv, NEW w \in SongWriter, NEW k, IsWriter(k), writer' = [writer EXCEPT ![w] = k],
         UNCHANGED <<song, takedown, lifted>>, doubtful => doubtful',
         HonestMintIf(k, doubtful'), HonestFlag(k), \A t \in Takedown : ~Approves(k, t),
         chain' => chain \/ doubtful' \/ HasLanded(k), Landed(w) => doubtful' \/ HasLanded(k)
  PROVE  SongInv'
<1>1. \A v \in SongWriter : writer'[v] = IF v = w THEN k ELSE writer[v]
  BY DEF SongInv, SongTypes
<1>2. SongTypes'
  <2>1. writer' = [v \in SongWriter |-> writer'[v]]
    BY DEF SongInv, SongTypes
  <2>2. \A v \in SongWriter : IsWriter(writer'[v])
    BY <1>1 DEF SongInv, SongTypes
  <2>3. IsSong(song') /\ takedown' = [t \in Takedown |-> takedown'[t]]
         /\ \A t \in Takedown : IsClaim(takedown'[t])
    BY DEF SongInv, SongTypes
  <2> QED  BY <2>1, <2>2, <2>3 DEF SongTypes
<1>3. \A v \in SongWriter : HonestMint(writer[v])' /\ HonestFlag(writer[v])'
  <2>1. TAKE v \in SongWriter
  <2>2. CASE v = w
    <3>1. writer'[v] = k /\ song' = song
      BY <1>1, <2>2
    <3>2. HonestMint(writer[v])'
      BY <3>1 DEF HonestMint, HonestMintIf
    <3>3. HonestFlag(writer[v])'
      BY <3>1 DEF HonestFlag
    <3> QED  BY <3>2, <3>3
  <2>3. CASE v # w
    <3>1. writer'[v] = writer[v] /\ song' = song /\ HonestMint(writer[v]) /\ HonestFlag(writer[v])
      BY <1>1, <2>3 DEF SongInv
    <3>2. HonestMint(writer[v])'
      BY <3>1 DEF HonestMint, HonestMintIf
    <3>3. HonestFlag(writer[v])'
      BY <3>1 DEF HonestFlag
    <3> QED  BY <3>2, <3>3
  <2> QED  BY <2>2, <2>3
<1>4. MintKept'
  <2>1. SUFFICES ASSUME chain', ~doubtful', ~(song.there /\ song.mint = "minted") PROVE \E v \in SongWriter : Landed(v)'
    BY DEF MintKept
  <2>2. CASE HasLanded(k)
    BY <1>1, <2>2 DEF Landed
  <2>3. CASE ~HasLanded(k)
    <3>1. PICK v \in SongWriter : Landed(v)
      BY <2>1, <2>3 DEF SongInv, MintKept
    <3>2. v # w
      BY <3>1, <2>1, <2>3
    <3>3. writer'[v] = writer[v]
      BY <1>1, <3>2
    <3> QED  BY <3>1, <3>3 DEF Landed
  <2> QED  BY <2>2, <2>3
<1>5. TakedownKept'
  <2>1. \A t \in Takedown : Stands(t)' => Stands(t)
    <3>1. SUFFICES ASSUME NEW t \in Takedown, NEW v \in SongWriter, Approving(v, t)' PROVE Approving(v, t)
      BY DEF Stands
    <3> QED  BY <3>1, <1>1 DEF Approving
  <2> QED  BY <2>1 DEF SongInv, TakedownKept
<1> QED  BY <1>2, <1>3, <1>4, <1>5 DEF SongInv

\* A request begins with a copy of the row, some columns of which it changed.
LEMMA SongBegins ==
  ASSUME SongInv, song.there, NEW w \in SongWriter, NEW k, NEW op, NEW at, NEW row, IsSong(row),
         Row!Begin(w, k), UNCHANGED <<song, takedown, chain, doubtful, lifted>>,
         IsCopy(k, op, at, row), row.there, row.mint = song.mint,
         at \in {"sent", "counting"} => row.flag = song.flag,
         at = "saving" => row.flag = "manual" \/ row = song \/ Row!Republishes(op),
         op = "take down" => row.flag = "manual",
         op # "mint" \/ at = "sent",
         \A t \in Takedown : ~Approves(k, t)
  PROVE  SongInv'
<1>1. writer' = [writer EXCEPT ![w] = k] /\ writer[w] = Row!Quiet
  BY DEF Row!Begin, Row!Become
<1>2. HonestMintIf(k, doubtful')
  BY DEF HonestMintIf, IsCopy
<1>3. HonestFlag(k)
  BY DEF HonestFlag, IsCopy
<1>4. ~Landed(w)
  BY <1>1, QuietState DEF Landed, HasLanded
<1>5. IsWriter(k) /\ (doubtful => doubtful')
  BY DEF IsCopy
<1> QED  BY <1>1, <1>2, <1>3, <1>4, <1>5, SongOwnStep

\* The request ends or waits for its next step, with nothing to write.
LEMMA SongRests ==
  ASSUME SongInv, NEW w \in SongWriter, NEW k, IsWriter(k), writer' = [writer EXCEPT ![w] = k],
         k.at \notin Acting \cup {"closing"},
         UNCHANGED <<song, takedown, lifted>>, doubtful => doubtful',
         chain' => chain \/ doubtful', Landed(w) => doubtful'
  PROVE  SongInv'
<1>1. HonestMintIf(k, doubtful') /\ HonestFlag(k) /\ \A t \in Takedown : ~Approves(k, t)
  BY DEF HonestMintIf, HonestFlag, Approves, Acting
<1> QED  BY <1>1, SongOwnStep

(* The requests begin. *)

\* What a copy of the row read by a request may differ in.
MayRead(op, at, row) ==
    /\ at \in Acting /\ IsSong(row) /\ (song.there => row.there) /\ row.mint = song.mint
    /\ at \in {"sent", "counting"} => row.flag = song.flag
    /\ at = "saving" => row.flag = "manual" \/ row = song \/ Row!Republishes(op)
    /\ op \notin {"take down", "reverse"}
    /\ (op = "mint") = (at = "sent")
    /\ at = "counting" => op = "report"

LEMMA SongReads ==
  ASSUME SongInv, NEW w \in SongWriter, NEW op, NEW at, NEW row,
         Row!Read(w, op, at, row), UNCHANGED <<song, takedown, chain, doubtful, lifted>>, MayRead(op, at, row)
  PROVE  SongInv'
<1> DEFINE k == Row!Copy(op, at, row)
<1>1. IsCopy(k, op, at, row)
  <2>1. IsSong(row) /\ (at = "sent" => op = "mint") /\ (at = "counting" => op = "report") /\ op \notin {"take down", "reverse"} /\ at # "closing"
    BY DEF MayRead, Acting
  <2> HIDE DEF k
  <2> QED  BY <2>1, CopyState DEF k
<1>2. song.there /\ Row!Begin(w, k)
  BY DEF Row!Read
<1>3. \A t \in Takedown : ~Approves(k, t)
  BY <1>1 DEF Approves, IsCopy, Acting, MayRead
<1>4. /\ IsSong(row) /\ row.there /\ row.mint = song.mint
      /\ at \in {"sent", "counting"} => row.flag = song.flag
      /\ at = "saving" => row.flag = "manual" \/ row = song \/ Row!Republishes(op)
      /\ op # "take down" /\ (op # "mint" \/ at = "sent")
  BY <1>2 DEF MayRead
<1> HIDE DEF k
<1> QED  BY <1>1, <1>2, <1>3, <1>4, SongBegins

LEMMA SongRequestsBegin ==
  ASSUME SongInv, NEW w \in SongWriter,
         \/ Row!OtherColumns(w) \/ Row!FlagSong(w) \/ Row!UnflagSong(w) \/ Row!Moderate(w)
         \/ Row!DeleteSong(w) \/ Row!SubmitMint(w) \/ \E r \in Report : Row!SubmitReport(w, r)
  PROVE  SongInv'
<1>1. IsSong(song)
  BY DEF SongInv, SongTypes
<1>2. \A f : /\ IsSong(Row!Flagged(f)) /\ (Row!Flagged(f).there <=> song.there)
             /\ Row!Flagged(f).mint = song.mint /\ Row!Flagged(f).flag = f
  BY <1>1, SongColumn, ZenonT(60) DEF Row!Flagged
<1>3. /\ \A op \in {"edit", "process"} : MayRead(op, "saving", song)
      /\ \A op \in {"flagSong", "reject", "hide"} : MayRead(op, "saving", Row!Flagged("manual"))
      /\ \A op \in {"unflagSong", "approve"} : MayRead(op, "saving", Row!Flagged("off"))
      /\ MayRead("delete", "removing", song) /\ MayRead("mint", "sent", song) /\ MayRead("report", "counting", song)
  BY <1>1, <1>2 DEF MayRead, Acting, Row!Republishes
<1>4. \/ \E op \in {"edit", "process"} : Row!Read(w, op, "saving", song)
      \/ \E op \in {"flagSong", "reject", "hide"} : Row!Read(w, op, "saving", Row!Flagged("manual"))
      \/ \E op \in {"unflagSong", "approve"} : Row!Read(w, op, "saving", Row!Flagged("off"))
      \/ Row!Read(w, "delete", "removing", song)
      \/ Row!Read(w, "mint", "sent", song)
      \/ Row!Read(w, "report", "counting", song)
  BY DEF Row!OtherColumns, Row!UpdateSong, Row!BulkGenreUpdate, Row!UploadCoverArt, Row!ApplyTemplate,
         Row!ConfirmLyricsRights, Row!TranscribeLyrics, Row!Reupload, Row!RollbackVersion, Row!ProcessSong,
         Row!Edit, Row!FlagSong, Row!UnflagSong, Row!Moderate, Row!DeleteSong, Row!SubmitMint, Row!SubmitReport
<1>5. UNCHANGED <<song, takedown, chain, doubtful, lifted>>
  BY DEF Row!OtherColumns, Row!UpdateSong, Row!BulkGenreUpdate, Row!UploadCoverArt, Row!ApplyTemplate,
         Row!ConfirmLyricsRights, Row!TranscribeLyrics, Row!Reupload, Row!RollbackVersion, Row!ProcessSong,
         Row!Edit, Row!FlagSong, Row!UnflagSong, Row!Moderate, Row!DeleteSong, Row!SubmitMint, Row!SubmitReport
<1> QED  BY <1>3, <1>4, <1>5, SongReads

LEMMA SongReviewsBegin ==
  ASSUME SongInv, NEW w \in SongWriter, NEW t \in Takedown,
         Row!ApproveTakedown(w, t) \/ Row!RejectTakedown(w, t) \/ Row!ReverseTakedown(w, t)
  PROVE  SongInv'
<1> DEFINE Kept(op, at, row, claim) == [at |-> at, op |-> op, copy |-> row, stale |-> FALSE, t |-> t, claim |-> claim]
<1>1. IsSong(song) /\ IsClaim(takedown[t])
  BY DEF SongInv, SongTypes
<1>2. \A f : /\ IsSong(Row!Flagged(f)) /\ (Row!Flagged(f).there <=> song.there)
             /\ Row!Flagged(f).mint = song.mint /\ Row!Flagged(f).flag = f
  BY <1>1, SongColumn, ZenonT(60) DEF Row!Flagged
<1>3. \A s : IsClaim([takedown[t] EXCEPT !.status = s]) /\ [takedown[t] EXCEPT !.status = s].status = s
  BY <1>1 DEF IsClaim
<1>4. CASE Row!ApproveTakedown(w, t)
  <2> DEFINE claim == [status |-> "approved", wasFlagged |-> Row!Hidden]
             k == Kept("take down", "saving", Row!Flagged("manual"), claim)
  <2>1. song.there /\ Row!Begin(w, k) /\ UNCHANGED <<song, takedown, chain, doubtful, lifted>>
    BY <1>4 DEF Row!ApproveTakedown, Row!Review
  <2>2. IsClaim(claim)
    BY DEF IsClaim
  <2>3. IsCopy(k, "take down", "saving", Row!Flagged("manual"))
    <3> HIDE DEF claim
    <3> QED  BY <1>2, <2>2, ReviewState
  <2>4. \A u \in Takedown : ~Approves(k, u)
    BY <2>3 DEF Approves, IsCopy
  <2> HIDE DEF k
  <2> QED  BY <1>2, <2>1, <2>3, <2>4, SongBegins
<1>5. CASE Row!RejectTakedown(w, t)
  <2> DEFINE claim == [takedown[t] EXCEPT !.status = "rejected"]
             k == Kept("reject claim", "closing", song, claim)
  <2>1. song.there /\ Row!Begin(w, k) /\ UNCHANGED <<song, takedown, chain, doubtful, lifted>>
    BY <1>5 DEF Row!RejectTakedown, Row!Review
  <2>2. IsCopy(k, "reject claim", "closing", song) /\ k.claim = claim
    <3> HIDE DEF claim
    <3>1. IsClaim(claim)
      BY <1>3 DEF claim
    <3> QED  BY <1>1, <3>1, ReviewState
  <2>3. \A u \in Takedown : ~Approves(k, u)
    BY <1>3, <2>2 DEF Approves
  <2> HIDE DEF k
  <2> QED  BY <1>1, <2>1, <2>2, <2>3, SongBegins
<1>6. CASE Row!ReverseTakedown(w, t)
  <2> DEFINE claim == [takedown[t] EXCEPT !.status = "reversed"]
             row == IF takedown[t].wasFlagged THEN song ELSE Row!Flagged("off")
             k == Kept("reverse", "saving", row, claim)
  <2>1. song.there /\ Row!Begin(w, k) /\ UNCHANGED <<song, takedown, chain, doubtful, lifted>>
    BY <1>6 DEF Row!ReverseTakedown, Row!Review
  <2>2. IsSong(row) /\ row.there /\ row.mint = song.mint /\ Row!Republishes("reverse")
    BY <1>1, <1>2, <2>1 DEF Row!Republishes
  <2>3. IsCopy(k, "reverse", "saving", row)
    <3>1. IsClaim(claim) /\ claim.status # "approved"
      BY <1>3
    <3> HIDE DEF claim, row
    <3> QED  BY <2>2, <3>1, ReviewState
  <2>4. \A u \in Takedown : ~Approves(k, u)
    BY <2>3 DEF Approves, IsCopy
  <2> HIDE DEF k, row
  <2> QED  BY <2>1, <2>2, <2>3, <2>4, SongBegins
<1> QED  BY <1>4, <1>5, <1>6

(* The requests go on, without writing the rows. *)

LEMMA SongMintPolled ==
  ASSUME SongInv, NEW w \in SongWriter,
         Row!MintLands(w) \/ Row!MintRefused(w) \/ Row!MintTimesOut(w)
  PROVE  SongInv'
<1> DEFINE me == writer[w]
<1> DEFINE Outcome(status) ==
             /\ me.at = "sent" /\ writer' = [writer EXCEPT ![w] = [me EXCEPT !.at = "saving", !.copy.mint = status]]
             /\ UNCHANGED <<song, takedown, lifted>>
             /\ (doubtful => doubtful') /\ (chain' => chain \/ doubtful' \/ status = "minted")
             /\ status = "failed" => (doubtful' \/ me.copy.mint # "minted")
<1>0. Outcome("minted") \/ Outcome("failed")
  <2>1. Row!MintLands(w) => Outcome("minted")
    BY DEF Row!MintLands, Row!Polled, Row!Become
  <2>2. Row!MintRefused(w) => Outcome("failed")
    <3>1. SUFFICES ASSUME Row!MintRefused(w) PROVE Outcome("failed")
      OBVIOUS
    <3>2. doubtful' = (doubtful \/ me.copy.mint = "minted")
      BY <3>1 DEF Row!MintRefused
    <3>3. (doubtful => doubtful') /\ (doubtful' \/ me.copy.mint # "minted")
      BY <3>2
    <3>4. /\ me.at = "sent" /\ writer' = [writer EXCEPT ![w] = [me EXCEPT !.at = "saving", !.copy.mint = "failed"]]
          /\ UNCHANGED <<song, takedown, lifted>> /\ chain' = chain
      BY <3>1 DEF Row!MintRefused, Row!Polled, Row!Become
    <3> QED  BY <3>3, <3>4
  <2>3. Row!MintTimesOut(w) => Outcome("failed")
    BY DEF Row!MintTimesOut, Row!Polled, Row!Become
  <2> HIDE DEF Outcome
  <2> QED  BY <2>1, <2>2, <2>3
<1>1. PICK status \in {"minted", "failed"} : Outcome(status)
  <2> HIDE DEF Outcome
  <2> QED  BY <1>0
<1>2. IsWriter(me) /\ HonestMint(me) /\ HonestFlag(me) /\ me.at \in Acting
  BY <1>1 DEF SongInv, SongTypes, Acting
<1>3. IsSong(me.copy) /\ me.op = "mint"
  BY <1>1, <1>2 DEF IsWriter
<1> DEFINE row == [me.copy EXCEPT !.mint = status]
           k == [me EXCEPT !.at = "saving", !.copy.mint = status]
<1>4. writer' = [writer EXCEPT ![w] = k]
  BY <1>1
<1>5. IsSong(row) /\ row.mint = status /\ row.flag = me.copy.flag /\ (row.there <=> me.copy.there)
  BY <1>3, SongColumn, ZenonT(60)
<1>6. Written(k, me, row)
  BY <1>2, CopyColumn
<1> HIDE DEF row, k
<1>7. HonestMintIf(k, doubtful')
  BY <1>1, <1>2, <1>3, <1>5, <1>6 DEF HonestMint, HonestMintIf, Acting, Written
<1>8. HonestFlag(k)
  BY <1>1, <1>2, <1>3, <1>5, <1>6 DEF HonestFlag, Written
<1>9. (\A t \in Takedown : ~Approves(k, t)) /\ ~Landed(w)
  BY <1>1, <1>6 DEF Approves, Landed, HasLanded, Written
<1>10. chain' => chain \/ doubtful' \/ HasLanded(k)
  BY <1>1, <1>3, <1>5, <1>6 DEF HasLanded, Written
<1>11. IsWriter(k)
  BY <1>6 DEF Written
<1> QED  BY <1>1, <1>4, <1>11, <1>7, <1>8, <1>9, <1>10, SongOwnStep

LEMMA SongSaveFails ==
  ASSUME SongInv, NEW w \in SongWriter, Row!SaveFails(w)
  PROVE  SongInv'
<1> DEFINE me == writer[w]
<1>1. /\ me.at = "saving" /\ UNCHANGED <<song, takedown, chain, lifted>>
      /\ (doubtful => doubtful') /\ (me.op = "mint" => doubtful')
  BY DEF Row!SaveFails
<1>2. IsWriter(me) /\ HonestMint(me) /\ HonestFlag(me) /\ me.at \in Acting
  BY <1>1 DEF SongInv, SongTypes, Acting
<1>3. IsSong(me.copy) /\ me.copy.there
  BY <1>2 DEF IsWriter, HonestMint, HonestMintIf
<1>4. Landed(w) => doubtful'
  BY <1>1 DEF Landed, HasLanded
<1>5. CASE me.op = "mint" /\ me.copy.mint = "minted"
  <2> DEFINE row == [me.copy EXCEPT !.mint = "failed"]
             k == [me EXCEPT !.copy.mint = "failed"]
  <2>2. writer' = [writer EXCEPT ![w] = k]
    BY <1>5 DEF Row!SaveFails, Row!Become
  <2>3. IsSong(row) /\ row.flag = me.copy.flag /\ row.there
    BY <1>3, SongColumn
  <2>4. Written(k, me, row)
    BY <1>1, <1>2, CopyColumn
  <2> HIDE DEF row, k
  <2>5. HonestMintIf(k, doubtful') /\ HonestFlag(k) /\ \A t \in Takedown : ~Approves(k, t)
    BY <1>1, <1>2, <1>5, <2>3, <2>4 DEF HonestMintIf, HonestFlag, Approves, Written
  <2>6. IsWriter(k)
    BY <2>4 DEF Written
  <2> QED  BY <1>1, <1>4, <1>5, <2>2, <2>5, <2>6, SongOwnStep
<1>6. CASE me.op = "process"
  <2> DEFINE k == [me EXCEPT !.op = "edit"]
  <2>1. writer' = [writer EXCEPT ![w] = k]
    BY <1>6 DEF Row!SaveFails, Row!Become
  <2>2. IsWriter(k) /\ k.at = "saving" /\ k.op = "edit" /\ (k.stale <=> me.stale) /\ k.copy = me.copy
    BY <1>1, <1>2, WriterField
  <2> HIDE DEF k
  <2>3. HonestMintIf(k, doubtful') /\ HonestFlag(k) /\ \A t \in Takedown : ~Approves(k, t)
    BY <1>1, <1>2, <1>6, <2>2 DEF HonestMint, HonestMintIf, HonestFlag, Approves, Row!Republishes, Acting
  <2> QED  BY <1>1, <1>4, <2>1, <2>2, <2>3, SongOwnStep
<1>7. CASE ~(me.op = "mint" /\ me.copy.mint = "minted") /\ me.op # "process"
  <2>1. writer' = [writer EXCEPT ![w] = Row!Quiet]
    BY <1>7 DEF Row!SaveFails, Row!Become
  <2>2. Row!Quiet.at \notin Acting \cup {"closing"}
    BY QuietState DEF Acting
  <2> QED  BY <1>1, <1>4, <2>1, <2>2, QuietState, SongRests
<1> QED  BY <1>5, <1>6, <1>7

LEMMA SongStops ==
  ASSUME SongInv, NEW w \in SongWriter, Row!Die(w) \/ Row!Announce(w)
  PROVE  SongInv'
<1>1. writer' = [writer EXCEPT ![w] = Row!Quiet] /\ UNCHANGED <<song, takedown, lifted>> /\ (doubtful => doubtful')
  <2>1. Row!Die(w) => writer' = [writer EXCEPT ![w] = Row!Quiet] /\ UNCHANGED <<song, takedown, lifted>>
                      /\ (doubtful => doubtful')
    BY DEF Row!Die, Row!Become
  <2>2. Row!Announce(w) => writer' = [writer EXCEPT ![w] = Row!Quiet] /\ UNCHANGED <<song, takedown, lifted>>
                           /\ (doubtful => doubtful')
    BY DEF Row!Announce, Row!Become
  <2> QED  BY <2>1, <2>2
<1>2. Row!Quiet.at \notin Acting \cup {"closing"}
  BY QuietState DEF Acting
<1>3. writer[w].at = "sent" => writer[w].op = "mint"
  BY DEF SongInv, SongTypes, IsWriter, Acting
<1>4. Landed(w) => doubtful'
  BY DEF Row!Die, Row!Announce, Row!Minting, Landed, HasLanded
<1>5. chain' => chain \/ doubtful'
  BY <1>3 DEF Row!Die, Row!Announce, Row!Minting
<1> QED  BY <1>1, <1>2, <1>4, <1>5, QuietState, SongRests

LEMMA SongReportsCounted ==
  ASSUME SongInv, NEW w \in SongWriter, Row!CountReports(w)
  PROVE  SongInv'
<1> DEFINE me == writer[w]
<1>1. me.at = "counting" /\ UNCHANGED <<song, takedown, chain, doubtful, lifted>>
  BY DEF Row!CountReports
<1>2. IsWriter(me) /\ HonestMint(me) /\ HonestFlag(me) /\ me.at \in Acting
  BY <1>1 DEF SongInv, SongTypes, Acting
<1>3. IsSong(me.copy) /\ me.op = "report"
  BY <1>1, <1>2 DEF IsWriter
<1>4. ~Landed(w)
  BY <1>1 DEF Landed, HasLanded
<1>5. CASE writer' = [writer EXCEPT ![w] = Row!Quiet]
  <2>1. Row!Quiet.at \notin Acting \cup {"closing"}
    BY QuietState DEF Acting
  <2> QED  BY <1>1, <1>4, <1>5, <2>1, QuietState, SongRests
<1>6. CASE writer' # [writer EXCEPT ![w] = Row!Quiet]
  <2> DEFINE row == [me.copy EXCEPT !.flag = "auto"]
             k == [me EXCEPT !.at = "saving", !.copy.flag = "auto"]
  <2>1. writer' = [writer EXCEPT ![w] = k] /\ me.copy.flag = "off"
    BY <1>6 DEF Row!CountReports, Row!Become
  <2>2. row.mint = me.copy.mint /\ (row.there <=> me.copy.there)
    BY <1>3, SongColumn
  <2>3. Written(k, me, row)
    BY <1>2, CopyColumn
  <2> HIDE DEF row, k
  <2>4. HonestMintIf(k, doubtful')
    BY <1>1, <1>2, <1>3, <2>2, <2>3 DEF HonestMint, HonestMintIf, Acting, Written
  <2>5. HonestFlag(k) /\ \A t \in Takedown : ~Approves(k, t)
    BY <1>1, <1>2, <1>3, <2>1, <2>3 DEF HonestFlag, Approves, Written
  <2>6. IsWriter(k)
    BY <2>3 DEF Written
  <2> QED  BY <1>1, <1>4, <2>1, <2>4, <2>5, <2>6, SongOwnStep
<1> QED  BY <1>5, <1>6

LEMMA SongReportResolved ==
  ASSUME SongInv, NEW w \in SongWriter, NEW r \in Report, NEW flags \in BOOLEAN, Row!ResolveReport(w, r, flags)
  PROVE  SongInv'
<1> DEFINE k == [at |-> "resolved", flags |-> flags]
<1>1. /\ writer' = [writer EXCEPT ![w] = k] /\ writer[w] = Row!Quiet
      /\ UNCHANGED <<song, takedown, chain, doubtful, lifted>>
  BY DEF Row!ResolveReport, Row!Begin, Row!Become
<1>2. k = [c \in DOMAIN k |-> k[c]] /\ DOMAIN k = {"at", "flags"} /\ k.at = "resolved"
  OBVIOUS
<1> HIDE DEF k
<1>3. IsWriter(k) /\ k.at \notin Acting \cup {"closing"}
  BY <1>2 DEF IsWriter, Acting
<1>4. ~Landed(w)
  BY <1>1, QuietState DEF Landed, HasLanded
<1> QED  BY <1>1, <1>3, <1>4, SongRests

LEMMA SongResolutionApplied ==
  ASSUME SongInv, NEW w \in SongWriter, Row!ApplyResolution(w)
  PROVE  SongInv'
<1> DEFINE next(f) == Row!Copy("resolution", "saving", Row!Flagged(f))
<1>1. writer[w].at = "resolved" /\ UNCHANGED <<song, takedown, chain, doubtful, lifted>>
  BY DEF Row!ApplyResolution
<1>2. \/ writer' = [writer EXCEPT ![w] = Row!Quiet]
      \/ song.there /\ writer' = [writer EXCEPT ![w] = next("manual")]
      \/ song.there /\ song.flag = "auto" /\ writer' = [writer EXCEPT ![w] = next("off")]
  <2> HIDE DEF next
  <2> QED  BY DEF Row!ApplyResolution, Row!Become, next
<1>3. ~Landed(w)
  BY <1>1 DEF Landed, HasLanded
<1>4. IsSong(song)
  BY DEF SongInv, SongTypes
<1>5. \A f : /\ IsSong(Row!Flagged(f)) /\ (Row!Flagged(f).there <=> song.there)
             /\ Row!Flagged(f).mint = song.mint /\ Row!Flagged(f).flag = f
  BY <1>4, SongColumn, ZenonT(60) DEF Row!Flagged
<1>6. \A f : IsCopy(next(f), "resolution", "saving", Row!Flagged(f))
  BY <1>5, CopyState
<1> HIDE DEF next
<1>7. CASE writer' = [writer EXCEPT ![w] = Row!Quiet]
  <2>1. Row!Quiet.at \notin Acting \cup {"closing"}
    BY QuietState DEF Acting
  <2> QED  BY <1>1, <1>3, <1>7, <2>1, QuietState, SongRests
<1>8. ASSUME NEW f, song.there, writer' = [writer EXCEPT ![w] = next(f)], f = "manual" \/ song.flag # "manual"
      PROVE  SongInv'
  <2> DEFINE k == next(f)
  <2>1. IsCopy(k, "resolution", "saving", Row!Flagged(f)) /\ writer' = [writer EXCEPT ![w] = k]
    BY <1>6, <1>8
  <2> HIDE DEF k
  <2>2. HonestMintIf(k, doubtful') /\ HonestFlag(k) /\ (\A t \in Takedown : ~Approves(k, t)) /\ IsWriter(k)
    BY <1>1, <1>5, <1>8, <2>1 DEF HonestMintIf, HonestFlag, Approves, IsCopy
  <2> QED  BY <1>1, <1>3, <2>1, <2>2, SongOwnStep
<1> QED  BY <1>2, <1>7, <1>8

(* The takedowns are written. *)

LEMMA SongTakedownSaved ==
  ASSUME SongInv, NEW w \in SongWriter, Row!SaveTakedown(w)
  PROVE  SongInv'
<1> DEFINE me == writer[w]
<1>1. /\ me.at = "closing" /\ writer' = [writer EXCEPT ![w] = Row!Quiet]
      /\ UNCHANGED <<song, chain, doubtful, lifted>>
      /\ takedown' = [takedown EXCEPT ![me.t] = me.claim] \/ takedown' = takedown
  BY DEF Row!SaveTakedown, Row!Become
<1>2. IsClaim(me.claim)
  BY <1>1 DEF SongInv, SongTypes, IsWriter
<1>3. \A v \in SongWriter : writer'[v] = IF v = w THEN Row!Quiet ELSE writer[v]
  BY <1>1 DEF SongInv, SongTypes
<1>4. \A t \in Takedown : takedown'[t] = takedown[t] \/ (t = me.t /\ takedown'[t] = me.claim)
  BY <1>1 DEF SongInv, SongTypes
<1>5. SongTypes'
  <2>1. writer' = [v \in SongWriter |-> writer'[v]] /\ takedown' = [t \in Takedown |-> takedown'[t]] /\ IsSong(song')
    BY <1>1 DEF SongInv, SongTypes
  <2>2. \A v \in SongWriter : IsWriter(writer'[v])
    BY <1>3, QuietState DEF SongInv, SongTypes
  <2>3. \A t \in Takedown : IsClaim(takedown'[t])
    BY <1>2, <1>4 DEF SongInv, SongTypes
  <2> QED  BY <2>1, <2>2, <2>3 DEF SongTypes
<1>6. \A v \in SongWriter : HonestMint(writer[v])' /\ HonestFlag(writer[v])'
  <2>1. TAKE v \in SongWriter
  <2>2. HonestMint(writer[v]) /\ HonestFlag(writer[v])
    BY DEF SongInv
  <2>3. HonestMint(writer[v])'
    BY <1>1, <1>3, <2>2, QuietState DEF HonestMint, HonestMintIf, Acting
  <2>4. HonestFlag(writer[v])'
    BY <1>1, <1>3, <2>2, QuietState DEF HonestFlag
  <2> QED  BY <2>3, <2>4
<1>7. MintKept'
  <2>1. \A v \in SongWriter : Landed(v) => Landed(v)'
    BY <1>1, <1>3 DEF Landed, HasLanded
  <2> QED  BY <1>1, <2>1 DEF SongInv, MintKept
<1>8. TakedownKept'
  <2>1. \A t \in Takedown : Stands(t)' => Stands(t)
    <3>1. TAKE t \in Takedown
    <3>2. takedown'[t].status = "approved" => takedown[t].status = "approved" \/ Approving(w, t)
      BY <1>1, <1>4 DEF Approving, Approves
    <3>3. \A v \in SongWriter : Approving(v, t)' => Approving(v, t)
      BY <1>3, QuietState DEF Approving, Approves
    <3> QED  BY <3>2, <3>3 DEF Stands
  <2> QED  BY <1>1, <2>1 DEF SongInv, TakedownKept
<1> QED  BY <1>5, <1>6, <1>7, <1>8 DEF SongInv

LEMMA SongTakedownFiled ==
  ASSUME SongInv, NEW t \in Takedown, Row!FileTakedown(t)
  PROVE  SongInv'
<1> DEFINE claim == [status |-> "pending", wasFlagged |-> Row!Hidden]
<1>1. takedown' = [takedown EXCEPT ![t] = claim] /\ UNCHANGED <<song, writer, chain, doubtful, lifted>>
  BY DEF Row!FileTakedown
<1>2. IsClaim(claim) /\ claim.status = "pending"
  BY DEF IsClaim
<1> HIDE DEF claim
<1>3. \A u \in Takedown : takedown'[u] = IF u = t THEN claim ELSE takedown[u]
  BY <1>1 DEF SongInv, SongTypes
<1>4. SongTypes'
  BY <1>1, <1>2, <1>3 DEF SongInv, SongTypes
<1>5. \A v \in SongWriter : HonestMint(writer[v])' /\ HonestFlag(writer[v])'
  <2>1. TAKE v \in SongWriter
  <2>2. HonestMint(writer[v]) /\ HonestFlag(writer[v])
    BY DEF SongInv
  <2>3. HonestMint(writer[v])'
    BY <1>1, <2>2 DEF HonestMint, HonestMintIf
  <2>4. HonestFlag(writer[v])'
    BY <1>1, <2>2 DEF HonestFlag
  <2> QED  BY <2>3, <2>4
<1>6. MintKept'
  BY <1>1 DEF SongInv, MintKept, Landed
<1>7. TakedownKept'
  <2>1. \A u \in Takedown : Stands(u)' => Stands(u)
    BY <1>1, <1>2, <1>3 DEF Stands, Approving
  <2> QED  BY <1>1, <2>1 DEF SongInv, TakedownKept
<1> QED  BY <1>4, <1>5, <1>6, <1>7 DEF SongInv

(* The song is written, and the other copies of it are overtaken. *)

Overtaken(old, new) ==
    /\ IsWriter(new) /\ new.at = old.at
    /\ IF old.at \in Acting THEN new.stale /\ new.op = old.op /\ new.copy = old.copy ELSE new = old

LEMMA SongOthersStale ==
  ASSUME SongInv, NEW w \in SongWriter, NEW next, Row!OthersStale(w, next)
  PROVE  /\ writer' = [v \in SongWriter |-> writer'[v]] /\ writer'[w] = next
         /\ \A v \in SongWriter \ {w} : Overtaken(writer[v], writer'[v])
<1>1. \A v \in SongWriter :
        writer'[v] = IF v = w THEN next
                     ELSE IF writer[v].at \in Acting THEN [writer[v] EXCEPT !.stale = TRUE] ELSE writer[v]
  BY DEF Row!OthersStale, Acting
<1>2. ASSUME NEW v \in SongWriter \ {w}  PROVE Overtaken(writer[v], writer'[v])
  <2>1. IsWriter(writer[v])
    BY DEF SongInv, SongTypes
  <2>2. CASE writer[v].at \in Acting
    <3>1. writer'[v] = [writer[v] EXCEPT !.stale = TRUE]
      BY <1>1, <2>2
    <3> QED  BY <2>1, <2>2, <3>1, StaleCopy DEF Overtaken
  <2>3. CASE writer[v].at \notin Acting
    BY <1>1, <2>1, <2>3 DEF Overtaken
  <2> QED  BY <2>2, <2>3
<1> QED  BY <1>1, <1>2 DEF Row!OthersStale

\* Overtaken copies claim nothing about the row but that they hold one.
LEMMA OvertakenIsHonest ==
  ASSUME NEW old, NEW new, Overtaken(old, new), HonestMint(old), HonestFlag(old)
  PROVE  /\ new.at \in Acting => new.copy.there /\ new.stale
         /\ new.at = "saving" /\ new.op = "take down" => new.copy.flag = "manual"
         /\ HasLanded(old) => HasLanded(new)
         /\ \A t \in Takedown : Approves(new, t) <=> Approves(old, t)
<1>1. HasLanded(old) => HasLanded(new)
  BY DEF Overtaken, HasLanded, Acting
<1>2. \A t \in Takedown : Approves(new, t) <=> Approves(old, t)
  BY DEF Overtaken, Approves, Acting
<1>3. new.at \in Acting => new.copy.there /\ new.stale
  BY DEF Overtaken, HonestMint, HonestMintIf
<1>4. new.at = "saving" /\ new.op = "take down" => new.copy.flag = "manual"
  BY DEF Overtaken, HonestFlag, Acting
<1> QED  BY <1>1, <1>2, <1>3, <1>4

\* What a request does after its save.
LEMMA SongAfterSave ==
  ASSUME NEW me, IsWriter(me), me.at = "saving"
  PROVE  /\ IsWriter(Row!AfterSave(me))
         /\ Row!AfterSave(me).at \in {"saving", "closing", "announcing", "none"}
         /\ Row!AfterSave(me).at = "saving" =>
              Row!AfterSave(me).op = "edit" /\ Row!AfterSave(me).copy = me.copy /\ ~Row!AfterSave(me).stale
         /\ Row!AfterSave(me).at = "closing" =>
              /\ me.op \in {"take down", "reverse"}
              /\ Row!AfterSave(me).t = me.t /\ Row!AfterSave(me).claim = me.claim
<1> DEFINE next == Row!AfterSave(me)
<1>1. CASE me.op = "process"
  <2>1. next = [me EXCEPT !.op = "edit", !.stale = FALSE]
    BY <1>1 DEF Row!AfterSave, Row!Again
  <2> HIDE DEF next
  <2>2. next = [c \in DOMAIN next |-> next[c]] /\ DOMAIN next = DOMAIN me
        /\ next.at = "saving" /\ next.op = "edit" /\ next.copy = me.copy
    BY <2>1 DEF IsWriter, Acting
  <2>3. next.stale = FALSE
    BY <2>1 DEF IsWriter, Acting
  <2>4. IsWriter(next)
    BY <2>2, <2>3 DEF IsWriter, Acting
  <2> QED  BY <2>2, <2>3, <2>4 DEF next
<1>2. CASE me.op \in {"take down", "reverse"}
  <2>1. next = [me EXCEPT !.at = "closing"]
    BY <1>2 DEF Row!AfterSave
  <2> HIDE DEF next
  <2>2. IsWriter(next) /\ next.at = "closing" /\ next.t = me.t /\ next.claim = me.claim
    BY <1>2, <2>1, WriterField, ZenonT(60) DEF Acting
  <2> QED  BY <1>2, <2>2 DEF next
<1>3. CASE me.op = "mint" /\ me.copy.mint = "minted"
  <2>1. next = [me EXCEPT !.at = "announcing"]
    BY <1>3 DEF Row!AfterSave
  <2> HIDE DEF next
  <2>2. IsWriter(next) /\ next.at = "announcing"
    BY <2>1 DEF IsWriter, Acting
  <2> QED  BY <2>2 DEF next
<1>4. CASE me.op # "process" /\ me.op \notin {"take down", "reverse"} /\ ~(me.op = "mint" /\ me.copy.mint = "minted")
  <2>1. next = Row!Quiet
    BY <1>4 DEF Row!AfterSave
  <2> HIDE DEF next
  <2>2. IsWriter(next) /\ next.at = "none"
    BY <2>1, QuietState
  <2> QED  BY <2>2 DEF next
<1> QED  BY <1>1, <1>2, <1>3, <1>4

LEMMA SongSaved ==
  ASSUME SongInv, NEW w \in SongWriter, Row!Save(w)
  PROVE  SongInv'
<1> DEFINE me == writer[w]
           next == Row!AfterSave(me)
<1>1. /\ me.at = "saving" /\ song' = me.copy /\ takedown' = takedown /\ chain' = chain
      /\ doubtful' = (doubtful \/ (me.stale /\ song.mint = "minted" /\ me.copy.mint # "minted"))
      /\ Row!OthersStale(w, next)
  BY DEF Row!Save
<1>2. IsWriter(me) /\ HonestMint(me) /\ HonestFlag(me)
  BY DEF SongInv, SongTypes
<1>3. IsSong(me.copy) /\ me.copy.there
  BY <1>1, <1>2 DEF IsWriter, HonestMint, HonestMintIf, Acting
<1>4. /\ IsWriter(next) /\ next.at \in {"saving", "closing", "announcing", "none"}
      /\ next.at = "saving" => next.op = "edit" /\ next.copy = me.copy /\ ~next.stale
      /\ next.at = "closing" => me.op \in {"take down", "reverse"} /\ next.t = me.t /\ next.claim = me.claim
  BY <1>1, <1>2, SongAfterSave
<1> HIDE DEF next
<1>5. /\ writer' = [v \in SongWriter |-> writer'[v]] /\ writer'[w] = next
      /\ \A v \in SongWriter \ {w} : Overtaken(writer[v], writer'[v])
  BY <1>1, SongOthersStale
<1>6. \A v \in SongWriter \ {w} :
        /\ writer'[v].at \in Acting => writer'[v].copy.there /\ writer'[v].stale
        /\ writer'[v].at = "saving" /\ writer'[v].op = "take down" => writer'[v].copy.flag = "manual"
        /\ HasLanded(writer[v]) => HasLanded(writer'[v])
        /\ \A t \in Takedown : Approves(writer'[v], t) <=> Approves(writer[v], t)
  BY <1>5, OvertakenIsHonest DEF SongInv
<1>7. doubtful => doubtful'
  BY <1>1
<1>8. SongTypes'
  <2>1. \A v \in SongWriter : IsWriter(writer'[v])
    BY <1>4, <1>5 DEF Overtaken
  <2> QED  BY <1>1, <1>3, <1>5, <2>1 DEF SongInv, SongTypes
<1>9. \A v \in SongWriter : HonestMint(writer[v])' /\ HonestFlag(writer[v])'
  <2>1. TAKE v \in SongWriter
  <2>2. CASE v = w
    <3>1. HonestMint(writer[v])'
      BY <1>1, <1>3, <1>4, <1>5, <2>2 DEF HonestMint, HonestMintIf, Acting
    <3>2. HonestFlag(writer[v])'
      BY <1>1, <1>4, <1>5, <2>2 DEF HonestFlag
    <3> QED  BY <3>1, <3>2
  <2>3. CASE v # w
    <3>1. HonestMint(writer[v])'
      BY <1>6, <2>3 DEF HonestMint, HonestMintIf
    <3>2. HonestFlag(writer[v])'
      BY <1>6, <2>3 DEF HonestFlag, Acting
    <3> QED  BY <3>1, <3>2
  <2> QED  BY <2>2, <2>3
<1>10. MintKept'
  <2>1. SUFFICES ASSUME chain', ~doubtful', ~(song'.there /\ song'.mint = "minted") PROVE \E v \in SongWriter : Landed(v)'
    BY DEF MintKept
  <2>2. ~HasLanded(me)
    BY <1>1, <1>3, <2>1 DEF HasLanded
  <2>3. song.mint # "minted"
    <3>1. SUFFICES ASSUME song.mint = "minted" PROVE FALSE
      OBVIOUS
    <3>2. ~me.stale
      BY <1>1, <1>3, <2>1, <3>1
    <3>3. me.copy.mint = "minted"
      BY <1>1, <1>2, <1>7, <2>1, <3>1, <3>2 DEF HonestMint, HonestMintIf, Acting
    <3> QED  BY <1>1, <1>3, <2>1, <3>3
  <2>4. PICK v \in SongWriter : Landed(v)
    BY <1>1, <1>7, <2>1, <2>3 DEF SongInv, MintKept
  <2>5. v # w
    BY <2>2, <2>4 DEF Landed
  <2> QED  BY <1>6, <2>4, <2>5 DEF Landed
<1>11. TakedownKept'
  <2>1. CASE me.op = "take down"
    BY <1>1, <1>2, <2>1 DEF HonestFlag, TakedownKept
  <2>2. CASE me.op # "take down"
    <3>1. \A t \in Takedown : Stands(t)' => Stands(t)
      <4>1. TAKE t \in Takedown
      <4>2. ~Approves(next, t)
        <5>1. SUFFICES ASSUME next.at = "closing" PROVE next.claim.status # "approved"
          BY DEF Approves
        <5> QED  BY <1>1, <1>2, <1>4, <2>2, <5>1 DEF IsWriter, Acting
      <4>3. \A v \in SongWriter : Approving(v, t)' => Approving(v, t)
        BY <1>5, <1>6, <4>2 DEF Approving
      <4> QED  BY <1>1, <4>3 DEF Stands
    <3>2. lifted' = IF song.flag = "manual" /\ me.copy.flag # "manual" /\ (me.stale \/ Row!Republishes(me.op))
                    THEN lifted \cup Row!Standing ELSE lifted
      BY <2>2 DEF Row!Save
    <3>3. \A t \in Takedown : Stands(t) => t \in Row!Standing
      BY DEF Stands, Approving, Approves, Row!Standing
    <3>4. SUFFICES ASSUME NEW t \in Takedown, Stands(t), t \notin lifted', me.copy.flag # "manual" PROVE FALSE
      BY <1>1, <3>1 DEF TakedownKept
    <3>5. t \notin lifted
      BY <3>2, <3>4
    <3>6. song.flag = "manual"
      BY <3>4, <3>5 DEF SongInv, TakedownKept
    <3>7. ~(me.stale \/ Row!Republishes(me.op))
      BY <3>2, <3>3, <3>4, <3>6
    <3> QED  BY <1>1, <1>2, <3>4, <3>6, <3>7 DEF HonestFlag
  <2> QED  BY <2>1, <2>2
<1> QED  BY <1>8, <1>9, <1>10, <1>11 DEF SongInv

LEMMA SongRemoved ==
  ASSUME SongInv, NEW w \in SongWriter, Row!RemoveSong(w)
  PROVE  SongInv'
<1> DEFINE me == writer[w]
<1>1. /\ me.at = "removing" /\ song' = [song EXCEPT !.there = FALSE] /\ chain' = chain /\ lifted' = lifted
      /\ doubtful' = (doubtful \/ song.mint = "minted")
      /\ takedown' = [t \in Takedown |-> IF takedown[t] = Row!NoClaim THEN Row!NoClaim ELSE Row!Gone]
      /\ Row!OthersStale(w, Row!Quiet)
  BY DEF Row!RemoveSong
<1>2. IsSong(song') /\ song'.mint = song.mint /\ song'.flag = song.flag
  BY <1>1, SongColumn DEF SongInv, SongTypes
<1>3. /\ writer' = [v \in SongWriter |-> writer'[v]] /\ writer'[w] = Row!Quiet
      /\ \A v \in SongWriter \ {w} : Overtaken(writer[v], writer'[v])
  BY <1>1, SongOthersStale
<1>4. \A v \in SongWriter \ {w} :
        /\ writer'[v].at \in Acting => writer'[v].copy.there /\ writer'[v].stale
        /\ writer'[v].at = "saving" /\ writer'[v].op = "take down" => writer'[v].copy.flag = "manual"
        /\ HasLanded(writer[v]) => HasLanded(writer'[v])
        /\ \A t \in Takedown : Approves(writer'[v], t) <=> Approves(writer[v], t)
  BY <1>3, OvertakenIsHonest DEF SongInv
<1>5. \A t \in Takedown : IsClaim(takedown'[t]) /\ takedown'[t].status # "approved"
  <2>1. IsClaim(Row!NoClaim) /\ Row!NoClaim.status = "none" /\ IsClaim(Row!Gone) /\ Row!Gone.status = "gone"
    BY DEF IsClaim, Row!NoClaim, Row!Gone
  <2> QED  BY <1>1, <2>1
<1>6. SongTypes'
  <2>1. \A v \in SongWriter : IsWriter(writer'[v])
    BY <1>3, QuietState DEF Overtaken
  <2> QED  BY <1>1, <1>2, <1>3, <1>5, <2>1 DEF SongTypes
<1>7. \A v \in SongWriter : HonestMint(writer[v])' /\ HonestFlag(writer[v])'
  <2>1. TAKE v \in SongWriter
  <2>2. CASE v = w
    BY <1>3, <2>2, QuietState DEF HonestMint, HonestMintIf, HonestFlag, Acting
  <2>3. CASE v # w
    <3>1. HonestMint(writer[v])'
      BY <1>4, <2>3 DEF HonestMint, HonestMintIf
    <3>2. HonestFlag(writer[v])'
      BY <1>4, <2>3 DEF HonestFlag, Acting
    <3> QED  BY <3>1, <3>2
  <2> QED  BY <2>2, <2>3
<1>8. MintKept'
  <2>1. SUFFICES ASSUME chain', ~doubtful' PROVE \E v \in SongWriter : Landed(v)'
    BY DEF MintKept
  <2>2. ~doubtful /\ song.mint # "minted"
    BY <1>1, <2>1
  <2>3. PICK v \in SongWriter : Landed(v)
    BY <1>1, <2>1, <2>2 DEF SongInv, MintKept
  <2>4. v # w
    BY <1>1, <2>3 DEF Landed, HasLanded
  <2> QED  BY <1>4, <2>3, <2>4 DEF Landed
<1>9. TakedownKept'
  <2>1. \A t \in Takedown : Stands(t)' => Stands(t)
    <3>1. TAKE t \in Takedown
    <3>2. \A v \in SongWriter : Approving(v, t)' => Approving(v, t)
      BY <1>3, <1>4, QuietState DEF Approving, Approves
    <3> QED  BY <1>5, <3>2 DEF Stands
  <2> QED  BY <1>1, <1>2, <2>1 DEF SongInv, TakedownKept
<1> QED  BY <1>6, <1>7, <1>8, <1>9 DEF SongInv

LEMMA SongInit == RecordsInit => SongInv
<1> SUFFICES ASSUME RecordsInit PROVE SongInv
  OBVIOUS
<1>1. /\ song = [there |-> TRUE, mint |-> "not_minted", flag |-> "off"]
      /\ takedown = [t \in Takedown |-> Row!NoClaim] /\ writer = [w \in SongWriter |-> Row!Quiet]
      /\ chain = FALSE
  BY DEF RecordsInit, Row!Init
<1>2. IsClaim(Row!NoClaim) /\ Row!NoClaim.status = "none"
  BY DEF IsClaim, Row!NoClaim
<1>3. IsSong(song)
  <2>1. song = [c \in {"there", "mint", "flag"} |-> song[c]]
    BY <1>1
  <2>2. song.there = TRUE
    BY <1>1
  <2> QED  BY <2>1, <2>2 DEF IsSong
<1>4. \A w \in SongWriter : IsWriter(writer[w]) /\ writer[w].at = "none"
  BY <1>1, QuietState
<1>5. SongTypes
  BY <1>1, <1>2, <1>3, <1>4 DEF SongTypes
<1>6. \A w \in SongWriter : HonestMint(writer[w]) /\ HonestFlag(writer[w])
  BY <1>4 DEF HonestMint, HonestMintIf, HonestFlag, Acting
<1>7. MintKept
  BY <1>1 DEF MintKept
<1>8. TakedownKept
  <2>1. \A t \in Takedown : ~Stands(t)
    BY <1>1, <1>2, <1>4 DEF Stands, Approving, Approves
  <2> QED  BY <2>1 DEF TakedownKept
<1> QED  BY <1>5, <1>6, <1>7, <1>8 DEF SongInv

LEMMA SongStep ==
  ASSUME SongInv, Row!Next
  PROVE  SongInv'
<1>1. CASE \E t \in Takedown : Row!FileTakedown(t)
  BY <1>1, SongTakedownFiled
<1>2. CASE \E w \in SongWriter : \E t \in Takedown :
             Row!ApproveTakedown(w, t) \/ Row!RejectTakedown(w, t) \/ Row!ReverseTakedown(w, t)
  BY <1>2, SongReviewsBegin
<1>3. CASE \E w \in SongWriter : \E r \in Report : \E flags \in BOOLEAN : Row!ResolveReport(w, r, flags)
  BY <1>3, SongReportResolved
<1>4. CASE \E w \in SongWriter :
             \/ Row!OtherColumns(w) \/ Row!FlagSong(w) \/ Row!UnflagSong(w) \/ Row!Moderate(w)
             \/ Row!DeleteSong(w) \/ Row!SubmitMint(w) \/ \E r \in Report : Row!SubmitReport(w, r)
  BY <1>4, SongRequestsBegin
<1>5. CASE \E w \in SongWriter : Row!MintLands(w) \/ Row!MintRefused(w) \/ Row!MintTimesOut(w)
  BY <1>5, SongMintPolled
<1>6. CASE \E w \in SongWriter : Row!Die(w) \/ Row!Announce(w)
  BY <1>6, SongStops
<1>7. CASE \E w \in SongWriter : Row!Save(w)
  BY <1>7, SongSaved
<1>8. CASE \E w \in SongWriter : Row!SaveFails(w)
  BY <1>8, SongSaveFails
<1>9. CASE \E w \in SongWriter : Row!RemoveSong(w)
  BY <1>9, SongRemoved
<1>10. CASE \E w \in SongWriter : Row!CountReports(w)
  BY <1>10, SongReportsCounted
<1>11. CASE \E w \in SongWriter : Row!ApplyResolution(w)
  BY <1>11, SongResolutionApplied
<1>12. CASE \E w \in SongWriter : Row!SaveTakedown(w)
  BY <1>12, SongTakedownSaved
<1> QED  BY <1>1, <1>2, <1>3, <1>4, <1>5, <1>6, <1>7, <1>8, <1>9, <1>10, <1>11, <1>12, Zenon DEF Row!Next

LEMMA SongTogether ==
  ASSUME SongInv, [RecordsNext]_<<part, sessionVars, deletionVars, songVars, versionVars, releaseVars, playlistVars, keyVars>>
  PROVE  SongInv'
<1>1. CASE Row!Next
  BY <1>1, SongStep
<1>2. CASE UNCHANGED songVars
  <2>1. UNCHANGED <<song, takedown, writer, chain, doubtful, lifted>>
    BY <1>2 DEF songVars
  <2>2. SongTypes'
    BY <2>1 DEF SongInv, SongTypes
  <2>3. \A w \in SongWriter : HonestMint(writer[w])' /\ HonestFlag(writer[w])'
    <3>1. TAKE w \in SongWriter
    <3>2. HonestMint(writer[w]) /\ HonestFlag(writer[w])
      BY DEF SongInv
    <3>3. HonestMint(writer[w])'
      BY <2>1, <3>2 DEF HonestMint, HonestMintIf
    <3>4. HonestFlag(writer[w])'
      BY <2>1, <3>2 DEF HonestFlag
    <3> QED  BY <3>3, <3>4
  <2>4. MintKept'
    BY <2>1 DEF SongInv, MintKept, Landed
  <2>5. TakedownKept'
    BY <2>1 DEF SongInv, TakedownKept, Stands, Approving
  <2> QED  BY <2>2, <2>3, <2>4, <2>5 DEF SongInv
<1> QED  BY <1>1, <1>2 DEF RecordsNext

LEMMA SongInvariant == RecordsSpec => []SongInv
<1>1. SongInv /\ [RecordsNext]_<<part, sessionVars, deletionVars, songVars, versionVars, releaseVars, playlistVars, keyVars>>
        => SongInv'
  BY SongTogether
<1> QED  BY <1>1, SongInit, PTL DEF RecordsSpec

\* A mint that landed on chain is in the row once its request has ended, unless its outcome
\* was not seen or not kept, for any number of requests that save whole copies of the row
\* (SongService.submitSongMintTx against every other save of the song).
THEOREM MintsAreKept == RecordsSpec => []LandedIsMinted
<1>1. SongInv => LandedIsMinted
  <2> SUFFICES ASSUME SongInv, chain, \A w \in SongWriter : ~Row!Minting(w)
               PROVE  (song.there /\ song.mint = "minted") \/ doubtful
    BY DEF LandedIsMinted, Row!LandedIsMinted
  <2>1. \A w \in SongWriter : ~Landed(w)
    BY DEF Landed, HasLanded, Row!Minting
  <2> QED  BY <2>1 DEF SongInv, MintKept
<1> QED  BY <1>1, SongInvariant, PTL

\* A song taken down stays hidden until it is shown again by a decision, or by a request
\* that saved a copy from before the takedown (TakedownService.reviewRequest against
\* reports, dismissals, edits and mints).
THEOREM TakedownsHold == RecordsSpec => []TakenDownStaysHidden
<1>1. SongInv => TakenDownStaysHidden
  <2> SUFFICES ASSUME SongInv, NEW t \in Takedown, takedown[t].status = "approved", song.flag = "off"
               PROVE  t \in lifted
    BY DEF TakenDownStaysHidden, Row!TakenDownStaysHidden, Row!Hidden
  <2> QED  BY DEF SongInv, TakedownKept, Stands
<1> QED  BY <1>1, SongInvariant, PTL

----------------------------------------------------------------------------
(* Privy's keys *)

\* A moment up to now, or none.
Past(t) == t = Keys!None \/ (t \in Nat /\ t <= now)

KeyTypes ==
    /\ now \in Nat /\ now <= MaxTime /\ failedAt \in Nat /\ failedAt <= now
    /\ published = [k \in Kid |-> published[k]] /\ unknown = [k \in Kid |-> unknown[k]]
    /\ \A k \in Kid : Past(published[k]) /\ Past(unknown[k])
    /\ keySet # Keys!NoEntry => /\ keySet.at \in Nat /\ keySet.at <= now
                               /\ keySet.asked \in Nat /\ keySet.asked <= now
    /\ fetch = [since |-> fetch.since, keys |-> fetch.keys, waiting |-> fetch.waiting] /\ fetch.waiting \subseteq Kid
    /\ fetch # Keys!NoFetch => fetch.since \in Nat /\ fetch.since <= now
    /\ refusal \subseteq Kid

\* Whatever was published when a key set was asked for, and has been since, is in it.
Holds(keys, asked) == \A k \in Kid : published[k] # Keys!None /\ published[k] < asked => k \in keys
SetHolds == keySet # Keys!NoEntry => Holds(keySet.keys, keySet.asked)
AnswerHolds == fetch # Keys!NoFetch /\ fetch.keys # {} => Holds(fetch.keys, fetch.since)

\* When k, published, should have been found, had the last failure been at that moment.
FoundBy(k, failure) ==
    Keys!Latest(failure, IF keySet # Keys!NoEntry /\ published[k] >= keySet.asked
                         THEN Keys!Latest(published[k], keySet.at) ELSE published[k])

\* A lookup in vain is less than one window behind, and whoever is refused has been noted.
NotesInTime ==
    \A k \in Kid : unknown[k] # Keys!None /\ published[k] # Keys!None
                     => unknown[k] < FoundBy(k, failedAt) + NegativeTtl
RefusedByNote == \A k \in refusal : unknown[k] # Keys!None /\ now - unknown[k] < NegativeTtl

KeyInv == KeyTypes /\ SetHolds /\ AnswerHolds /\ NotesInTime /\ RefusedByNote

LEMMA KeyNone == Keys!None \in Nat /\ NegativeTtl \in Nat /\ NegativeTtl > 0 /\ \A t \in Nat : t <= MaxTime => t # Keys!None
  BY RecordsAssumption DEF Keys!None

\* A later failure never makes a key due earlier.
LEMMA FoundLater ==
  ASSUME KeyTypes, NEW k \in Kid, published[k] # Keys!None, NEW f \in Nat, NEW g \in Nat, f <= g
  PROVE  /\ FoundBy(k, f) \in Nat /\ FoundBy(k, g) \in Nat
         /\ FoundBy(k, f) <= FoundBy(k, g) /\ g <= FoundBy(k, g) /\ published[k] <= FoundBy(k, g)
         /\ keySet # Keys!NoEntry /\ published[k] >= keySet.asked => keySet.at <= FoundBy(k, g)
<1>1. published[k] \in Nat
  BY DEF KeyTypes, Past
<1>2. keySet # Keys!NoEntry => keySet.at \in Nat /\ keySet.asked \in Nat
  BY DEF KeyTypes
<1> QED  BY <1>1, <1>2 DEF FoundBy, Keys!Latest

\* Callers ask for keys, are told that there is none, and lookups fail, while the key set
\* and Privy's keys stay as they are.
LEMMA KeysStay ==
  ASSUME KeyInv, UNCHANGED <<now, published, keySet>>, failedAt' \in {failedAt, now},
         unknown' = [k \in Kid |-> unknown'[k]], refusal' \subseteq Kid,
         \A k \in Kid : \/ unknown'[k] = unknown[k]
                       \/ /\ unknown'[k] = now
                          /\ published[k] # Keys!None => now < FoundBy(k, failedAt') + NegativeTtl,
         \A k \in refusal' \ refusal : unknown'[k] # Keys!None /\ now - unknown'[k] < NegativeTtl,
         fetch' = [since |-> fetch'.since, keys |-> fetch'.keys, waiting |-> fetch'.waiting],
         fetch'.waiting \subseteq Kid,
         fetch' # Keys!NoFetch => /\ fetch'.since \in Nat /\ fetch'.since <= now
                                  /\ fetch'.keys # {} => Holds(fetch'.keys, fetch'.since)
  PROVE  KeyInv'
<1>1. KeyTypes /\ now \in Nat /\ failedAt \in Nat /\ failedAt <= now /\ failedAt' \in Nat /\ failedAt <= failedAt'
      /\ failedAt' <= now
  BY DEF KeyInv, KeyTypes
<1>2. \A k \in Kid : Past(unknown[k])' /\ Past(published[k])'
  BY <1>1 DEF KeyTypes, Past, Keys!None
<1>3. KeyTypes'
  BY <1>1, <1>2 DEF KeyTypes
<1>4. SetHolds' /\ AnswerHolds'
  BY DEF KeyInv, SetHolds, AnswerHolds, Holds
<1>5. NotesInTime'
  <2>1. SUFFICES ASSUME NEW k \in Kid, unknown'[k] # Keys!None, published[k] # Keys!None
                 PROVE  unknown'[k] < FoundBy(k, failedAt') + NegativeTtl
    BY DEF NotesInTime, FoundBy
  <2>2. FoundBy(k, failedAt) \in Nat /\ FoundBy(k, failedAt') \in Nat /\ FoundBy(k, failedAt) <= FoundBy(k, failedAt')
    BY <1>1, <2>1, FoundLater
  <2>3. CASE unknown'[k] = unknown[k]
    <3>1. unknown[k] \in Nat
      BY <1>1, <2>1, <2>3 DEF KeyTypes, Past
    <3>2. unknown[k] < FoundBy(k, failedAt) + NegativeTtl
      BY <2>1, <2>3 DEF KeyInv, NotesInTime
    <3> QED  BY <2>2, <2>3, <3>1, <3>2, KeyNone
  <2>4. CASE unknown'[k] # unknown[k]
    BY <2>1, <2>4
  <2> QED  BY <2>3, <2>4
<1>6. RefusedByNote'
  <2>1. SUFFICES ASSUME NEW k \in refusal'
                 PROVE  unknown'[k] # Keys!None /\ now - unknown'[k] < NegativeTtl
    BY DEF RefusedByNote, Keys!None
  <2>2. CASE k \in refusal
    <3>1. k \in Kid /\ unknown[k] # Keys!None /\ now - unknown[k] < NegativeTtl
      BY <2>2 DEF KeyInv, KeyTypes, RefusedByNote
    <3>2. now <= MaxTime
      BY <1>1 DEF KeyTypes
    <3> QED  BY <1>1, <3>1, <3>2, KeyNone
  <2>3. CASE k \notin refusal
    BY <2>1, <2>3
  <2> QED  BY <2>2, <2>3
<1> QED  BY <1>3, <1>4, <1>5, <1>6 DEF KeyInv

LEMMA KeyNoted ==
  ASSUME KeyInv, NEW k \in Kid, Keys!RefuseNoted(k) \/ Keys!RefuseCooling(k)
  PROVE  KeyInv'
<1>1. KeyTypes /\ now \in Nat /\ failedAt \in Nat /\ failedAt <= now
  BY DEF KeyInv, KeyTypes
<1>2. /\ UNCHANGED <<now, published, keySet, fetch, failedAt>> /\ refusal' = refusal \cup {k}
      /\ unknown' = unknown \/ unknown' = [j \in Kid |-> IF j \in {k} THEN now ELSE unknown[j]]
  BY DEF Keys!RefuseNoted, Keys!RefuseCooling, Keys!Refuse, Keys!Noting
<1>3. unknown' = [j \in Kid |-> unknown'[j]] /\ \A j \in Kid : unknown'[j] = unknown[j] \/ (j = k /\ unknown'[j] = now)
  BY <1>1, <1>2 DEF KeyTypes
<1>4. published[k] # Keys!None => unknown' = unknown \/ now < FoundBy(k, failedAt) + NegativeTtl
  <2>1. SUFFICES ASSUME published[k] # Keys!None, Keys!RefuseCooling(k)
                 PROVE  now < FoundBy(k, failedAt) + NegativeTtl
    BY DEF Keys!RefuseNoted
  <2>2. /\ FoundBy(k, failedAt) \in Nat
        /\ keySet # Keys!NoEntry /\ published[k] >= keySet.asked => keySet.at <= FoundBy(k, failedAt)
    BY <1>1, <2>1, FoundLater
  <2>3. keySet # Keys!NoEntry /\ k \notin keySet.keys /\ now - keySet.at < NegativeTtl
    BY <2>1 DEF Keys!RefuseCooling, Keys!Cooling
  <2>4. ~(published[k] < keySet.asked)
    BY <2>1, <2>3 DEF KeyInv, SetHolds, Holds
  <2>5. published[k] \in Nat /\ keySet.at \in Nat /\ keySet.asked \in Nat
    BY <1>1, <2>1, <2>3 DEF KeyTypes, Past
  <2>6. keySet.at <= FoundBy(k, failedAt)
    BY <2>2, <2>3, <2>4, <2>5
  <2> QED  BY <1>1, <2>2, <2>3, <2>5, <2>6, KeyNone
<1>5. /\ fetch' = [since |-> fetch'.since, keys |-> fetch'.keys, waiting |-> fetch'.waiting]
      /\ fetch'.waiting \subseteq Kid
      /\ fetch' # Keys!NoFetch => /\ fetch'.since \in Nat /\ fetch'.since <= now
                                  /\ fetch'.keys # {} => Holds(fetch'.keys, fetch'.since)
  BY <1>1, <1>2 DEF KeyInv, KeyTypes, AnswerHolds
<1>6. refusal' \subseteq Kid /\ \A j \in refusal' \ refusal : j = k
  BY <1>1, <1>2 DEF KeyTypes
<1>7. unknown'[k] # Keys!None /\ now - unknown'[k] < NegativeTtl
  <2>1. CASE Keys!RefuseNoted(k)
    BY <2>1 DEF Keys!RefuseNoted, Keys!KnownUnknown
  <2>2. CASE Keys!RefuseCooling(k)
    <3>1. unknown'[k] = now /\ now <= MaxTime
      BY <1>1, <2>2 DEF Keys!RefuseCooling, Keys!Noting, KeyTypes
    <3> QED  BY <1>1, <3>1, KeyNone
  <2> QED  BY <2>1, <2>2
<1> QED  BY <1>2, <1>3, <1>4, <1>5, <1>6, <1>7, KeysStay

\* A refresh fails, or is not even tried: the callers concerned fall back on the old set.
LEMMA KeyRefreshFails ==
  ASSUME KeyInv, NEW kids, kids \subseteq Kid, Keys!Fallback(kids), UNCHANGED <<now, published, keySet>>,
         failedAt' = now, fetch' = fetch \/ fetch' = Keys!NoFetch
  PROVE  KeyInv'
<1>1. KeyTypes /\ now \in Nat /\ failedAt \in Nat /\ failedAt <= now
  BY DEF KeyInv, KeyTypes
<1>2. /\ unknown' = unknown \/ unknown' = [j \in Kid |-> IF j \in kids \ keySet.keys THEN now ELSE unknown[j]]
      /\ refusal' = refusal \/ refusal' = refusal \cup (kids \ keySet.keys)
  BY DEF Keys!Fallback, Keys!Refuse, Keys!Noting
<1>3. unknown' = [j \in Kid |-> unknown'[j]] /\ \A j \in Kid : unknown'[j] = unknown[j] \/ unknown'[j] = now
  BY <1>1, <1>2 DEF KeyTypes
<1>4. \A k \in Kid : published[k] # Keys!None => now < FoundBy(k, failedAt') + NegativeTtl
  <2>1. SUFFICES ASSUME NEW k \in Kid, published[k] # Keys!None
                 PROVE  now < FoundBy(k, failedAt') + NegativeTtl
    OBVIOUS
  <2>2. FoundBy(k, now) \in Nat /\ now <= FoundBy(k, now)
    BY <1>1, <2>1, FoundLater
  <2>3. now < FoundBy(k, now) + NegativeTtl
    BY <1>1, <2>2, KeyNone
  <2> QED  BY <2>3
<1>5. /\ fetch' = [since |-> fetch'.since, keys |-> fetch'.keys, waiting |-> fetch'.waiting]
      /\ fetch'.waiting \subseteq Kid
      /\ fetch' # Keys!NoFetch => /\ fetch'.since \in Nat /\ fetch'.since <= now
                                  /\ fetch'.keys # {} => Holds(fetch'.keys, fetch'.since)
  <2>1. CASE fetch' = fetch
    BY <1>1, <2>1 DEF KeyInv, KeyTypes, AnswerHolds
  <2>2. CASE fetch' = Keys!NoFetch
    BY <2>2 DEF Keys!NoFetch
  <2> QED  BY <2>1, <2>2
<1>6. refusal' \subseteq Kid
  BY <1>1, <1>2 DEF KeyTypes
<1>7. \A j \in refusal' \ refusal : unknown'[j] # Keys!None /\ now - unknown'[j] < NegativeTtl
  <2>1. \A j \in refusal' \ refusal : unknown'[j] = now
    BY <1>1, <1>2 DEF Keys!Fallback, Keys!Refuse, Keys!Noting
  <2>2. now <= MaxTime
    BY <1>1 DEF KeyTypes
  <2> QED  BY <1>1, <2>1, <2>2, KeyNone
<1> QED  BY <1>1, <1>3, <1>4, <1>5, <1>6, <1>7, KeysStay

\* A key set is asked for, or Privy answers.
LEMMA KeyFetchMoves ==
  ASSUME KeyInv, Keys!Respond \/ \E k \in Kid : Keys!Ask(k) \/ Keys!Join(k)
  PROVE  KeyInv'
<1>1. KeyTypes /\ now \in Nat
  BY DEF KeyInv, KeyTypes
<1>2. UNCHANGED <<now, published, keySet, unknown, failedAt, refusal>>
  BY DEF Keys!Respond, Keys!Ask, Keys!Join
<1>3. /\ fetch' = [since |-> fetch'.since, keys |-> fetch'.keys, waiting |-> fetch'.waiting]
      /\ fetch'.waiting \subseteq Kid
      /\ fetch' # Keys!NoFetch => /\ fetch'.since \in Nat /\ fetch'.since <= now
                                  /\ fetch'.keys # {} => Holds(fetch'.keys, fetch'.since)
  <2>1. CASE Keys!Respond
    <3>1. fetch # Keys!NoFetch /\ fetch' = [fetch EXCEPT !.keys = {k \in Kid : published[k] # Keys!None}]
      BY <2>1 DEF Keys!Respond
    <3>2. /\ fetch' = [since |-> fetch'.since, keys |-> fetch'.keys, waiting |-> fetch'.waiting]
          /\ fetch'.since = fetch.since /\ fetch'.waiting = fetch.waiting
          /\ fetch'.keys = {k \in Kid : published[k] # Keys!None}
      BY <1>1, <3>1 DEF KeyTypes
    <3> QED  BY <1>1, <3>1, <3>2 DEF KeyTypes, Holds
  <2>2. CASE \E k \in Kid : Keys!Ask(k)
    BY <1>1, <2>2 DEF Keys!Ask
  <2>3. CASE \E k \in Kid : Keys!Join(k)
    <3>1. PICK k \in Kid : fetch # Keys!NoFetch /\ fetch' = [fetch EXCEPT !.waiting = @ \cup {k}]
      BY <2>3 DEF Keys!Join
    <3>2. /\ fetch' = [since |-> fetch'.since, keys |-> fetch'.keys, waiting |-> fetch'.waiting]
          /\ fetch'.since = fetch.since /\ fetch'.waiting = fetch.waiting \cup {k} /\ fetch'.keys = fetch.keys
      BY <1>1, <3>1 DEF KeyTypes
    <3> QED  BY <1>1, <3>1, <3>2 DEF KeyInv, KeyTypes, AnswerHolds
  <2> QED  BY <2>1, <2>2, <2>3
<1>4. unknown' = [k \in Kid |-> unknown'[k]] /\ refusal' \subseteq Kid
  BY <1>1, <1>2 DEF KeyTypes
<1> QED  BY <1>2, <1>3, <1>4, KeysStay

LEMMA KeySetStored ==
  ASSUME KeyInv, Keys!Store
  PROVE  KeyInv'
<1>1. KeyTypes /\ now \in Nat /\ now <= MaxTime /\ failedAt \in Nat /\ failedAt <= now
  BY DEF KeyInv, KeyTypes
<1>2. /\ fetch.keys # {} /\ keySet' = [keys |-> fetch.keys, at |-> now, asked |-> fetch.since]
      /\ unknown' = [k \in Kid |-> IF k \in fetch.waiting \ fetch.keys THEN now ELSE Keys!None]
      /\ refusal' = fetch.waiting \ fetch.keys /\ fetch' = Keys!NoFetch
      /\ UNCHANGED <<now, published, failedAt>>
  BY DEF Keys!Store
<1>3. fetch # Keys!NoFetch
  BY <1>2 DEF Keys!NoFetch
<1>4. fetch.since \in Nat /\ fetch.since <= now /\ Holds(fetch.keys, fetch.since) /\ fetch.waiting \subseteq Kid
  BY <1>1, <1>2, <1>3 DEF KeyInv, KeyTypes, AnswerHolds
<1>5. keySet' # Keys!NoEntry /\ keySet'.at = now /\ keySet'.asked = fetch.since /\ keySet'.keys = fetch.keys
  BY <1>1, <1>2, KeyNone DEF Keys!NoEntry
<1>6. KeyTypes'
  <2>1. \A k \in Kid : Past(unknown[k])' /\ Past(published[k])'
    BY <1>1, <1>2 DEF KeyTypes, Past, Keys!None
  <2>2. fetch' = [since |-> fetch'.since, keys |-> fetch'.keys, waiting |-> fetch'.waiting] /\ fetch'.waiting \subseteq Kid
    BY <1>2 DEF Keys!NoFetch
  <2>3. published' = [k \in Kid |-> published'[k]] /\ unknown' = [k \in Kid |-> unknown'[k]]
    BY <1>1, <1>2 DEF KeyTypes
  <2>4. refusal' \subseteq Kid
    BY <1>2, <1>4
  <2>5. fetch' = Keys!NoFetch'
    BY <1>2 DEF Keys!NoFetch, Keys!None
  <2> QED  BY <1>1, <1>2, <1>4, <1>5, <2>1, <2>2, <2>3, <2>4, <2>5 DEF KeyTypes
<1>7. SetHolds'
  BY <1>2, <1>4, <1>5 DEF SetHolds, Holds, Keys!None
<1>8. AnswerHolds'
  BY <1>2 DEF AnswerHolds, Keys!NoFetch, Keys!None
<1>9. ASSUME NEW k \in Kid, k \in fetch.waiting \ fetch.keys, published[k] # Keys!None
      PROVE  FoundBy(k, failedAt)' \in Nat /\ now <= FoundBy(k, failedAt)'
  <2>1. ~(published[k] < fetch.since)
    BY <1>4, <1>9 DEF Holds
  <2>2. published[k] \in Nat /\ published[k] <= now
    BY <1>1, <1>9 DEF KeyTypes, Past
  <2>3. published[k] >= fetch.since
    BY <1>4, <2>1, <2>2
  <2>4. FoundBy(k, failedAt)' = Keys!Latest(failedAt, Keys!Latest(published[k], now))
    BY <1>2, <1>5, <2>3 DEF FoundBy, Keys!Latest
  <2>5. Keys!Latest(failedAt, Keys!Latest(published[k], now)) = now
    BY <1>1, <2>2 DEF Keys!Latest
  <2> QED  BY <1>1, <2>4, <2>5
<1>10. NotesInTime'
  <2>1. SUFFICES ASSUME NEW k \in Kid, unknown'[k] # Keys!None, published[k] # Keys!None
                 PROVE  unknown'[k] < FoundBy(k, failedAt)' + NegativeTtl
    BY <1>2 DEF NotesInTime, Keys!None
  <2>2. k \in fetch.waiting \ fetch.keys /\ unknown'[k] = now
    BY <1>2, <2>1
  <2>3. FoundBy(k, failedAt)' \in Nat /\ now <= FoundBy(k, failedAt)'
    BY <1>9, <2>1, <2>2
  <2> DEFINE o == FoundBy(k, failedAt)'
  <2> HIDE DEF o
  <2>4. o \in Nat /\ now <= o
    BY <2>3 DEF o
  <2>5. now < o + NegativeTtl
    BY <1>1, <2>4, KeyNone
  <2> QED  BY <2>2, <2>5 DEF o
<1>11. RefusedByNote'
  <2>1. \A k \in refusal' : unknown'[k] = now
    BY <1>2, <1>4
  <2> QED  BY <1>1, <1>2, <2>1, KeyNone DEF RefusedByNote, Keys!None
<1> QED  BY <1>6, <1>7, <1>8, <1>10, <1>11 DEF KeyInv

LEMMA KeyTimePasses ==
  ASSUME KeyInv, Keys!Tick
  PROVE  KeyInv'
<1>1. KeyTypes /\ now \in Nat /\ now < MaxTime /\ now' = now + 1 /\ refusal' = {}
      /\ UNCHANGED <<published, keySet, unknown, fetch, failedAt>>
  BY DEF KeyInv, KeyTypes, Keys!Tick, Keys!Time
<1>2. now' \in Nat /\ now' <= MaxTime /\ now <= now' /\ \A t \in Nat : t <= now => t <= now'
  BY <1>1, RecordsAssumption
<1>3. \A k \in Kid : Past(published[k])' /\ Past(unknown[k])'
  BY <1>1, <1>2 DEF KeyTypes, Past, Keys!None
<1>4. KeyTypes'
  BY <1>1, <1>2, <1>3 DEF KeyTypes, Keys!NoEntry, Keys!NoFetch, Keys!None
<1>5. SetHolds' /\ AnswerHolds'
  BY <1>1 DEF KeyInv, SetHolds, AnswerHolds, Holds
<1>6. NotesInTime' /\ RefusedByNote'
  BY <1>1 DEF KeyInv, NotesInTime, RefusedByNote, FoundBy
<1> QED  BY <1>4, <1>5, <1>6 DEF KeyInv

\* Privy publishes a key, or retires one: it counts as published from now on, or not at all.
LEMMA KeysRotate ==
  ASSUME KeyInv, NEW k \in Kid, Keys!Publish(k) \/ Keys!Retire(k)
  PROVE  KeyInv'
<1>1. KeyTypes /\ now \in Nat /\ now <= MaxTime /\ failedAt \in Nat /\ failedAt <= now
  BY DEF KeyInv, KeyTypes
<1>2. /\ UNCHANGED <<now, keySet, unknown, fetch, failedAt, refusal>>
      /\ published' = [published EXCEPT ![k] = now] \/ published' = [published EXCEPT ![k] = Keys!None]
  BY DEF Keys!Publish, Keys!Retire
<1>3. /\ published' = [j \in Kid |-> published'[j]]
      /\ \A j \in Kid : published'[j] = published[j] \/ published'[j] = now \/ published'[j] = Keys!None
  BY <1>1, <1>2 DEF KeyTypes
<1>4. \A j \in Kid : Past(published[j])' /\ Past(unknown[j])'
  BY <1>1, <1>2, <1>3 DEF KeyTypes, Past, Keys!None
<1>5. KeyTypes'
  BY <1>1, <1>2, <1>3, <1>4 DEF KeyTypes
<1>6. \A keys : \A asked \in Nat : asked <= now /\ Holds(keys, asked) => Holds(keys, asked)'
  <2>1. SUFFICES ASSUME NEW keys, NEW asked \in Nat, asked <= now, Holds(keys, asked), NEW j \in Kid,
                        published'[j] # Keys!None, published'[j] < asked
                 PROVE  j \in keys
    BY DEF Holds, Keys!None
  <2>2. published'[j] = published[j]
    BY <1>1, <1>3, <2>1
  <2> QED  BY <2>1, <2>2 DEF Holds
<1>7. SetHolds' /\ AnswerHolds'
  BY <1>1, <1>2, <1>6 DEF KeyInv, KeyTypes, SetHolds, AnswerHolds, Keys!NoEntry, Keys!NoFetch, Keys!None
<1>8. ASSUME NEW j \in Kid, published'[j] # Keys!None
      PROVE  \/ published'[j] = published[j]
             \/ FoundBy(j, failedAt)' \in Nat /\ now <= FoundBy(j, failedAt)'
  <2>1. SUFFICES ASSUME published'[j] = now PROVE FoundBy(j, failedAt)' \in Nat /\ now <= FoundBy(j, failedAt)'
    BY <1>3, <1>8
  <2>2. keySet # Keys!NoEntry => keySet.at \in Nat /\ keySet.at <= now /\ keySet.asked \in Nat
    BY <1>1 DEF KeyTypes
  <2>3. FoundBy(j, failedAt)' = Keys!Latest(failedAt, IF keySet # Keys!NoEntry /\ now >= keySet.asked
                                                      THEN Keys!Latest(now, keySet.at) ELSE now)
    BY <1>2, <2>1 DEF FoundBy, Keys!Latest, Keys!NoEntry, Keys!None
  <2>4. Keys!Latest(failedAt, IF keySet # Keys!NoEntry /\ now >= keySet.asked
                              THEN Keys!Latest(now, keySet.at) ELSE now) = now
    BY <1>1, <2>2 DEF Keys!Latest
  <2> QED  BY <1>1, <2>3, <2>4
<1>9. ASSUME NEW j \in Kid, published'[j] = published[j]
      PROVE  FoundBy(j, failedAt)' = FoundBy(j, failedAt)
  BY <1>2, <1>9 DEF FoundBy, Keys!NoEntry, Keys!None
<1>10. NotesInTime'
  <2>1. SUFFICES ASSUME NEW j \in Kid, unknown[j] # Keys!None, published'[j] # Keys!None
                 PROVE  unknown[j] < FoundBy(j, failedAt)' + NegativeTtl
    BY <1>2 DEF NotesInTime, Keys!None
  <2>2. CASE published'[j] = published[j]
    BY <1>9, <2>1, <2>2 DEF KeyInv, NotesInTime
  <2>3. CASE published'[j] # published[j]
    <3> DEFINE o == FoundBy(j, failedAt)'
    <3> HIDE DEF o
    <3>1. o \in Nat /\ now <= o
      BY <1>8, <2>1, <2>3 DEF o
    <3>2. unknown[j] \in Nat /\ unknown[j] <= now
      BY <1>1, <2>1 DEF KeyTypes, Past
    <3>3. unknown[j] < o + NegativeTtl
      BY <1>1, <3>1, <3>2, KeyNone
    <3> QED  BY <3>3 DEF o
  <2> QED  BY <2>2, <2>3
<1>11. RefusedByNote'
  BY <1>2 DEF KeyInv, RefusedByNote, Keys!None
<1> QED  BY <1>5, <1>7, <1>10, <1>11 DEF KeyInv

LEMMA KeyInit == RecordsInit => KeyInv
<1> SUFFICES ASSUME RecordsInit PROVE KeyInv
  OBVIOUS
<1>1. /\ now = 0 /\ failedAt = 0 /\ published \in [Kid -> {0, Keys!None}] /\ unknown = [k \in Kid |-> Keys!None]
      /\ keySet = Keys!NoEntry /\ fetch = Keys!NoFetch /\ refusal = {}
  BY DEF RecordsInit, Keys!Init
<1>2. KeyTypes
  BY <1>1, RecordsAssumption DEF KeyTypes, Past, Keys!NoFetch
<1>3. SetHolds /\ AnswerHolds /\ NotesInTime /\ RefusedByNote
  BY <1>1 DEF SetHolds, AnswerHolds, NotesInTime, RefusedByNote
<1> QED  BY <1>2, <1>3 DEF KeyInv

LEMMA KeyStep ==
  ASSUME KeyInv, Keys!Next
  PROVE  KeyInv'
<1>1. CASE Keys!Tick
  BY <1>1, KeyTimePasses
<1>2. CASE Keys!Store
  BY <1>2, KeySetStored
<1>3. CASE Keys!Fail \/ Keys!AnswerUnusable
  <2>1. Keys!Fallback(fetch.waiting) /\ UNCHANGED <<now, published, keySet>> /\ failedAt' = now /\ fetch' = Keys!NoFetch
    BY <1>3 DEF Keys!Fail, Keys!AnswerUnusable
  <2>2. fetch.waiting \subseteq Kid
    BY DEF KeyInv, KeyTypes
  <2> QED  BY <2>1, <2>2, KeyRefreshFails
<1>4. CASE Keys!Respond \/ \E k \in Kid : Keys!Ask(k) \/ Keys!Join(k)
  BY <1>4, KeyFetchMoves
<1>5. ASSUME NEW k \in Kid, Keys!RefuseNoted(k) \/ Keys!RefuseCooling(k) PROVE KeyInv'
  BY <1>5, KeyNoted
<1>6. ASSUME NEW k \in Kid, Keys!ShortCircuit(k) PROVE KeyInv'
  <2>1. Keys!Fallback({k}) /\ UNCHANGED <<now, published, keySet, fetch>> /\ failedAt' = now
    BY <1>6 DEF Keys!ShortCircuit
  <2> QED  BY <2>1, KeyRefreshFails
<1>7. ASSUME NEW k \in Kid, Keys!Publish(k) \/ Keys!Retire(k) PROVE KeyInv'
  BY <1>7, KeysRotate
<1> QED  BY <1>1, <1>2, <1>3, <1>4, <1>5, <1>6, <1>7 DEF Keys!Next, Keys!GetKey

LEMMA KeyInvariant == RecordsSpec => []KeyInv
<1>1. KeyInv /\ [RecordsNext]_<<part, sessionVars, deletionVars, songVars, versionVars, releaseVars, playlistVars, keyVars>>
        => KeyInv'
  <2> SUFFICES ASSUME KeyInv, [RecordsNext]_<<part, sessionVars, deletionVars, songVars, versionVars, releaseVars,
                                             playlistVars, keyVars>>
               PROVE  KeyInv'
    OBVIOUS
  <2>1. CASE Keys!Next
    BY <2>1, KeyStep
  <2>2. CASE UNCHANGED keyVars
    <3>1. UNCHANGED <<now, published, keySet, unknown, fetch, failedAt, refusal>>
      BY <2>2 DEF keyVars
    <3> QED  BY <3>1 DEF KeyInv, KeyTypes, Past, SetHolds, AnswerHolds, Holds, NotesInTime, RefusedByNote, FoundBy,
                         Keys!NoEntry, Keys!NoFetch, Keys!None
  <2> QED  BY <2>1, <2>2 DEF RecordsNext
<1> QED  BY <1>1, KeyInit, PTL DEF RecordsSpec

\* Only the note of a lookup that ended less than a window after a rotated key could have
\* been found refuses it, for any number of kids, windows and callers (PrivyJwksCache behind
\* its breaker).
THEOREM RotatedKeysAreFound == RecordsSpec => []RotationCatchesOn
<1>1. KeyInv => RotationCatchesOn
  <2> SUFFICES ASSUME KeyInv, NEW k \in refusal, published[k] # Keys!None
               PROVE  Keys!KnownUnknown(k) /\ unknown[k] < Keys!Overdue(k) + NegativeTtl
    BY DEF RotationCatchesOn, Keys!RotationCatchesOn
  <2>1. FoundBy(k, failedAt) = Keys!Overdue(k)
    BY DEF FoundBy, Keys!Overdue
  <2>2. k \in Kid /\ unknown[k] # Keys!None /\ now - unknown[k] < NegativeTtl
    BY DEF KeyInv, KeyTypes, RefusedByNote
  <2> QED  BY <2>1, <2>2 DEF KeyInv, NotesInTime, Keys!KnownUnknown
<1> QED  BY <1>1, KeyInvariant, PTL

----------------------------------------------------------------------------
(* Releases *)

Copier(p) == publisher[p].at \in {"listed", "copying", "marking"}

PreSaveTypes ==
    /\ presave = [f \in Fan |-> presave[f]] /\ delivered = [f \in Fan |-> delivered[f]]
    /\ release \in Rel!Row /\ tracks \in {{}, Track}
    /\ joined \in [Fan -> 0..MaxPreSaves]
    /\ \A f \in Fan : presave[f] = Rel!NoPreSave \/ presave[f].nth \in 1..MaxPreSaves

PublisherTypes ==
    /\ publisher = [p \in Publisher |-> publisher[p]]
    /\ \A p \in Publisher :
         /\ publisher[p].at = "none" => publisher[p] = Rel!Quiet
         /\ Copier(p) =>
              /\ publisher[p] = [at |-> publisher[p].at, rows |-> publisher[p].rows, todo |-> publisher[p].todo]
              /\ publisher[p].rows \subseteq Fan \X (1..MaxPreSaves)

\* Whoever saves a release that was upcoming, and is out by its row, fulfils its pre-saves.
SavesFulfil ==
    \A p \in Publisher : publisher[p].at = "saving" =>
        /\ publisher[p].row \in Rel!Row /\ publisher[p].was \in {"upcoming", "out"}
        /\ publisher[p].was = "upcoming" /\ publisher[p].row.date = "out" => publisher[p].fulfils

Lacking == {d \in Fan \X Track : ~hasty /\ d[2] \notin delivered[d[1]]}

\* What a publisher has yet to copy is all that its rows' fans lack.
CopyOutstanding ==
    \A p \in Publisher : publisher[p].at \in {"copying", "marking"} =>
        \A r \in publisher[p].rows, t \in Track :
            <<r[1], t>> \in Lacking => publisher[p].at = "copying" /\ <<r[1], t>> \in publisher[p].todo

FulfilledHave == \A f \in Fan : presave[f].status = "fulfilled" => Track \subseteq delivered[f] \/ hasty

\* Some publisher will fulfil f's pre-save, or abort.
InHand(f) == \E p \in Publisher : \/ publisher[p].at = "listing"
                                  \/ Copier(p) /\ <<f, presave[f].nth>> \in publisher[p].rows
PendingInHand ==
    release.date = "out" => \A f \in Fan : presave[f].status = "pending" => f \in missed \/ InHand(f)

ReleaseInv == /\ PreSaveTypes /\ PublisherTypes /\ SavesFulfil /\ CopyOutstanding
              /\ FulfilledHave /\ PendingInHand

LEMMA ReleaseInit == RecordsInit => ReleaseInv
<1> SUFFICES ASSUME RecordsInit PROVE ReleaseInv
  OBVIOUS
<1>1. /\ release \in [date : {"upcoming"}, status : {"draft", "scheduled", "published"}] /\ tracks = {}
      /\ presave = [f \in Fan |-> Rel!NoPreSave] /\ delivered = [f \in Fan |-> {}]
      /\ publisher = [p \in Publisher |-> Rel!Quiet] /\ joined = [f \in Fan |-> 0]
  BY DEF RecordsInit, Rel!Init
<1>2. PreSaveTypes /\ PendingInHand
  BY <1>1, RecordsAssumption DEF Rel!Row, PreSaveTypes, PendingInHand
<1>3. PublisherTypes /\ SavesFulfil /\ CopyOutstanding
  BY <1>1 DEF PublisherTypes, SavesFulfil, CopyOutstanding, Copier, Rel!Quiet
<1>4. FulfilledHave
  BY <1>1 DEF FulfilledHave, Rel!NoPreSave
<1> QED  BY <1>2, <1>3, <1>4 DEF ReleaseInv

\* A step of the fans, or of the clock, that no publisher takes.
LEMMA FansMove ==
  ASSUME ReleaseInv, UNCHANGED <<publisher, delivered, hasty>>,
         presave' = [f \in Fan |-> presave'[f]], tracks' \in {{}, Track},
         release' \in Rel!Row, joined' \in [Fan -> 0..MaxPreSaves],
         \A f \in Fan : \/ presave'[f] = presave[f]
                        \/ presave'[f] = Rel!NoPreSave
                        \/ presave'[f].nth \in 1..MaxPreSaves /\ presave'[f].status # "fulfilled",
         release'.date = "out" => \A f \in Fan : presave'[f].status = "pending" =>
                                     \/ f \in missed'
                                     \/ /\ release.date = "out" /\ presave'[f] = presave[f]
                                        /\ f \in missed => f \in missed'
  PROVE  ReleaseInv'
<1>1. PreSaveTypes'
  BY DEF ReleaseInv, PreSaveTypes
<1>2. PublisherTypes' /\ SavesFulfil' /\ CopyOutstanding'
  BY DEF ReleaseInv, PublisherTypes, Copier, SavesFulfil, CopyOutstanding, Lacking
<1>3. FulfilledHave'
  BY DEF ReleaseInv, FulfilledHave, Rel!NoPreSave
<1>4. PendingInHand'
  <2> SUFFICES ASSUME release'.date = "out", NEW f \in Fan, presave'[f].status = "pending", f \notin missed'
               PROVE  InHand(f)'
    BY DEF PendingInHand
  <2>1. InHand(f) /\ presave'[f] = presave[f]
    BY DEF ReleaseInv, PendingInHand
  <2> QED  BY <2>1 DEF InHand, Copier
<1> QED  BY <1>1, <1>2, <1>3, <1>4 DEF ReleaseInv

LEMMA FanSteps ==
  ASSUME ReleaseInv,
         \/ Rel!StoreTracks \/ Rel!DateArrives
         \/ \E f \in Fan : \/ Rel!CheckPreSave(f) \/ Rel!StorePreSave(f) \/ Rel!UnPreSave(f)
                           \/ \E t \in Track : Rel!Unsave(f, t)
  PROVE  ReleaseInv'
<1> USE DEF ReleaseInv, PreSaveTypes
<1>1. CASE Rel!StoreTracks
  BY <1>1, FansMove DEF Rel!StoreTracks
<1>2. CASE Rel!DateArrives
  <2>1. /\ UNCHANGED <<tracks, presave, publisher, delivered, hasty, joined>> /\ release'.date = "out"
        /\ \A f \in Fan : presave[f].status = "pending" => f \in missed'
    BY <1>2 DEF Rel!DateArrives, Rel!Pending, Rel!Row
  <2>2. release' \in Rel!Row
    BY <1>2 DEF Rel!DateArrives, Rel!Row
  <2> QED  BY <2>1, <2>2, FansMove
<1>3. ASSUME NEW f \in Fan, Rel!CheckPreSave(f) \/ \E t \in Track : Rel!Unsave(f, t) PROVE ReleaseInv'
  <2>1. UNCHANGED <<release, tracks, presave, publisher, delivered, missed, hasty, joined>>
    BY <1>3 DEF Rel!CheckPreSave, Rel!Unsave
  <2> QED  BY <2>1, FansMove
<1>4. ASSUME NEW f \in Fan, Rel!UnPreSave(f) PROVE ReleaseInv'
  <2>1. /\ UNCHANGED <<release, tracks, publisher, delivered, missed, hasty, joined>>
        /\ presave' = [presave EXCEPT ![f] = Rel!NoPreSave]
    BY <1>4 DEF Rel!UnPreSave
  <2>2. \A g \in Fan : presave'[g] = presave[g] \/ presave'[g] = Rel!NoPreSave
    BY <2>1
  <2>3. presave' = [g \in Fan |-> presave'[g]]
    BY <2>1
  <2> QED  BY <2>1, <2>2, <2>3, FansMove DEF Rel!NoPreSave
<1>5. ASSUME NEW f \in Fan, Rel!StorePreSave(f), presave[f] # Rel!NoPreSave PROVE ReleaseInv'
  <2>1. UNCHANGED <<release, tracks, presave, publisher, delivered, missed, hasty, joined>>
    BY <1>5 DEF Rel!StorePreSave
  <2> QED  BY <2>1, FansMove
<1>6. ASSUME NEW f \in Fan, Rel!StorePreSave(f), presave[f] = Rel!NoPreSave PROVE ReleaseInv'
  <2>1. /\ UNCHANGED <<release, tracks, publisher, delivered, hasty>>
        /\ presave' = [presave EXCEPT ![f] = [status |-> "pending", nth |-> joined[f] + 1]]
        /\ missed' = IF release.date = "out" THEN missed \cup {f} ELSE missed \ {f}
        /\ joined' = [joined EXCEPT ![f] = @ + 1] /\ joined[f] < MaxPreSaves
    BY <1>6 DEF Rel!StorePreSave
  <2>2. \A g \in Fan : g # f => presave'[g] = presave[g]
    BY <2>1
  <2>5. joined' \in [Fan -> 0..MaxPreSaves]
    BY <2>1, RecordsAssumption
  <2>3. presave'[f].nth \in 1..MaxPreSaves /\ presave'[f].status = "pending"
    BY <2>1, RecordsAssumption
  <2>4. presave' = [g \in Fan |-> presave'[g]]
    BY <2>1
  <2> QED  BY <2>1, <2>2, <2>3, <2>4, <2>5, FansMove
<1> QED  BY <1>1, <1>2, <1>3, <1>4, <1>5, <1>6

\* A publisher's step that leaves its fans' rows alone.
LEMMA PublisherMoves ==
  ASSUME ReleaseInv, NEW p \in Publisher, UNCHANGED <<tracks, presave, joined, delivered, hasty>>,
         NEW state, publisher' = [publisher EXCEPT ![p] = state], release' \in Rel!Row,
         state.at \in {"none", "saving", "listing"},
         state.at = "none" => state = Rel!Quiet,
         state.at = "saving" => /\ state.row \in Rel!Row /\ state.was \in {"upcoming", "out"}
                                /\ state.was = "upcoming" /\ state.row.date = "out" => state.fulfils,
         PendingInHand'
  PROVE  ReleaseInv'
<1>1. publisher' = [q \in Publisher |-> publisher'[q]] /\ publisher'[p] = state
      /\ \A q \in Publisher : q # p => publisher'[q] = publisher[q]
  BY DEF ReleaseInv, PublisherTypes
<1>2. PreSaveTypes' /\ FulfilledHave'
  BY DEF ReleaseInv, PreSaveTypes, FulfilledHave
<1>3. PublisherTypes'
  BY <1>1 DEF ReleaseInv, PublisherTypes, Copier
<1>4. SavesFulfil'
  BY <1>1 DEF ReleaseInv, SavesFulfil
<1>5. CopyOutstanding'
  BY <1>1 DEF ReleaseInv, CopyOutstanding, Lacking
<1> QED  BY <1>2, <1>3, <1>4, <1>5 DEF ReleaseInv

LEMMA PublisherBegins ==
  ASSUME ReleaseInv, NEW p \in Publisher, NEW state, Rel!Begin(p, state),
         state.at \in {"saving", "listing"},
         state.at = "saving" => /\ state.row \in Rel!Row /\ state.was \in {"upcoming", "out"}
                                /\ state.was = "upcoming" /\ state.row.date = "out" => state.fulfils
  PROVE  ReleaseInv'
<1>1. /\ publisher[p] = Rel!Quiet /\ publisher' = [publisher EXCEPT ![p] = state]
      /\ UNCHANGED <<release, tracks, presave, library, fan, joined, delivered, missed, hasty>>
  BY DEF Rel!Begin, Rel!Become
<1>2. \A q \in Publisher : q # p => publisher'[q] = publisher[q]
  BY <1>1 DEF ReleaseInv, PublisherTypes
<1>3. \A f \in Fan : InHand(f) => InHand(f)'
  BY <1>1, <1>2 DEF InHand, Copier, Rel!Quiet
<1>4. PendingInHand'
  BY <1>1, <1>3 DEF ReleaseInv, PendingInHand
<1> QED  BY <1>1, <1>4, PublisherMoves DEF ReleaseInv, PreSaveTypes

LEMMA PublishersBegin ==
  ASSUME ReleaseInv, NEW p \in Publisher, Rel!Publish(p) \/ Rel!Update(p) \/ Rel!PublishScheduled(p)
  PROVE  ReleaseInv'
<1>1. release \in Rel!Row /\ release.date \in {"upcoming", "out"}
  BY DEF ReleaseInv, PreSaveTypes, Rel!Row
<1>2. ASSUME NEW was, NEW row, NEW fulfils \in BOOLEAN, row \in Rel!Row, was \in {"upcoming", "out"},
             was = "upcoming" /\ row.date = "out" => fulfils,
             Rel!Begin(p, [at |-> "saving", was |-> was, row |-> row, fulfils |-> fulfils])
      PROVE  ReleaseInv'
  <2> DEFINE state == [at |-> "saving", was |-> was, row |-> row, fulfils |-> fulfils]
  <2>1. state.at = "saving" /\ state.row = row /\ state.was = was /\ state.fulfils = fulfils
    OBVIOUS
  <2>2. Rel!Begin(p, state)
    BY <1>2
  <2> HIDE DEF state
  <2> QED  BY <1>2, <2>1, <2>2, PublisherBegins
<1>3. CASE Rel!Publish(p)
  <2>1. CASE release.date = "out"
    BY <1>3, <2>1, PublisherBegins DEF Rel!Publish
  <2>2. CASE release.date = "upcoming"
    <3> DEFINE row == [release EXCEPT !.date = "out"]
    <3>1. Rel!Begin(p, [at |-> "saving", was |-> "upcoming", row |-> row, fulfils |-> TRUE])
      BY <1>3, <2>2 DEF Rel!Publish
    <3>2. row \in Rel!Row
      BY <1>1 DEF Rel!Row
    <3> QED  BY <3>1, <3>2, <1>2
  <2> QED  BY <1>1, <2>1, <2>2
<1>4. CASE Rel!Update(p)
  <2>1. PICK row \in Rel!Row :
          Rel!Begin(p, [at |-> "saving", was |-> release.date, row |-> row,
                        fulfils |-> release.date = "upcoming" /\ row.date = "out"])
    BY <1>4 DEF Rel!Update
  <2> QED  BY <1>1, <1>2, <2>1
<1>5. CASE Rel!PublishScheduled(p)
  <2> DEFINE row == [release EXCEPT !.status = "published"]
  <2>1. Rel!Begin(p, [at |-> "saving", was |-> release.date, row |-> row, fulfils |-> FALSE])
    BY <1>5 DEF Rel!PublishScheduled
  <2>2. row \in Rel!Row /\ row.date = release.date
    BY <1>1 DEF Rel!Row
  <2> QED  BY <1>1, <1>2, <2>1, <2>2
<1> QED  BY <1>3, <1>4, <1>5

LEMMA PublisherSaves ==
  ASSUME ReleaseInv, NEW p \in Publisher, Rel!SaveRelease(p)
  PROVE  ReleaseInv'
<1> DEFINE state == IF publisher[p].fulfils THEN [at |-> "listing"] ELSE Rel!Quiet
<1>1. /\ publisher[p].at = "saving" /\ publisher' = [publisher EXCEPT ![p] = state] /\ release' = publisher[p].row
      /\ missed' = IF release.date = "upcoming" /\ release'.date = "out" /\ publisher[p].was = "out"
                   THEN missed \cup Rel!Pending ELSE missed
      /\ UNCHANGED <<tracks, presave, library, fan, joined, begunReleases, delivered, hasty>>
  BY DEF Rel!SaveRelease, Rel!Become
<1>2. release' \in Rel!Row /\ release \in Rel!Row
  BY <1>1 DEF ReleaseInv, SavesFulfil, PreSaveTypes
<1>3. \A f \in Fan : InHand(f) => InHand(f)'
  <2>1. \A q \in Publisher : q # p => publisher'[q] = publisher[q]
    BY <1>1 DEF ReleaseInv, PublisherTypes
  <2> QED  BY <1>1, <2>1 DEF InHand, Copier
<1>4. PendingInHand'
  <2> SUFFICES ASSUME release'.date = "out", NEW f \in Fan, presave[f].status = "pending", f \notin missed'
               PROVE  InHand(f)'
    BY <1>1 DEF PendingInHand
  <2>1. CASE release.date = "out"
    BY <1>1, <1>3, <2>1 DEF ReleaseInv, PendingInHand
  <2>2. CASE release.date = "upcoming"
    <3>1. publisher[p].was # "out"
      BY <1>1, <2>2 DEF Rel!Pending
    <3>2. publisher[p].fulfils
      BY <1>1, <3>1 DEF ReleaseInv, SavesFulfil
    <3>3. publisher'[p] = [at |-> "listing"]
      BY <1>1, <3>2 DEF ReleaseInv, PublisherTypes
    <3> QED  BY <3>3 DEF InHand
  <2> QED  BY <1>2, <2>1, <2>2 DEF Rel!Row
<1>5. state.at \in {"none", "listing"} /\ (state.at = "none" => state = Rel!Quiet)
  BY DEF Rel!Quiet
<1> HIDE DEF state
<1> QED  BY <1>1, <1>2, <1>4, <1>5, PublisherMoves

LEMMA PublisherAborts ==
  ASSUME ReleaseInv, NEW p \in Publisher, Rel!Abort(p)
  PROVE  ReleaseInv'
<1>1. /\ publisher' = [publisher EXCEPT ![p] = Rel!Quiet] /\ missed' = missed \cup Rel!Pending
      /\ UNCHANGED <<release, tracks, presave, library, fan, joined, begunReleases, delivered, hasty>>
  BY DEF Rel!Abort, Rel!Become
<1>2. PendingInHand'
  BY <1>1 DEF PendingInHand, Rel!Pending
<1> QED  BY <1>1, <1>2, PublisherMoves DEF ReleaseInv, PreSaveTypes, Rel!Quiet

\* fulfillForRelease lists the pending rows, reads the tracks, copies them: whoever it
\* had in hand, it keeps.
LEMMA PublisherCopies ==
  ASSUME ReleaseInv, NEW p \in Publisher, UNCHANGED <<release, tracks, presave, joined, missed>>,
         delivered' = [f \in Fan |-> delivered'[f]], \A f \in Fan : delivered[f] \subseteq delivered'[f],
         hasty => hasty', NEW state, publisher' = [publisher EXCEPT ![p] = state],
         state = [at |-> state.at, rows |-> state.rows, todo |-> state.todo],
         state.at \in {"listed", "copying", "marking"}, state.rows \subseteq Fan \X (1..MaxPreSaves),
         \/ publisher[p].at = "listing" /\ state.at = "listed"
            /\ \A f \in Fan : presave[f].status = "pending" => <<f, presave[f].nth>> \in state.rows
         \/ Copier(p) /\ state.rows = publisher[p].rows,
         state.at \in {"copying", "marking"} =>
             \A r \in state.rows, t \in Track : <<r[1], t>> \in Lacking'
                 => state.at = "copying" /\ <<r[1], t>> \in state.todo
  PROVE  ReleaseInv'
<1>1. /\ publisher' = [q \in Publisher |-> publisher'[q]] /\ publisher'[p] = state
      /\ \A q \in Publisher : q # p => publisher'[q] = publisher[q]
  BY DEF ReleaseInv, PublisherTypes
<1>2. PreSaveTypes' /\ FulfilledHave'
  BY DEF ReleaseInv, PreSaveTypes, FulfilledHave
<1>3. PublisherTypes'
  BY <1>1 DEF ReleaseInv, PublisherTypes, Copier
<1>4. SavesFulfil'
  BY <1>1 DEF ReleaseInv, SavesFulfil
<1>5. CopyOutstanding'
  <2> SUFFICES ASSUME NEW q \in Publisher, publisher'[q].at \in {"copying", "marking"},
                      NEW r \in publisher'[q].rows, NEW t \in Track, <<r[1], t>> \in Lacking'
               PROVE  publisher'[q].at = "copying" /\ <<r[1], t>> \in publisher'[q].todo
    BY DEF CopyOutstanding
  <2>1. CASE q = p
    BY <1>1, <2>1
  <2>2. CASE q # p
    <3>1. r[1] \in Fan /\ publisher'[q] = publisher[q]
      BY <1>1, <2>2 DEF ReleaseInv, PublisherTypes, Copier
    <3> QED  BY <3>1 DEF ReleaseInv, CopyOutstanding, Lacking
  <2> QED  BY <2>1, <2>2
<1>6. PendingInHand'
  <2>1. \A f \in Fan : presave[f].status = "pending" /\ InHand(f) => InHand(f)'
    BY <1>1 DEF InHand, Copier
  <2> QED  BY <2>1 DEF ReleaseInv, PendingInHand
<1> QED  BY <1>2, <1>3, <1>4, <1>5, <1>6 DEF ReleaseInv

LEMMA CopierRecord ==
  ASSUME NEW s, s = [at |-> s.at, rows |-> s.rows, todo |-> s.todo], NEW next, NEW left
  PROVE  /\ [s EXCEPT !.at = next] = [at |-> next, rows |-> s.rows, todo |-> s.todo]
         /\ [s EXCEPT !.at = next, !.todo = left] = [at |-> next, rows |-> s.rows, todo |-> left]
<1> DEFINE moved == [s EXCEPT !.at = next]
<1>1. moved = [at |-> next, rows |-> s.rows, todo |-> s.todo]
  BY SMT
<1>2. [s EXCEPT !.at = next, !.todo = left] = [moved EXCEPT !.todo = left]
  OBVIOUS
<1> HIDE DEF moved
<1>3. [moved EXCEPT !.todo = left] = [at |-> next, rows |-> s.rows, todo |-> left]
  BY <1>1, SMT
<1> QED  BY <1>1, <1>2, <1>3 DEF moved

LEMMA PublisherLists ==
  ASSUME ReleaseInv, NEW p \in Publisher, Rel!List(p)
  PROVE  ReleaseInv'
<1>1. publisher[p].at = "listing" /\ UNCHANGED <<release, tracks, presave, joined, delivered, missed, hasty>>
  BY DEF Rel!List
<1>2. delivered' = [f \in Fan |-> delivered'[f]]
  BY <1>1 DEF ReleaseInv, PreSaveTypes
<1>3. CASE Rel!Pending = {}
  <2>1. publisher' = [publisher EXCEPT ![p] = Rel!Quiet]
    BY <1>3 DEF Rel!List, Rel!Become
  <2>2. PendingInHand'
    BY <1>1, <1>3 DEF PendingInHand, Rel!Pending
  <2> QED  BY <1>1, <2>1, <2>2, PublisherMoves DEF ReleaseInv, PreSaveTypes, Rel!Quiet
<1>4. CASE Rel!Pending # {}
  <2> DEFINE its == {<<f, presave[f].nth>> : f \in Rel!Pending}
             state == [at |-> "listed", rows |-> its, todo |-> {}]
  <2>1. publisher' = [publisher EXCEPT ![p] = state]
    BY <1>4 DEF Rel!List, Rel!Become
  <2>2. its \subseteq Fan \X (1..MaxPreSaves)
    BY DEF ReleaseInv, PreSaveTypes, Rel!Pending, Rel!NoPreSave
  <2>3. \A f \in Fan : presave[f].status = "pending" => <<f, presave[f].nth>> \in its
    BY DEF Rel!Pending
  <2> HIDE DEF its
  <2>4. state.at = "listed" /\ state.rows = its /\ state = [at |-> state.at, rows |-> state.rows, todo |-> state.todo]
    OBVIOUS
  <2> HIDE DEF state
  <2> QED  BY <1>1, <1>2, <2>1, <2>2, <2>3, <2>4, PublisherCopies
<1> QED  BY <1>3, <1>4

LEMMA PublisherReads ==
  ASSUME ReleaseInv, NEW p \in Publisher, Rel!ReadTracks(p)
  PROVE  ReleaseInv'
<1> DEFINE its == publisher[p].rows
<1>1. /\ publisher[p].at = "listed" /\ UNCHANGED <<release, tracks, presave, joined, delivered, missed>>
      /\ hasty' = (hasty \/ tracks = {})
  BY DEF Rel!ReadTracks
<1>2. /\ Copier(p) /\ publisher[p] = [at |-> publisher[p].at, rows |-> its, todo |-> publisher[p].todo]
      /\ its \subseteq Fan \X (1..MaxPreSaves) /\ delivered' = [f \in Fan |-> delivered'[f]]
  BY <1>1 DEF ReleaseInv, PublisherTypes, PreSaveTypes, Copier
<1>3. CASE tracks = {}
  <2> DEFINE state == [at |-> "marking", rows |-> its, todo |-> publisher[p].todo]
  <2>1. publisher' = [publisher EXCEPT ![p] = state]
    <3>1. [publisher[p] EXCEPT !.at = "marking"] = state
      BY <1>2, CopierRecord
    <3> QED  BY <1>3, <3>1 DEF Rel!ReadTracks, Rel!Become
  <2>2. Lacking' = {} /\ (hasty => hasty')
    BY <1>1, <1>3 DEF Lacking
  <2>3. /\ state.at = "marking" /\ state.rows = publisher[p].rows
        /\ state = [at |-> state.at, rows |-> state.rows, todo |-> state.todo]
    OBVIOUS
  <2> HIDE DEF state
  <2> QED  BY <1>1, <1>2, <2>1, <2>2, <2>3, PublisherCopies
<1>4. CASE tracks = Track /\ Track # {}
  <2> DEFINE todo == {r[1] : r \in its} \X tracks
             state == [at |-> "copying", rows |-> its, todo |-> todo]
  <2>1. publisher' = [publisher EXCEPT ![p] = state]
    <3>1. [publisher[p] EXCEPT !.at = "copying", !.todo = todo] = state
      BY <1>2, CopierRecord
    <3> QED  BY <1>4, <3>1 DEF Rel!ReadTracks, Rel!Become, Rel!Rows
  <2>2. \A r \in its, t \in Track : <<r[1], t>> \in todo
    BY <1>4
  <2> HIDE DEF todo
  <2>3. /\ state.at = "copying" /\ state.rows = publisher[p].rows /\ state.todo = todo
        /\ state = [at |-> state.at, rows |-> state.rows, todo |-> state.todo]
    OBVIOUS
  <2>4. hasty => hasty'
    BY <1>1
  <2> HIDE DEF state
  <2> QED  BY <1>1, <1>2, <2>1, <2>2, <2>3, <2>4, PublisherCopies
<1> QED  BY <1>3, <1>4 DEF ReleaseInv, PreSaveTypes

LEMMA PublisherCopiesTrack ==
  ASSUME ReleaseInv, NEW p \in Publisher, NEW f \in Fan, NEW t \in Track, Rel!CopyTrack(p, f, t)
  PROVE  ReleaseInv'
<1> DEFINE its == publisher[p].rows
           left == publisher[p].todo \ {<<f, t>>}
           at == IF left = {} THEN "marking" ELSE "copying"
           state == [at |-> at, rows |-> its, todo |-> left]
<1>1. /\ publisher[p].at = "copying" /\ UNCHANGED <<release, tracks, presave, joined, missed, hasty>>
      /\ delivered' = [delivered EXCEPT ![f] = @ \cup {t}]
      /\ publisher' = [publisher EXCEPT ![p] = [publisher[p] EXCEPT !.at = at, !.todo = left]]
  BY DEF Rel!CopyTrack, Rel!Become
<1>2. /\ Copier(p) /\ publisher[p] = [at |-> publisher[p].at, rows |-> its, todo |-> publisher[p].todo]
      /\ its \subseteq Fan \X (1..MaxPreSaves) /\ delivered = [g \in Fan |-> delivered[g]]
  BY <1>1 DEF ReleaseInv, PublisherTypes, PreSaveTypes, Copier
<1>3. publisher' = [publisher EXCEPT ![p] = state]
  <2>1. [publisher[p] EXCEPT !.at = at, !.todo = left] = state
    BY <1>2, CopierRecord
  <2> QED  BY <1>1, <2>1
<1>4. /\ delivered' = [g \in Fan |-> delivered'[g]] /\ \A g \in Fan : delivered[g] \subseteq delivered'[g]
      /\ t \in delivered'[f]
  BY <1>1, <1>2
<1>5. ASSUME NEW r \in its, NEW s \in Track, <<r[1], s>> \in Lacking'
      PROVE  at = "copying" /\ <<r[1], s>> \in left
  <2>1. r[1] \in Fan /\ s \notin delivered'[r[1]] /\ <<r[1], s>> \in Lacking
    BY <1>1, <1>2, <1>4, <1>5 DEF Lacking
  <2>2. <<r[1], s>> \in publisher[p].todo
    BY <1>1, <2>1 DEF ReleaseInv, CopyOutstanding
  <2>3. <<r[1], s>> # <<f, t>>
    BY <1>4, <2>1
  <2> QED  BY <2>2, <2>3
<1>6. UNCHANGED <<release, tracks, presave, joined, missed>> /\ (hasty => hasty')
  BY <1>1
<1>7. at \in {"listed", "copying", "marking"}
  OBVIOUS
<1> HIDE DEF left, at
<1>8. /\ state.at = at /\ state.rows = publisher[p].rows /\ state.todo = left
      /\ state = [at |-> state.at, rows |-> state.rows, todo |-> state.todo]
  OBVIOUS
<1> HIDE DEF state
<1> QED  BY <1>2, <1>3, <1>4, <1>5, <1>6, <1>7, <1>8, PublisherCopies

LEMMA PublisherMarks ==
  ASSUME ReleaseInv, NEW p \in Publisher, Rel!Mark(p)
  PROVE  ReleaseInv'
<1> DEFINE its == publisher[p].rows
           Own(f) == {n \in 1..MaxPreSaves : <<f, n>> \in its}
<1>1. /\ publisher[p].at = "marking" /\ UNCHANGED <<release, tracks, joined, delivered, missed, hasty>>
      /\ presave' = [f \in Fan |-> IF Own(f) = {} THEN presave[f]
                                   ELSE [status |-> "fulfilled", nth |-> CHOOSE n \in Own(f) : TRUE]]
      /\ publisher' = [publisher EXCEPT ![p] = Rel!Quiet]
  BY DEF Rel!Mark, Rel!Become, Rel!Rows
<1>2. its \subseteq Fan \X (1..MaxPreSaves)
  BY <1>1 DEF ReleaseInv, PublisherTypes, Copier
<1>3. ASSUME NEW f \in Fan
      PROVE  \/ presave'[f] = presave[f] /\ \A n \in 1..MaxPreSaves : <<f, n>> \notin its
             \/ /\ presave'[f].status = "fulfilled" /\ presave'[f].nth \in 1..MaxPreSaves
                /\ <<f, presave'[f].nth>> \in its
  <2>1. CASE Own(f) = {}
    BY <1>1, <2>1
  <2>2. CASE Own(f) # {}
    <3>1. (CHOOSE n \in Own(f) : TRUE) \in Own(f)
      BY <2>2
    <3>2. presave'[f] = [status |-> "fulfilled", nth |-> CHOOSE n \in Own(f) : TRUE]
      BY <1>1, <2>2
    <3> QED  BY <3>1, <3>2
  <2> QED  BY <2>1, <2>2
<1> HIDE DEF Own
<1>4. /\ publisher' = [q \in Publisher |-> publisher'[q]] /\ publisher'[p] = Rel!Quiet
      /\ \A q \in Publisher : q # p => publisher'[q] = publisher[q]
  BY <1>1 DEF ReleaseInv, PublisherTypes
<1>5. presave' = [f \in Fan |-> presave'[f]]
  BY <1>1
<1>6. PreSaveTypes'
  BY <1>1, <1>3, <1>5 DEF ReleaseInv, PreSaveTypes
<1>7. PublisherTypes' /\ SavesFulfil' /\ CopyOutstanding'
  BY <1>1, <1>4 DEF ReleaseInv, PublisherTypes, Copier, SavesFulfil, CopyOutstanding, Lacking, Rel!Quiet
<1>8. FulfilledHave'
  <2> SUFFICES ASSUME NEW f \in Fan, presave'[f].status = "fulfilled", ~hasty, NEW t \in Track
               PROVE  t \in delivered[f]
    BY <1>1 DEF FulfilledHave
  <2>1. CASE presave'[f] = presave[f]
    BY <2>1 DEF ReleaseInv, FulfilledHave
  <2>2. CASE <<f, presave'[f].nth>> \in its
    BY <1>1, <2>2 DEF ReleaseInv, CopyOutstanding, Lacking, PublisherTypes, Copier
  <2> QED  BY <1>3, <2>1, <2>2
<1>9. PendingInHand'
  <2> SUFFICES ASSUME release.date = "out", NEW f \in Fan, presave'[f].status = "pending", f \notin missed
               PROVE  InHand(f)'
    BY <1>1 DEF PendingInHand
  <2>1. presave'[f] = presave[f] /\ \A n \in 1..MaxPreSaves : <<f, n>> \notin its
    BY <1>3
  <2>2. InHand(f) /\ presave[f].nth \in 1..MaxPreSaves
    BY <2>1 DEF ReleaseInv, PendingInHand, PreSaveTypes, Rel!NoPreSave
  <2>3. PICK q \in Publisher : publisher[q].at = "listing" \/ (Copier(q) /\ <<f, presave[f].nth>> \in publisher[q].rows)
    BY <2>2 DEF InHand
  <2>4. q # p
    BY <1>1, <2>1, <2>2, <2>3
  <2> QED  BY <1>4, <2>1, <2>3, <2>4 DEF InHand, Copier
<1> QED  BY <1>6, <1>7, <1>8, <1>9 DEF ReleaseInv

LEMMA ReleaseInvariant == RecordsSpec => []ReleaseInv
<1>1. ReleaseInv /\ [RecordsNext]_<<part, sessionVars, deletionVars, songVars, versionVars, releaseVars, playlistVars,
                                   keyVars>> => ReleaseInv'
  <2> SUFFICES ASSUME ReleaseInv, [RecordsNext]_<<part, sessionVars, deletionVars, songVars, versionVars, releaseVars,
                                                 playlistVars, keyVars>>
               PROVE  ReleaseInv'
    OBVIOUS
  <2>1. CASE Rel!Next
    <3>1. ASSUME \/ Rel!StoreTracks \/ Rel!DateArrives
                 \/ \E f \in Fan : \/ Rel!CheckPreSave(f) \/ Rel!StorePreSave(f) \/ Rel!UnPreSave(f)
                                   \/ \E t \in Track : Rel!Unsave(f, t)
          PROVE  ReleaseInv'
      BY <3>1, FanSteps
    <3>2. ASSUME NEW p \in Publisher, NEW f \in Fan, NEW t \in Track, Rel!CopyTrack(p, f, t) PROVE ReleaseInv'
      BY <3>2, PublisherCopiesTrack
    <3>3. ASSUME NEW p \in Publisher, Rel!Publish(p) \/ Rel!Update(p) \/ Rel!PublishScheduled(p) PROVE ReleaseInv'
      BY <3>3, PublishersBegin
    <3>4. ASSUME NEW p \in Publisher, Rel!SaveRelease(p) \/ Rel!Abort(p) PROVE ReleaseInv'
      BY <3>4, PublisherSaves, PublisherAborts
    <3>5. ASSUME NEW p \in Publisher, Rel!List(p) \/ Rel!ReadTracks(p) \/ Rel!Mark(p) PROVE ReleaseInv'
      BY <3>5, PublisherLists, PublisherReads, PublisherMarks
    <3> QED  BY <2>1, <3>1, <3>2, <3>3, <3>4, <3>5 DEF Rel!Next
  <2>2. CASE UNCHANGED releaseVars
    <3>1. UNCHANGED <<release, tracks, presave, publisher, joined, delivered, missed, hasty>>
      BY <2>2 DEF releaseVars
    <3> QED  BY <3>1 DEF ReleaseInv, PreSaveTypes, PublisherTypes, Copier, SavesFulfil, CopyOutstanding, Lacking,
                         FulfilledHave, PendingInHand, InHand, Rel!NoPreSave, Rel!Quiet, Rel!Row
  <2> QED  BY <2>1, <2>2 DEF RecordsNext
<1> QED  BY <1>1, ReleaseInit, PTL DEF RecordsSpec

\* Pre-saves are fulfilled with every track, and none is left behind by a publish that
\* ends, for any number of fans, tracks and overlapping publishers (fulfillForRelease).
THEOREM FansGetTheRelease == RecordsSpec => []PreSavesAreFulfilled
<1>1. ReleaseInv => PreSavesAreFulfilled
  <2> SUFFICES ASSUME ReleaseInv PROVE PreSavesAreFulfilled
    OBVIOUS
  <2>1. ASSUME release.date = "out", \A p \in Publisher : publisher[p] = Rel!Quiet, NEW f \in Rel!Pending
        PROVE  f \in missed
    <3>1. \A p \in Publisher : publisher[p].at = "none"
      BY <2>1 DEF Rel!Quiet
    <3>2. ~InHand(f)
      BY <3>1 DEF InHand, Copier
    <3> QED  BY <2>1, <3>2 DEF ReleaseInv, PendingInHand, Rel!Pending
  <2>2. \A f \in Fan : presave[f].status = "fulfilled" => Track \subseteq delivered[f] \/ hasty
    BY DEF ReleaseInv, FulfilledHave
  <2> QED  BY <2>1, <2>2 DEF PreSavesAreFulfilled, Rel!PreSavesAreFulfilled
<1> QED  BY <1>1, ReleaseInvariant, PTL

----------------------------------------------------------------------------
(* Playlists *)

LEMMA NatMin ==
  ASSUME NEW T, T \subseteq Nat, T # {}
  PROVE  \E x \in T : \A y \in T : x <= y
<1>1. PICK x \in T : \A y \in T : ~ (<<y, x>> \in OpToRel(<, Nat))
  BY NatLessThanWellFounded, WFMin
<1>2. \A y \in T : ~ (y < x)
  BY <1>1 DEF OpToRel
<1> QED  BY <1>2

\* Math.max of the positions finds one.
LEMMA MaxOfBounded ==
  ASSUME NEW S, S \subseteq Int, S # {}, NEW bound \in Int, \A y \in S : y <= bound
  PROVE  Lists!Max(S) \in S /\ \A y \in S : y <= Lists!Max(S)
<1> DEFINE T == {bound - y : y \in S}
<1>1. T \subseteq Nat /\ T # {}
  <2>1. \A y \in S : bound - y \in Nat
    OBVIOUS
  <2> QED  BY <2>1, Zenon
<1>2. PICK x \in T : \A y \in T : x <= y
  BY <1>1, NatMin
<1>3. PICK m \in S : x = bound - m
  OBVIOUS
<1>4. \A y \in S : m >= y
  <2> SUFFICES ASSUME NEW y \in S PROVE m >= y
    OBVIOUS
  <2>1. x <= bound - y
    BY <1>2
  <2> QED  BY <1>3, <2>1
<1>5. \E m2 \in S : \A y \in S : m2 >= y
  BY <1>4
<1>6. Lists!Max(S) \in S /\ \A y \in S : Lists!Max(S) >= y
  BY <1>5 DEF Lists!Max
<1> QED  BY <1>6

Songs == Cardinality(Entry)

LEMMA SongsCount == /\ Songs \in Nat
                    /\ \A chosen \in SUBSET Entry : Cardinality(chosen) \in Nat /\ Cardinality(chosen) <= Songs
<1>1. \A chosen \in SUBSET Entry : IsFiniteSet(chosen) /\ Cardinality(chosen) <= Cardinality(Entry)
  BY FS_Subset, RecordsAssumption
<1> QED  BY <1>1, FS_CardinalityType, RecordsAssumption DEF Songs

\* Rows written by a reorder; rows as stored, with a position for every row ever stored.
PlacedRow == [nth : Nat \ {0}, position : 0..Songs]
StoredRow == [nth : Nat \ {0}, position : 0..(Songs + rows)]
Adding == [at : {"adding"}, song : Entry, position : 0..(Songs + rows + 1), stale : BOOLEAN]
Spread(list) == \A s, t \in DOMAIN list : list[s].position = list[t].position => s = t
PlacedList == {list \in UNION {[chosen -> PlacedRow] : chosen \in SUBSET Entry} : Spread(list)}
Saving == [at : {"saving"}, list : PlacedList, stale : BOOLEAN, whole : BOOLEAN]

ListTypes ==
    /\ rows \in Nat /\ entry \in [Entry -> StoredRow \cup {Lists!NoEntry}]
    /\ arranger \in [Arranger -> Adding \cup Saving \cup {Lists!Quiet}]

\* What a request that nobody overtook has read is still so.
Fresh(a) == arranger[a] # Lists!Quiet /\ ~arranger[a].stale
AddsLast == \A a \in Arranger : Fresh(a) /\ arranger[a].at = "adding"
                => \A s \in Lists!Present : entry[s].position < arranger[a].position
SavesAll == \A a \in Arranger : Fresh(a) /\ arranger[a].at = "saving" /\ arranger[a].whole
                => DOMAIN arranger[a].list = Lists!Present

ListInv == ListTypes /\ AddsLast /\ SavesAll /\ PositionsDistinct

LEMMA ListInit == RecordsInit => ListInv
<1> SUFFICES ASSUME RecordsInit PROVE ListInv
  OBVIOUS
<1>1. /\ rows = 0 /\ entry = [s \in Entry |-> Lists!NoEntry] /\ arranger = [a \in Arranger |-> Lists!Quiet]
  BY DEF RecordsInit, Lists!Init
<1>2. ListTypes
  BY <1>1 DEF ListTypes
<1>3. Lists!Present = {}
  BY <1>1 DEF Lists!Present
<1>4. AddsLast /\ SavesAll
  BY <1>1 DEF AddsLast, SavesAll, Fresh
<1>5. PositionsDistinct
  BY <1>3 DEF PositionsDistinct, Lists!PositionsDistinct
<1> QED  BY <1>2, <1>4, <1>5 DEF ListInv

LEMMA RequestFields ==
  ASSUME NEW r
  PROVE  /\ r \in Adding => r.at = "adding" /\ r # Lists!Quiet
         /\ r \in Saving => r.at = "saving" /\ r # Lists!Quiet
         /\ Lists!Quiet \notin Adding \cup Saving
  BY DEF Adding, Saving, Lists!Quiet

LEMMA RequestOvertaken ==
  ASSUME NEW r \in Adding \cup Saving
  PROVE  /\ [r EXCEPT !.stale = TRUE] \in Adding \cup Saving
         /\ [r EXCEPT !.stale = TRUE].stale
<1>1. CASE r \in Adding
  BY <1>1 DEF Adding
<1>2. CASE r \in Saving
  <2> DEFINE Held == PlacedList
  <2>1. r \in [at : {"saving"}, list : Held, stale : BOOLEAN, whole : BOOLEAN]
    BY <1>2 DEF Saving
  <2> HIDE DEF Held
  <2>2. /\ [r EXCEPT !.stale = TRUE] \in [at : {"saving"}, list : Held, stale : BOOLEAN, whole : BOOLEAN]
        /\ [r EXCEPT !.stale = TRUE].stale
    BY <2>1
  <2> QED  BY <2>2 DEF Saving, Held
<1> QED  BY <1>1, <1>2

\* Every request that the write of another one overtakes is told so.
LEMMA ListWritten ==
  ASSUME ListInv, rows' \in Nat, rows <= rows', entry' \in [Entry -> StoredRow' \cup {Lists!NoEntry}],
         arranger' = [a \in Arranger |-> arranger'[a]],
         \A a \in Arranger : \/ arranger'[a] = Lists!Quiet
                             \/ arranger[a] # Lists!Quiet /\ arranger'[a] = [arranger[a] EXCEPT !.stale = TRUE],
         PositionsDistinct'
  PROVE  ListInv'
<1>1. \A a \in Arranger : arranger[a] \in Adding \cup Saving \cup {Lists!Quiet}
  BY DEF ListInv, ListTypes
<1>2. Adding \cup Saving \subseteq Adding' \cup Saving'
  <2>1. rows \in Nat /\ Songs \in Nat
    BY SongsCount DEF ListInv, ListTypes
  <2>2. \A n : n \in 0..(Songs + rows + 1) => n \in 0..(Songs + rows' + 1)
    BY <2>1
  <2> QED  BY <2>2 DEF Adding, Saving
<1>3. \A a \in Arranger : \/ arranger'[a] = Lists!Quiet
                          \/ arranger'[a] \in Adding \cup Saving /\ arranger'[a].stale
  BY <1>1, RequestOvertaken
<1>4. ListTypes'
  BY <1>2, <1>3 DEF ListTypes, Lists!Quiet, Lists!NoEntry
<1>5. \A a \in Arranger : ~Fresh(a)'
  BY <1>3 DEF Fresh, Lists!Quiet
<1>6. AddsLast' /\ SavesAll'
  BY <1>5 DEF AddsLast, SavesAll
<1> QED  BY <1>4, <1>6 DEF ListInv

\* A request reads the list, or gives up.
LEMMA ListRead ==
  ASSUME ListInv, NEW a \in Arranger, NEW state, arranger' = [arranger EXCEPT ![a] = state],
         UNCHANGED <<entry, rows, muddled>>,
         state \in Adding \cup Saving \cup {Lists!Quiet},
         state \in Adding => \A s \in Lists!Present : entry[s].position < state.position,
         state \in Saving /\ state.whole => DOMAIN state.list = Lists!Present
  PROVE  ListInv'
<1>1. arranger'[a] = state /\ \A b \in Arranger : b # a => arranger'[b] = arranger[b]
  BY DEF ListInv, ListTypes
<1>2. Lists!Present' = Lists!Present
  BY DEF Lists!Present, Lists!NoEntry
<1>3. ListTypes'
  BY DEF ListInv, ListTypes, StoredRow, Adding, Saving, Lists!Quiet, Lists!NoEntry
<1>4. PositionsDistinct'
  BY <1>2 DEF ListInv, PositionsDistinct, Lists!PositionsDistinct, Lists!Position
<1>5. state.at = "adding" => state \in Adding \cup {Lists!Quiet}
  BY RequestFields DEF Saving
<1>6. state.at = "saving" => state \in Saving \cup {Lists!Quiet}
  BY RequestFields DEF Adding
<1>7. ASSUME NEW b \in Arranger, Fresh(b)', arranger'[b].at = "adding", NEW s \in Lists!Present
      PROVE  entry[s].position < arranger'[b].position
  <2>1. CASE b = a
    BY <1>1, <1>5, <1>7, <2>1 DEF Fresh, Lists!Quiet
  <2>2. CASE b # a
    BY <1>1, <1>7, <2>2 DEF Fresh, ListInv, AddsLast, Lists!Quiet
  <2> QED  BY <2>1, <2>2
<1>8. ASSUME NEW b \in Arranger, Fresh(b)', arranger'[b].at = "saving", arranger'[b].whole
      PROVE  DOMAIN arranger'[b].list = Lists!Present
  <2>1. CASE b = a
    BY <1>1, <1>6, <1>8, <2>1 DEF Fresh, Lists!Quiet
  <2>2. CASE b # a
    BY <1>1, <1>8, <2>2 DEF Fresh, ListInv, SavesAll, Lists!Quiet
  <2> QED  BY <2>1, <2>2
<1>9. AddsLast'
  BY <1>2, <1>7 DEF AddsLast
<1>10. SavesAll'
  BY <1>2, <1>8 DEF SavesAll
<1> QED  BY <1>3, <1>4, <1>9, <1>10 DEF ListInv

LEMMA EndsWrite ==
  ASSUME ListInv, NEW a \in Arranger, Lists!EndWrite(a)
  PROVE  /\ arranger' = [b \in Arranger |-> arranger'[b]]
         /\ \A b \in Arranger : \/ arranger'[b] = Lists!Quiet
                                \/ arranger[b] # Lists!Quiet /\ arranger'[b] = [arranger[b] EXCEPT !.stale = TRUE]
  BY DEF Lists!EndWrite

LEMMA SongInserted ==
  ASSUME ListInv, NEW a \in Arranger, Lists!Insert(a)
  PROVE  ListInv'
<1> DEFINE s == arranger[a].song
           position == arranger[a].position
<1>1. /\ arranger[a].at = "adding" /\ s \notin Lists!Present /\ rows' = rows + 1
      /\ entry' = [entry EXCEPT ![s] = [nth |-> rows + 1, position |-> position]]
      /\ muddled' = (muddled \/ arranger[a].stale) /\ Lists!EndWrite(a)
  BY DEF Lists!Insert
<1>2. arranger[a] \in Adding
  BY <1>1, RequestFields DEF ListInv, ListTypes, Lists!Quiet
<1>3. s \in Entry /\ position \in 0..(Songs + rows + 1) /\ rows \in Nat /\ Songs \in Nat /\ arranger[a] # Lists!Quiet
  BY <1>2, SongsCount, RequestFields DEF Adding, ListInv, ListTypes
<1>4. AddsLast /\ PositionsDistinct /\ entry \in [Entry -> StoredRow \cup {Lists!NoEntry}]
  BY DEF ListInv, ListTypes
<1>5. ~arranger[a].stale => \A t \in Lists!Present : entry[t].position < position
  BY <1>1, <1>3, <1>4 DEF AddsLast, Fresh
<1> HIDE DEF s, position
<1>6. /\ entry'[s] = [nth |-> rows + 1, position |-> position] /\ DOMAIN entry' = Entry
      /\ \A t \in Entry : t # s => entry'[t] = entry[t]
  BY <1>1, <1>3, <1>4
<1>7. Lists!Present' = Lists!Present \cup {s}
  BY <1>1, <1>3, <1>6 DEF Lists!Present, Lists!NoEntry
<1>8. StoredRow \subseteq StoredRow' /\ entry'[s] \in StoredRow'
  BY <1>1, <1>3, <1>6 DEF StoredRow
<1>9. entry' \in [Entry -> StoredRow' \cup {Lists!NoEntry}]
  <2>1. \A t \in Entry : entry'[t] \in StoredRow' \cup {Lists!NoEntry}
    BY <1>4, <1>6, <1>8
  <2>2. entry' = [t \in Entry |-> entry'[t]]
    BY <1>1, <1>4
  <2> QED  BY <2>1, <2>2
<1>10. PositionsDistinct'
  <2> SUFFICES ASSUME NEW t \in Lists!Present \cup {s}, NEW u \in Lists!Present \cup {s},
                      entry'[t].position = entry'[u].position, t # u, ~muddled'
               PROVE  FALSE
    BY <1>7 DEF PositionsDistinct, Lists!PositionsDistinct, Lists!Position
  <2>1. ~muddled /\ ~arranger[a].stale
    BY <1>1
  <2>2. \A v \in Lists!Present : entry'[v] = entry[v] /\ entry[v].position < position /\ entry[v].position \in Int
    BY <1>1, <1>3, <1>4, <1>5, <1>6, <2>1 DEF Lists!Present, StoredRow
  <2>3. entry'[s].position = position /\ position \in Int
    BY <1>3, <1>6
  <2>4. t \in Lists!Present /\ u \in Lists!Present
    BY <2>2, <2>3
  <2> QED  BY <1>4, <2>1, <2>2, <2>4 DEF PositionsDistinct, Lists!PositionsDistinct, Lists!Position
<1>11. rows' \in Nat /\ rows <= rows'
  BY <1>1, <1>3
<1> QED  BY <1>1, <1>9, <1>10, <1>11, EndsWrite, ListWritten

LEMMA SongDropped ==
  ASSUME ListInv, NEW s \in Entry, Lists!RemoveSong(s)
  PROVE  ListInv'
<1>1. /\ entry' = [entry EXCEPT ![s] = Lists!NoEntry] /\ rows' = rows /\ muddled' = muddled
      /\ arranger' = [a \in Arranger |-> IF arranger[a] = Lists!Quiet THEN Lists!Quiet
                                         ELSE [arranger[a] EXCEPT !.stale = TRUE]]
  BY DEF Lists!RemoveSong
<1>2. rows \in Nat /\ entry \in [Entry -> StoredRow \cup {Lists!NoEntry}] /\ PositionsDistinct
  BY DEF ListInv, ListTypes
<1>3. entry' \in [Entry -> StoredRow' \cup {Lists!NoEntry}]
  BY <1>1, <1>2 DEF StoredRow, Lists!NoEntry
<1>4. \A t \in Lists!Present' : t \in Lists!Present /\ entry'[t] = entry[t]
  BY <1>1, <1>2 DEF Lists!Present, Lists!NoEntry
<1>5. PositionsDistinct'
  BY <1>1, <1>2, <1>4 DEF PositionsDistinct, Lists!PositionsDistinct, Lists!Position
<1>6. /\ arranger' = [a \in Arranger |-> arranger'[a]]
      /\ \A a \in Arranger : \/ arranger'[a] = Lists!Quiet
                             \/ arranger[a] # Lists!Quiet /\ arranger'[a] = [arranger[a] EXCEPT !.stale = TRUE]
  BY <1>1
<1>7. rows' \in Nat /\ rows <= rows'
  BY <1>1, <1>2
<1> QED  BY <1>3, <1>5, <1>6, <1>7, ListWritten

LEMMA ListSaved ==
  ASSUME ListInv, NEW a \in Arranger, Lists!SaveList(a)
  PROVE  ListInv'
<1> DEFINE list == arranger[a].list
<1>1. /\ arranger[a].at = "saving" /\ rows' = rows /\ Lists!EndWrite(a)
      /\ entry' = [s \in Entry |-> IF s \in DOMAIN list THEN list[s] ELSE entry[s]]
      /\ muddled' = (arranger[a].stale \/ ~arranger[a].whole)
  BY DEF Lists!SaveList
<1>2. arranger[a] \in Saving
  BY <1>1, RequestFields DEF ListInv, ListTypes, Lists!Quiet
<1>3. list \in PlacedList /\ arranger[a] # Lists!Quiet
  BY <1>2, RequestFields DEF Saving
<1>4. rows \in Nat /\ Songs \in Nat /\ entry \in [Entry -> StoredRow \cup {Lists!NoEntry}] /\ SavesAll
  BY SongsCount DEF ListInv, ListTypes
<1>5. ~muddled' => DOMAIN list = Lists!Present
  BY <1>1, <1>3, <1>4 DEF SavesAll, Fresh
<1>6. DOMAIN list \subseteq Entry /\ Spread(list) /\ \A s \in DOMAIN list : list[s] \in PlacedRow
  BY <1>3 DEF PlacedList
<1> HIDE DEF list
<1>7. \A s \in Entry : entry'[s] = IF s \in DOMAIN list THEN list[s] ELSE entry[s]
  BY <1>1
<1>8. entry' \in [Entry -> StoredRow' \cup {Lists!NoEntry}]
  <2>1. PlacedRow \subseteq StoredRow
    BY <1>4 DEF PlacedRow, StoredRow
  <2>2. StoredRow' = StoredRow
    BY <1>1 DEF StoredRow
  <2>3. \A s \in Entry : entry'[s] \in StoredRow \cup {Lists!NoEntry}
    BY <1>4, <1>6, <1>7, <2>1
  <2> QED  BY <1>1, <2>2, <2>3 DEF Lists!NoEntry
<1>9. PositionsDistinct'
  <2> SUFFICES ASSUME ~muddled', NEW s \in Lists!Present', NEW t \in Lists!Present',
                      entry'[s].position = entry'[t].position
               PROVE  s = t
    BY DEF PositionsDistinct, Lists!PositionsDistinct, Lists!Position
  <2>1. \A u \in Lists!Present' : u \in DOMAIN list
    BY <1>5, <1>7 DEF Lists!Present, Lists!NoEntry
  <2>2. s \in DOMAIN list /\ t \in DOMAIN list /\ entry'[s] = list[s] /\ entry'[t] = list[t]
    BY <1>6, <1>7, <2>1
  <2> QED  BY <1>6, <2>2 DEF Spread
<1>10. rows' \in Nat /\ rows <= rows'
  BY <1>1, <1>4
<1> QED  BY <1>1, <1>8, <1>9, <1>10, EndsWrite, ListWritten

LEMMA SongAdded ==
  ASSUME ListInv, NEW a \in Arranger, NEW s \in Entry, Lists!Add(a, s)
  PROVE  ListInv'
<1> DEFINE S == {-1} \cup {Lists!Position(t) : t \in Lists!Present}
           last == Lists!Max(S)
           next == last + 1
           state == [at |-> "adding", song |-> s, stale |-> FALSE, position |-> next]
<1>1. arranger' = [arranger EXCEPT ![a] = state] /\ UNCHANGED <<entry, rows, muddled>>
  BY DEF Lists!Add, Lists!Begin
<1>2. /\ rows \in Nat /\ Songs \in Nat
      /\ \A t \in Lists!Present : entry[t].position \in 0..(Songs + rows)
  BY SongsCount DEF ListInv, ListTypes, Lists!Present, StoredRow
<1>3. S \subseteq Int /\ S # {} /\ \A y \in S : y >= -1 /\ y <= Songs + rows
  BY <1>2 DEF Lists!Position
<1>4. last \in S /\ \A y \in S : y <= last
  <2> DEFINE bound == Songs + rows
  <2>1. bound \in Int /\ \A y \in S : y <= bound
    BY <1>2, <1>3
  <2> HIDE DEF S, bound
  <2> QED  BY <1>3, <2>1, MaxOfBounded
<1>5. \A t \in Lists!Present : entry[t].position \in S
  BY DEF Lists!Position
<1> HIDE DEF S, last
<1>6. next \in 0..(Songs + rows + 1)
  BY <1>2, <1>3, <1>4
<1>7. \A t \in Lists!Present : entry[t].position < next
  BY <1>2, <1>3, <1>4, <1>5
<1> HIDE DEF next
<1>8. state \in Adding /\ state.position = next
  BY <1>6 DEF Adding
<1>9. state \notin Saving
  BY <1>8, RequestFields DEF Adding, Saving
<1> HIDE DEF state
<1> QED  BY <1>1, <1>7, <1>8, <1>9, ListRead

LEMMA ListsCardinality == \A S : Lists!Cardinality(S) = Cardinality(S)
  BY DEF Lists!Cardinality, Cardinality

\* Songs, each once, and no index for two of them.
LEMMA ListPlaced ==
  ASSUME ListInv, NEW chosen \in SUBSET Lists!Present, NEW list \in Lists!SetToSeqs(chosen)
  PROVE  /\ Lists!Placed(list) \in PlacedList
         /\ DOMAIN Lists!Placed(list) = Lists!ToSet(list)
<1> DEFINE placed == Lists!Placed(list)
           Index(s) == CHOOSE i \in DOMAIN list : list[i] = s
           size == Cardinality(chosen)
<1>1. size \in Nat /\ size <= Songs /\ Songs \in Nat /\ chosen \subseteq Entry
  BY SongsCount DEF Lists!Present
<1>2. list \in [1..size -> chosen]
  BY ListsCardinality DEF Lists!SetToSeqs
<1>3. Lists!ToSet(list) \subseteq chosen
  BY <1>2 DEF Lists!ToSet
<1>4. \A s \in Lists!ToSet(list) : Index(s) \in 1..size /\ list[Index(s)] = s
  BY <1>2 DEF Lists!ToSet
<1>5. placed = [s \in Lists!ToSet(list) |-> [entry[s] EXCEPT !.position = Index(s) - 1]]
  BY DEF Lists!Placed
<1> HIDE DEF Index, size
<1>6. \A s \in Lists!ToSet(list) : placed[s] \in PlacedRow /\ placed[s].position = Index(s) - 1
  <2> SUFFICES ASSUME NEW s \in Lists!ToSet(list)
               PROVE  placed[s] \in PlacedRow /\ placed[s].position = Index(s) - 1
    OBVIOUS
  <2>1. entry[s] \in [nth : Nat \ {0}, position : 0..(Songs + rows)]
    BY <1>1, <1>3 DEF Lists!Present, ListInv, ListTypes, StoredRow
  <2>2. Index(s) - 1 \in 0..Songs
    BY <1>1, <1>4
  <2>3. placed[s] = [entry[s] EXCEPT !.position = Index(s) - 1]
    BY <1>5
  <2> DEFINE k == Index(s) - 1
  <2> HIDE DEF k, placed
  <2>4. [entry[s] EXCEPT !.position = k] \in PlacedRow /\ [entry[s] EXCEPT !.position = k].position = k
    BY <2>1, <2>2 DEF PlacedRow, k
  <2> QED  BY <2>3, <2>4 DEF k
<1>7. DOMAIN placed = Lists!ToSet(list)
  BY <1>5
<1>8. Spread(placed)
  <2> SUFFICES ASSUME NEW s \in Lists!ToSet(list), NEW t \in Lists!ToSet(list), placed[s].position = placed[t].position
               PROVE  s = t
    BY <1>7 DEF Spread
  <2>1. Index(s) - 1 = Index(t) - 1
    BY <1>6
  <2>2. Index(s) = Index(t)
    BY <1>1, <1>4, <2>1
  <2> QED  BY <1>4, <2>2
<1>9. placed \in [Lists!ToSet(list) -> PlacedRow]
  <2>1. placed = [s \in Lists!ToSet(list) |-> placed[s]]
    BY <1>5
  <2> HIDE DEF placed
  <2> QED  BY <1>6, <2>1
<1> HIDE DEF placed
<1>10. placed \in PlacedList
  BY <1>1, <1>3, <1>8, <1>9 DEF PlacedList
<1> QED  BY <1>7, <1>10 DEF placed

LEMMA ListArranged ==
  ASSUME ListInv, NEW a \in Arranger, NEW chosen \in SUBSET Lists!Present, NEW list \in Lists!SetToSeqs(chosen),
         Lists!Arrange(a, list)
  PROVE  ListInv'
<1> DEFINE placed == Lists!Placed(list)
           whole == Lists!ToSet(list) = Lists!Present
           state == [at |-> "saving", list |-> placed, stale |-> FALSE, whole |-> whole]
<1>1. arranger' = [arranger EXCEPT ![a] = state] /\ UNCHANGED <<entry, rows, muddled>>
  BY DEF Lists!Arrange, Lists!Begin
<1>2. placed \in PlacedList /\ DOMAIN placed = Lists!ToSet(list)
  BY ListPlaced
<1>3. whole => DOMAIN placed = Lists!Present
  BY <1>2
<1>4. whole \in BOOLEAN
  OBVIOUS
<1> HIDE DEF placed, whole
<1>5. state \in Saving /\ state.list = placed /\ (state.whole => whole)
  BY <1>2, <1>4 DEF Saving
<1>6. state \notin Adding
  BY <1>5 DEF Adding, Saving
<1> HIDE DEF state
<1> QED  BY <1>1, <1>3, <1>5, <1>6, ListRead

LEMMA ListInvariant == RecordsSpec => []ListInv
<1>1. ListInv /\ [RecordsNext]_<<part, sessionVars, deletionVars, songVars, versionVars, releaseVars, playlistVars,
                                keyVars>> => ListInv'
  <2> SUFFICES ASSUME ListInv, [RecordsNext]_<<part, sessionVars, deletionVars, songVars, versionVars, releaseVars,
                                              playlistVars, keyVars>>
               PROVE  ListInv'
    OBVIOUS
  <2>1. CASE Lists!Next
    <3>1. ASSUME NEW s \in Entry, Lists!RemoveSong(s) PROVE ListInv'
      BY <3>1, SongDropped
    <3>2. ASSUME NEW a \in Arranger, Lists!Insert(a) \/ Lists!SaveList(a) PROVE ListInv'
      BY <3>2, SongInserted, ListSaved
    <3>3. ASSUME NEW a \in Arranger, NEW s \in Entry, Lists!Add(a, s) PROVE ListInv'
      BY <3>3, SongAdded
    <3>4. ASSUME NEW a \in Arranger, Lists!Reorder(a) PROVE ListInv'
      <4>1. PICK chosen \in SUBSET Lists!Present \ {{}} : \E list \in Lists!SetToSeqs(chosen) : Lists!Arrange(a, list)
        BY <3>4 DEF Lists!Reorder
      <4> QED  BY <4>1, ListArranged
    <3>5. ASSUME NEW a \in Arranger, NEW s \in Entry, NEW to, Lists!Move(a, s, to) PROVE ListInv'
      <4>1. PICK list \in Lists!SetToSeqs(Lists!Present) : Lists!Arrange(a, list)
        BY <3>5 DEF Lists!Move, Lists!SortedWith
      <4> QED  BY <4>1, ListArranged
    <3>6. ASSUME NEW a \in Arranger, Lists!Fail(a) PROVE ListInv'
      <4>1. arranger' = [arranger EXCEPT ![a] = Lists!Quiet] /\ UNCHANGED <<entry, rows, muddled>>
        BY <3>6 DEF Lists!Fail
      <4> QED  BY <4>1, ListRead, RequestFields
    <3> QED  BY <2>1, <3>1, <3>2, <3>3, <3>4, <3>5, <3>6 DEF Lists!Next
  <2>2. CASE UNCHANGED playlistVars
    <3>1. UNCHANGED <<entry, arranger, rows, muddled>>
      BY <2>2 DEF playlistVars
    <3>2. Lists!Present' = Lists!Present
      BY <3>1 DEF Lists!Present, Lists!NoEntry
    <3>3. PositionsDistinct'
      BY <3>1, <3>2 DEF ListInv, PositionsDistinct, Lists!PositionsDistinct, Lists!Position
    <3> QED  BY <3>1, <3>2, <3>3 DEF ListInv, ListTypes, StoredRow, Adding, AddsLast, SavesAll, Fresh, Lists!NoEntry,
                                     Lists!Quiet
  <2> QED  BY <2>1, <2>2 DEF RecordsNext
<1> QED  BY <1>1, ListInit, PTL DEF RecordsSpec

\* Removals never bring two songs to a position, nor does any one request that writes the
\* whole list or adds to it, for any number of songs and requests (PlaylistService).
THEOREM SongsHaveTheirPlaces == RecordsSpec => []PositionsDistinct
<1>1. ListInv => PositionsDistinct
  BY DEF ListInv
<1> QED  BY <1>1, ListInvariant, PTL
=============================================================================
