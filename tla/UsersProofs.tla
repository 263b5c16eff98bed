----------------------------- MODULE UsersProofs -----------------------------
(***************************************************************************)
(* Proofs about the components MCUsers composes, for any number of users,  *)
(* rows and requests.  They are stated of UsersSpec, so that they are      *)
(* about the formulas the run Users checks.                                *)
(***************************************************************************)
EXTENDS MCUsers, Sums, FiniteSetTheorems, SequenceTheorems, NaturalsInduction, WellFoundedInduction, TLAPS

(* How the size of a set changes with an element. *)

LEMMA OneMore ==
  ASSUME NEW S, NEW T, NEW x, IsFiniteSet(S), T \subseteq S \cup {x}
  PROVE  /\ IsFiniteSet(T) /\ Cardinality(T) \in Nat /\ Cardinality(S) \in Nat
         /\ Cardinality(T) <= Cardinality(S) + 1
<1>1. IsFiniteSet(S \cup {x}) /\ Cardinality(S \cup {x}) <= Cardinality(S) + 1 /\ Cardinality(S) \in Nat
      /\ Cardinality(S \cup {x}) \in Nat
  BY FS_AddElement, FS_CardinalityType
<1>2. IsFiniteSet(T) /\ Cardinality(T) <= Cardinality(S \cup {x})
  BY <1>1, FS_Subset
<1> QED  BY <1>1, <1>2, FS_CardinalityType

LEMMA OneLess ==
  ASSUME NEW S, NEW T, NEW x \in S, IsFiniteSet(S), T \subseteq S \ {x}
  PROVE  /\ IsFiniteSet(T) /\ Cardinality(T) \in Nat /\ Cardinality(S) \in Nat
         /\ Cardinality(T) + 1 <= Cardinality(S)
<1>1. IsFiniteSet(S \ {x}) /\ Cardinality(S \ {x}) = Cardinality(S) - 1 /\ Cardinality(S) \in Nat
  BY FS_RemoveElement, FS_CardinalityType
<1>2. IsFiniteSet(T) /\ Cardinality(T) <= Cardinality(S \ {x})
  BY <1>1, FS_Subset
<1>3. Cardinality(T) \in Nat
  BY <1>2, FS_CardinalityType
<1> QED  BY <1>1, <1>2, <1>3

LEMMA NoMore ==
  ASSUME NEW S, NEW T, IsFiniteSet(S), T \subseteq S
  PROVE  /\ IsFiniteSet(T) /\ Cardinality(T) \in Nat /\ Cardinality(S) \in Nat
         /\ Cardinality(T) <= Cardinality(S)
  BY FS_Subset, FS_CardinalityType

----------------------------------------------------------------------------
(* PlaylistAccess *)

Visibility == [there : {TRUE}, public : BOOLEAN]
Reading(v) == visit[v].at \in {"reading", "updating"}
Updating == [at : {"reading", "updating"}, by : Guest \cup {Access!Owner}, copy : Visibility,
             wish : {"public", "private", "other"}, stale : BOOLEAN]

AccessTypes ==
    /\ playlist \in Visibility \cup {Access!Gone}
    /\ collaborator \in [Guest -> Access!CollaboratorRow \cup {Access!NoRow}]
    /\ visit = [v \in Visit |-> visit[v]]
    /\ follower \subseteq Guest /\ rows \in Nat
    /\ \A v \in Visit :
         /\ Reading(v) => visit[v] \in Updating
         /\ visit[v].at \in {"inviting", "regrading", "looking", "following"} => visit[v].guest \in Guest
         /\ visit[v].at = "inviting" => visit[v].role \in Access!Role
         /\ visit[v].at = "regrading" => visit[v].copy \in Access!CollaboratorRow

\* An update under way holds the visibility last asked for, unless a save overtook
\* its copy.
CopiesAgree ==
    \A v \in Visit : Reading(v) => visit[v].stale \/ visit[v].copy.public = wanted \/ muddled

\* A row about to be saved with another role is of a guest who may have it.
RegradedInvited ==
    \A v \in Visit : visit[v].at = "regrading" => visit[v].guest \in invited \cup exposed

\* Whoever is about to follow could read the playlist when that was checked.
FollowersRead ==
    \A v \in Visit : visit[v].at = "following" => visit[v].guest \in Access!Readers \cup barred

\* The rows of collaborators go with the playlist.
RowsCascade == playlist = Access!Gone => Access!Collaborators = {}

\* No update is under way that could bring a cleanly deleted playlist back.
CleanIsQuiet == removal = "clean" => \A v \in Visit : ~Reading(v)

AccessInv ==
    /\ AccessTypes /\ CopiesAgree /\ RegradedInvited /\ FollowersRead /\ RowsCascade /\ CleanIsQuiet
    /\ AccessAsGranted

LEMMA AccessInit == UsersInit => AccessInv
<1> SUFFICES ASSUME UsersInit PROVE AccessInv
  OBVIOUS
<1>1. /\ playlist \in Visibility /\ wanted = playlist.public
      /\ collaborator = [g \in Guest |-> Access!NoRow] /\ follower = {}
      /\ visit = [v \in Visit |-> Access!NoVisit] /\ removal = "never" /\ rows = 0
  BY DEF UsersInit, Access!Init, Visibility
<1>2. \A v \in Visit : visit[v].at = "none"
  BY <1>1 DEF Access!NoVisit
<1>3. Access!Collaborators = {}
  BY <1>1 DEF Access!Collaborators
<1>4. AccessTypes
  BY <1>1, <1>2 DEF AccessTypes, Reading
<1> QED
  BY <1>1, <1>2, <1>3, <1>4 DEF AccessInv, CopiesAgree, RegradedInvited, FollowersRead, RowsCascade,
     CleanIsQuiet, AccessAsGranted, Access!AccessAsGranted, Reading

\* What a request that only reads may come to.
Proper(state) ==
    /\ state.at \in {"reading", "updating"} =>
         /\ state \in Updating
         /\ state.stale \/ state.copy.public = wanted \/ muddled
         /\ removal # "clean"
    /\ state.at \in {"inviting", "regrading", "looking", "following"} => state.guest \in Guest
    /\ state.at = "inviting" => state.role \in Access!Role
    /\ state.at = "regrading" => /\ state.copy \in Access!CollaboratorRow
                                 /\ state.guest \in invited \cup exposed
    /\ state.at = "following" => state.guest \in Access!Readers \cup barred

LEMMA AccessOwnStep ==
  ASSUME AccessInv, NEW v \in Visit, NEW state, Proper(state),
         visit' = [visit EXCEPT ![v] = state],
         UNCHANGED <<playlist, collaborator, follower, rows, wanted, muddled, invited, exposed, barred, removal>>
  PROVE  AccessInv'
<1>1. /\ visit' = [w \in Visit |-> visit'[w]]
      /\ \A w \in Visit : visit'[w] = IF w = v THEN state ELSE visit[w]
  BY DEF AccessInv, AccessTypes
<1>2. Access!Readers' = Access!Readers /\ Access!Collaborators' = Access!Collaborators
  BY DEF Access!Readers, Access!Collaborators
<1>3. AccessTypes'
  BY <1>1 DEF AccessInv, AccessTypes, Reading, Proper
<1>4. CopiesAgree'
  BY <1>1 DEF AccessInv, CopiesAgree, Reading, Proper
<1>5. RegradedInvited' /\ FollowersRead'
  BY <1>1, <1>2 DEF AccessInv, RegradedInvited, FollowersRead, Proper
<1>6. RowsCascade' /\ CleanIsQuiet'
  BY <1>1, <1>2 DEF AccessInv, RowsCascade, CleanIsQuiet, Reading, Proper
<1>7. AccessAsGranted'
  BY <1>2 DEF AccessInv, AccessAsGranted, Access!AccessAsGranted
<1> QED  BY <1>3, <1>4, <1>5, <1>6, <1>7 DEF AccessInv

LEMMA AccessBegins ==
  ASSUME AccessInv, NEW v \in Visit,
         \/ Access!Update(v) \/ Access!Remove(v) \/ Access!Invite(v) \/ Access!ChangeRole(v) \/ Access!Follow(v)
  PROVE  AccessInv'
<1>1. ASSUME NEW state, Access!Begin(v, state), Proper(state)
      PROVE  AccessInv'
  BY <1>1, AccessOwnStep DEF Access!Begin
<1>2. playlist # Access!Gone
  BY DEF Access!Update, Access!Remove, Access!Invite, Access!ChangeRole, Access!Follow, Access!Begin
<1>3. CASE Access!Update(v)
  <2>1. PICK by \in Guest \cup {Access!Owner}, wish \in {"public", "private", "other"} :
          Access!Begin(v, [at |-> IF by = Access!Owner THEN "updating" ELSE "reading", by |-> by,
                           copy |-> playlist, wish |-> wish, stale |-> FALSE])
    BY <1>3 DEF Access!Update
  <2>2. removal # "clean" /\ playlist \in Visibility /\ (playlist.public = wanted \/ muddled)
    BY <1>2 DEF AccessInv, AccessTypes, AccessAsGranted, Access!AccessAsGranted
  <2>3. ASSUME NEW at \in {"updating", "reading"}
        PROVE  Proper([at |-> at, by |-> by, copy |-> playlist, wish |-> wish, stale |-> FALSE])
    BY <2>2 DEF Proper, Updating
  <2> QED  BY <1>1, <2>1, <2>3
<1>4. CASE Access!Remove(v)
  <2>1. Proper([at |-> "deleting"])
    BY DEF Proper
  <2> QED  BY <1>1, <1>4, <2>1 DEF Access!Remove
<1>5. CASE Access!Invite(v)
  <2>1. PICK g \in Guest, r \in Access!Role :
          Access!Begin(v, [at |-> "inviting", guest |-> g, role |-> r])
    BY <1>5 DEF Access!Invite
  <2>2. Proper([at |-> "inviting", guest |-> g, role |-> r])
    BY DEF Proper
  <2> QED  BY <1>1, <2>1, <2>2
<1>6. CASE Access!ChangeRole(v)
  <2>1. PICK g \in Access!Collaborators, r \in Access!Role :
          Access!Begin(v, [at |-> "regrading", guest |-> g, copy |-> [collaborator[g] EXCEPT !.role = r]])
    BY <1>6 DEF Access!ChangeRole
  <2>2. g \in Guest /\ g \in invited \cup exposed
    BY DEF Access!Collaborators, AccessInv, AccessAsGranted, Access!AccessAsGranted
  <2>3. [collaborator[g] EXCEPT !.role = r] \in Access!CollaboratorRow
    BY <2>2 DEF Access!Collaborators, AccessInv, AccessTypes, Access!CollaboratorRow
  <2>4. Proper([at |-> "regrading", guest |-> g, copy |-> [collaborator[g] EXCEPT !.role = r]])
    BY <2>2, <2>3 DEF Proper
  <2> QED  BY <1>1, <2>1, <2>4
<1>7. CASE Access!Follow(v)
  <2>1. PICK g \in Guest :
          Access!Begin(v, [at |-> IF playlist.public THEN "following" ELSE "looking", guest |-> g])
    BY <1>7 DEF Access!Follow
  <2>2. Proper([at |-> IF playlist.public THEN "following" ELSE "looking", guest |-> g])
    BY <1>2 DEF Proper, Access!Readers
  <2> QED  BY <1>1, <2>1, <2>2
<1> QED  BY <1>3, <1>4, <1>5, <1>6, <1>7

LEMMA AccessGoes ==
  ASSUME AccessInv, NEW v \in Visit,
         Access!FindEditor(v) \/ Access!FindCollaborator(v) \/ Access!Fail(v)
  PROVE  AccessInv'
<1>1. ASSUME NEW state, Access!Go(v, state), Proper(state)
      PROVE  AccessInv'
  BY <1>1, AccessOwnStep DEF Access!Go
<1>2. CASE Access!FindEditor(v)
  <2>1. Reading(v)
    BY <1>2 DEF Access!FindEditor, Reading
  <2>2. Proper([visit[v] EXCEPT !.at = "updating"])
    BY <2>1 DEF Proper, AccessInv, AccessTypes, CopiesAgree, CleanIsQuiet, Reading, Updating
  <2> QED  BY <1>1, <1>2, <2>2 DEF Access!FindEditor
<1>3. CASE Access!FindCollaborator(v)
  <2>1. visit[v].guest \in Access!Collaborators /\ visit[v].at = "looking"
    BY <1>3 DEF Access!FindCollaborator
  <2>2. visit[v].guest \in Guest /\ visit[v].guest \in Access!Readers
    BY <2>1 DEF AccessInv, AccessTypes, RowsCascade, Access!Readers
  <2>3. Proper([visit[v] EXCEPT !.at = "following"])
    BY <2>2 DEF Proper
  <2> QED  BY <1>1, <1>3, <2>3 DEF Access!FindCollaborator
<1>4. CASE Access!Fail(v)
  <2>1. Proper(Access!NoVisit)
    BY DEF Proper, Access!NoVisit
  <2> QED  BY <1>1, <1>4, <2>1 DEF Access!Fail
<1> QED  BY <1>2, <1>3, <1>4

\* The save gives the playlist the visibility that was asked for; the copies of the
\* other updates are older from here on.
LEMMA AccessSaveUpdate ==
  ASSUME AccessInv, NEW v \in Visit, Access!SaveUpdate(v)
  PROVE  AccessInv'
<1> DEFINE public == Access!Wished(visit[v])
<1>1. /\ Reading(v) /\ removal # "clean" /\ visit[v].copy \in Visibility
      /\ visit[v].stale \/ visit[v].copy.public = wanted \/ muddled
  BY DEF Access!SaveUpdate, Reading, AccessInv, AccessTypes, Updating, CopiesAgree, CleanIsQuiet
<1>2. /\ playlist' = [there |-> TRUE, public |-> public]
      /\ wanted' = IF visit[v].wish = "other" THEN wanted ELSE visit[v].wish = "public"
      /\ muddled' = IF visit[v].wish = "other" THEN muddled \/ visit[v].stale ELSE FALSE
      /\ UNCHANGED <<collaborator, follower, rows, invited, exposed, removal>>
      /\ barred' = barred \cup (Access!Readers \ Access!Readers')
  BY DEF Access!SaveUpdate, Access!Bar
<1>3. public \in BOOLEAN /\ playlist' \in Visibility /\ playlist'.public = public /\ playlist' # Access!Gone
  BY <1>1, <1>2 DEF Access!Wished, Visibility, Access!Gone
<1>4. public = wanted' \/ muddled'
  BY <1>1, <1>2 DEF Access!Wished
<1> HIDE DEF public
<1>5. /\ visit' = [w \in Visit |-> visit'[w]]
      /\ \A w \in Visit :
           \/ visit'[w].at = "none"
           \/ /\ Reading(w) /\ visit'[w] = [visit[w] EXCEPT !.stale = TRUE]
              /\ visit'[w] \in Updating /\ visit'[w].at = visit[w].at /\ visit'[w].stale
           \/ ~Reading(w) /\ visit'[w] = visit[w]
  BY DEF Access!SaveUpdate, Access!NoVisit, AccessInv, AccessTypes, Reading, Updating
<1>6. \A w \in Visit : Reading(w)' => visit'[w] \in Updating /\ visit'[w].stale
  BY <1>5 DEF Reading
<1>7. \A w \in Visit : visit'[w].at \in {"inviting", "regrading", "looking", "following"} =>
        visit'[w] = visit[w]
  BY <1>5 DEF Reading
<1>8. AccessTypes' /\ CopiesAgree'
  BY <1>2, <1>3, <1>5, <1>6, <1>7 DEF AccessInv, AccessTypes, CopiesAgree
<1>9. Access!Collaborators' = Access!Collaborators
  BY <1>2 DEF Access!Collaborators
<1>10. RegradedInvited' /\ FollowersRead'
  BY <1>2, <1>7 DEF AccessInv, RegradedInvited, FollowersRead
<1>11. RowsCascade' /\ CleanIsQuiet'
  BY <1>1, <1>2, <1>3 DEF RowsCascade, CleanIsQuiet
<1>12. AccessAsGranted'
  BY <1>1, <1>2, <1>3, <1>4, <1>9 DEF AccessInv, AccessAsGranted, Access!AccessAsGranted
<1> QED  BY <1>8, <1>10, <1>11, <1>12 DEF AccessInv

\* The rows of the collaborators go with the playlist, and whoever could read it
\* is barred.
LEMMA AccessDelete ==
  ASSUME AccessInv, NEW v \in Visit, Access!DeletePlaylist(v)
  PROVE  AccessInv'
<1>1. /\ playlist' = Access!Gone /\ collaborator' = [g \in Guest |-> Access!NoRow] /\ follower' = {}
      /\ invited' = {} /\ exposed' = exposed \cup Access!Regrading
      /\ barred' = barred \cup (Access!Readers \ Access!Readers')
      /\ removal' = "clean" => \A w \in Visit : ~Reading(w)
      /\ visit' = [visit EXCEPT ![v] = Access!NoVisit] /\ UNCHANGED <<rows, wanted, muddled>>
  BY DEF Access!DeletePlaylist, Access!Bar, Reading
<1>2. /\ visit' = [w \in Visit |-> visit'[w]]
      /\ \A w \in Visit : visit'[w].at = "none" \/ visit'[w] = visit[w]
  BY <1>1 DEF AccessInv, AccessTypes, Access!NoVisit
<1>3. Access!Collaborators' = {} /\ Access!Readers' = {}
  BY <1>1 DEF Access!Collaborators, Access!Readers
<1>4. AccessTypes'
  BY <1>1, <1>2 DEF AccessInv, AccessTypes, Reading
<1>5. CopiesAgree' /\ CleanIsQuiet'
  BY <1>1, <1>2 DEF AccessInv, CopiesAgree, CleanIsQuiet, Reading
<1>6. RegradedInvited'
  BY <1>1, <1>2 DEF RegradedInvited, Access!Regrading
<1>7. FollowersRead' /\ RowsCascade' /\ AccessAsGranted'
  BY <1>1, <1>2, <1>3 DEF AccessInv, FollowersRead, RowsCascade, AccessAsGranted, Access!AccessAsGranted
<1> QED  BY <1>4, <1>5, <1>6, <1>7 DEF AccessInv

\* A row of a collaborator goes in or out, and its guest with it.
LEMMA AccessRows ==
  ASSUME AccessInv,
         \/ \E v \in Visit : Access!InsertCollaborator(v) \/ Access!SaveRole(v)
         \/ \E g \in Guest : Access!RemoveCollaborator(g),
         MaxInvited \in Nat
  PROVE  AccessInv'
<1>0. rows' \in Nat
  <2>1. rows \in Nat /\ rows' \in {rows, rows + 1}
    BY DEF Access!InsertCollaborator, Access!SaveRole, Access!RemoveCollaborator, AccessInv, AccessTypes
  <2> QED  BY <2>1
<1>1. SUFFICES ASSUME NEW g \in Guest, NEW row \in Access!CollaboratorRow \cup {Access!NoRow},
                      collaborator' = [collaborator EXCEPT ![g] = row],
                      row # Access!NoRow => playlist # Access!Gone /\ g \in invited' \cup exposed',
                      invited \ {g} \subseteq invited', exposed \subseteq exposed',
                      g \in Access!Regrading => g \in invited' \cup exposed',
                      barred \cup (Access!Readers \ Access!Readers') \subseteq barred',
                      \/ visit' = visit
                      \/ \E v \in Visit : visit' = [visit EXCEPT ![v] = Access!NoVisit],
                      UNCHANGED <<playlist, follower, wanted, muddled, removal>>
               PROVE  AccessInv'
  <2>1. ASSUME NEW v \in Visit, Access!InsertCollaborator(v) PROVE AccessInv'
    <3>1. [nth |-> rows + 1, role |-> visit[v].role] \in Access!CollaboratorRow /\ visit[v].guest \in Guest
      BY <2>1 DEF Access!InsertCollaborator, Access!CollaboratorRow, AccessInv, AccessTypes
    <3>2. Access!Readers \subseteq Access!Readers'
      BY <2>1 DEF Access!InsertCollaborator, Access!Readers, Access!Collaborators, AccessInv, AccessTypes
    <3> QED  BY <2>1, <3>1, <3>2, <1>1 DEF Access!InsertCollaborator
  <2>2. ASSUME NEW v \in Visit, Access!SaveRole(v) PROVE AccessInv'
    <3>1. visit[v].copy \in Access!CollaboratorRow /\ visit[v].guest \in Guest
          /\ visit[v].guest \in invited \cup exposed
      BY <2>2 DEF Access!SaveRole, AccessInv, AccessTypes, RegradedInvited
    <3>2. Access!Readers \subseteq Access!Readers'
      BY <2>2, <3>1 DEF Access!SaveRole, Access!Readers, Access!Collaborators, AccessInv, AccessTypes,
                        Access!CollaboratorRow, Access!NoRow
    <3> QED  BY <2>2, <3>1, <3>2, <1>1 DEF Access!SaveRole
  <2>3. ASSUME NEW g \in Guest, Access!RemoveCollaborator(g) PROVE AccessInv'
    BY <2>3, <1>1 DEF Access!RemoveCollaborator, Access!Bar
  <2> QED  BY <2>1, <2>2, <2>3
<1>2. /\ visit' = [w \in Visit |-> visit'[w]]
      /\ \A w \in Visit : visit'[w].at = "none" \/ visit'[w] = visit[w]
  BY <1>1 DEF AccessInv, AccessTypes, Access!NoVisit
<1>3. \A h \in Guest : collaborator'[h] = IF h = g THEN row ELSE collaborator[h]
  BY <1>1 DEF AccessInv, AccessTypes
<1>4. AccessTypes'
  BY <1>0, <1>1, <1>2 DEF AccessInv, AccessTypes, Reading
<1>5. CopiesAgree' /\ CleanIsQuiet'
  BY <1>1, <1>2 DEF AccessInv, CopiesAgree, CleanIsQuiet, Reading
<1>6. RegradedInvited'
  BY <1>1, <1>2 DEF AccessInv, RegradedInvited, Access!Regrading
<1>7. FollowersRead'
  BY <1>1, <1>2 DEF AccessInv, FollowersRead
<1>8. RowsCascade'
  BY <1>1, <1>3 DEF AccessInv, RowsCascade, Access!Collaborators
<1>9. Access!Collaborators' \subseteq invited' \cup exposed'
  BY <1>1, <1>3 DEF AccessInv, AccessAsGranted, Access!AccessAsGranted, Access!Collaborators
<1>10. AccessAsGranted'
  BY <1>1, <1>9 DEF AccessInv, AccessAsGranted, Access!AccessAsGranted
<1> QED  BY <1>4, <1>5, <1>6, <1>7, <1>8, <1>10 DEF AccessInv

LEMMA AccessFollowers ==
  ASSUME AccessInv,
         (\E v \in Visit : Access!InsertFollow(v)) \/ \E g \in Guest : Access!Unfollow(g)
  PROVE  AccessInv'
<1>1. /\ UNCHANGED <<playlist, collaborator, rows, wanted, muddled, invited, exposed, barred, removal>>
      /\ visit' = visit \/ \E v \in Visit : visit' = [visit EXCEPT ![v] = Access!NoVisit]
      /\ follower' \subseteq Guest
      /\ \A g \in follower' : g \in follower \/ g \in Access!Readers \cup barred
  BY DEF Access!InsertFollow, Access!Unfollow, AccessInv, AccessTypes, FollowersRead
<1>2. /\ visit' = [w \in Visit |-> visit'[w]]
      /\ \A w \in Visit : visit'[w].at = "none" \/ visit'[w] = visit[w]
  BY <1>1 DEF AccessInv, AccessTypes, Access!NoVisit
<1>3. Access!Readers' = Access!Readers /\ Access!Collaborators' = Access!Collaborators
  BY <1>1 DEF Access!Readers, Access!Collaborators
<1>4. AccessTypes' /\ CopiesAgree' /\ CleanIsQuiet'
  BY <1>1, <1>2 DEF AccessInv, AccessTypes, CopiesAgree, CleanIsQuiet, Reading
<1>5. RegradedInvited' /\ FollowersRead' /\ RowsCascade'
  BY <1>1, <1>2, <1>3 DEF AccessInv, RegradedInvited, FollowersRead, RowsCascade
<1>6. AccessAsGranted'
  BY <1>1, <1>3 DEF AccessInv, AccessAsGranted, Access!AccessAsGranted
<1> QED  BY <1>4, <1>5, <1>6 DEF AccessInv

LEMMA AccessStutter == AccessInv /\ UNCHANGED accessVars => AccessInv'
<1> SUFFICES ASSUME AccessInv, UNCHANGED accessVars PROVE AccessInv'
  OBVIOUS
<1>1. Access!Readers' = Access!Readers /\ Access!Collaborators' = Access!Collaborators
  BY DEF accessVars, Access!Readers, Access!Collaborators
<1> QED
  BY <1>1 DEF accessVars, AccessInv, AccessTypes, CopiesAgree, RegradedInvited, FollowersRead,
     RowsCascade, CleanIsQuiet, AccessAsGranted, Access!AccessAsGranted, Reading

LEMMA AccessNext == AccessInv /\ UsersNext => AccessInv'
<1> SUFFICES ASSUME AccessInv, UsersNext, Access!Next PROVE AccessInv'
  BY AccessStutter DEF UsersNext
<1> QED
  BY AccessBegins, AccessGoes, AccessSaveUpdate, AccessDelete, AccessRows, AccessFollowers,
     UsersAssumption
  DEF Access!Next

\* However the requests of owner, editors and guests overlap: the playlist is as
\* visible as was last asked for, its collaborators were invited, and its followers
\* may read it, but for the overlaps AccessAsGranted names (PlaylistService).
THEOREM PlaylistAccessIsAsGranted == UsersSpec => []AccessAsGranted
<1>1. AccessInv => AccessAsGranted
  BY DEF AccessInv
<1>2. AccessInv /\ [UsersNext]_<<part, rowVars, subVars, commentVars, shareVars, uploadVars, accessVars,
                                limiterVars, breakerVars>> => AccessInv'
  BY AccessNext, AccessStutter
<1> QED  BY <1>1, <1>2, AccessInit, PTL DEF UsersSpec

----------------------------------------------------------------------------
(* Uploads *)

UploadTypes ==
    /\ folder \in [there : BOOLEAN, chunks : SUBSET Session!Chunk]
    /\ finaliser \in [Finaliser -> {"none", "asked", "writing", "scanning", "storing", "torn",
                                    "saving", "replying"}]
    /\ received \in [Session!Chunk -> Nat]
    /\ songs \in Nat /\ overlaps \in Nat /\ protected \in Nat /\ lapses \in Nat
    /\ reply \in BOOLEAN /\ keyed \subseteq Finaliser

\* Every copy of a chunk is used once: by a song, by a request that has merged it
\* and not ended, or it lies in the folder.
ChunksUsedOnce ==
    \A i \in Session!Chunk :
        songs + Cardinality(Session!Busy) + (IF i \in folder.chunks THEN 1 ELSE 0) <= received[i]

\* While no merge has begun over another request, the request under way is alone
\* with the merged file.
AloneWithFile ==
    overlaps = 0 =>
        /\ stored # "partial"
        /\ \A f, g \in Session!Busy : f = g
        /\ \A f \in Finaliser : /\ finaliser[f] = "writing" => writer = f
                                /\ finaliser[f] = "scanning" => merged = "whole"
                                /\ finaliser[f] # "torn"

\* Requests with the key that may still save a song.
Unanswered == {f \in keyed : finaliser[f] # "replying"}

\* The key, while it has a reply or a request, is good for one song, and so is each lapse.
Key == IF reply \/ keyed # {} THEN "taken" ELSE "free"
KeySavesOnce ==
    /\ \A f \in keyed : finaliser[f] # "none"
    /\ protected + Cardinality(Unanswered) <= lapses + 1
    /\ Key = "free" => protected + Cardinality(Unanswered) <= lapses

UploadInv == UploadTypes /\ ChunksUsedOnce /\ AloneWithFile /\ KeySavesOnce

LEMMA UploadSetsFinite ==
  ASSUME UploadTypes
  PROVE  IsFiniteSet(Session!Busy) /\ IsFiniteSet(Unanswered)
         /\ Cardinality(Session!Busy) \in Nat /\ Cardinality(Unanswered) \in Nat
<1>1. Session!Busy \subseteq Finaliser /\ Unanswered \subseteq Finaliser
  BY DEF Session!Busy, Unanswered, UploadTypes
<1> QED  BY <1>1, UsersAssumption, NoMore

LEMMA UploadInit == UsersInit => UploadInv
<1> SUFFICES ASSUME UsersInit PROVE UploadInv
  OBVIOUS
<1>1. Session!Init
  BY DEF UsersInit
<1>2. UploadTypes
  BY <1>1 DEF Session!Init, UploadTypes
<1>3. Session!Busy = {} /\ Unanswered = {}
  BY <1>1 DEF Session!Init, Session!Busy, Unanswered
<1>4. ChunksUsedOnce /\ AloneWithFile /\ KeySavesOnce
  BY <1>1, <1>3, FS_EmptySet DEF Session!Init, ChunksUsedOnce, AloneWithFile, KeySavesOnce, Key
<1> QED  BY <1>2, <1>4 DEF UploadInv

LEMMA UploadTypesStep ==
  ASSUME UploadInv, Session!Next
  PROVE  UploadTypes'
<1> USE DEF UploadInv
<1>1. CASE Session!ReplyExpires
  <2>1. reply' \in BOOLEAN
    BY <1>1 DEF Session!ReplyExpires
  <2>2. lapses' = lapses + 1
        /\ UNCHANGED <<folder, finaliser, received, songs, overlaps, protected, keyed>>
    BY <1>1 DEF Session!ReplyExpires, Session!Lapse, Session!uploadVars
  <2> QED  BY <2>1, <2>2 DEF UploadTypes
<1>2. ASSUME NEW i \in Session!Chunk, Session!SaveChunk(i) PROVE UploadTypes'
  BY <1>2 DEF Session!SaveChunk, Session!keyVars, UploadTypes
<1>3. ASSUME NEW f \in Finaliser, Session!LookUp(f) PROVE UploadTypes'
  <2>1. /\ lapses' \in {lapses, lapses + 1} /\ finaliser' = [finaliser EXCEPT ![f] = "asked"]
        /\ keyed' = keyed \cup {f}
        /\ UNCHANGED <<folder, received, songs, overlaps, protected, reply>>
    BY <1>3 DEF Session!LookUp, Session!Lapse, Session!uploadVars
  <2> QED  BY <2>1 DEF UploadTypes
<1>4. ASSUME NEW f \in Finaliser, Session!CacheReply(f) PROVE UploadTypes'
  <2>1. reply' \in BOOLEAN
    BY <1>4 DEF Session!CacheReply
  <2> QED  BY <1>4, <2>1 DEF Session!CacheReply, Session!Go, Session!uploadVars, UploadTypes
<1>5. ASSUME NEW f \in Finaliser, Session!Refuse(f) \/ Session!Finish(f) PROVE UploadTypes'
  BY <1>5 DEF Session!Refuse, Session!Finish, Session!Go, UploadTypes
<1>6. ASSUME NEW f \in Finaliser, Session!Merge(f) \/ Session!MergeBreaks(f) PROVE UploadTypes'
  <2>1. PICK next \in {"none", "writing"} : Session!OpenStream(f, next)
    BY <1>6 DEF Session!Merge, Session!MergeBreaks
  <2>2. PICK chunks \in SUBSET Session!Chunk : folder' = [folder EXCEPT !.chunks = chunks]
    <3>1. \A i \in Session!Chunk : i..N - 1 \in SUBSET Session!Chunk
      BY UsersAssumption DEF Session!Chunk
    <3>2. {} \in SUBSET Session!Chunk
      OBVIOUS
    <3> QED  BY <1>6, <3>1, <3>2 DEF Session!Merge, Session!MergeBreaks
  <2>3. overlaps' \in {overlaps, overlaps + 1}
    BY <2>1 DEF Session!OpenStream, UploadTypes
  <2>4. keyed' \subseteq keyed /\ finaliser' \in [Finaliser -> {"none", "asked", "writing", "scanning",
                                   "storing", "torn", "saving", "replying"}]
    BY <2>1 DEF Session!OpenStream, UploadTypes
  <2>5. UNCHANGED <<songs, received, reply, protected, lapses>>
    BY <2>1 DEF Session!OpenStream
  <2> QED  BY <2>2, <2>3, <2>4, <2>5 DEF UploadTypes
<1>7. ASSUME NEW f \in Finaliser, Session!ScanPasses(f) \/ Session!ScanRejects(f) \/ Session!Store(f)
      PROVE  UploadTypes'
  BY <1>7 DEF Session!ScanPasses, Session!ScanRejects, Session!Store, Session!Go, Session!uploadVars,
              UploadTypes
<1>8. ASSUME NEW f \in Finaliser, Session!SaveSong(f) PROVE UploadTypes'
  BY <1>8 DEF Session!SaveSong, Session!Go, UploadTypes
<1>9. ASSUME NEW f \in Finaliser, Session!Fail(f) PROVE UploadTypes'
  BY <1>9 DEF Session!Fail, Session!Go, Session!Lapse, Session!uploadVars, UploadTypes
<1> QED  BY <1>1, <1>2, <1>3, <1>4, <1>5, <1>6, <1>7, <1>8, <1>9 DEF Session!Next

\* A merge takes one copy of every chunk out of the folder, and a song ends with the
\* request that saves it.
LEMMA UploadChunksStep ==
  ASSUME UploadInv, Session!Next
  PROVE  ChunksUsedOnce'
<1> USE DEF UploadInv, UploadTypes
<1> DEFINE In(i) == IF i \in folder.chunks THEN 1 ELSE 0
<1>0. /\ IsFiniteSet(Session!Busy) /\ Cardinality(Session!Busy) \in Nat
      /\ \A i \in Session!Chunk : songs + Cardinality(Session!Busy) + In(i) <= received[i]
  BY UploadSetsFinite DEF ChunksUsedOnce
<1>1. ASSUME songs' = songs, received' = received, Session!Busy' \subseteq Session!Busy,
             folder'.chunks \subseteq folder.chunks
      PROVE  ChunksUsedOnce'
  <2>1. Cardinality(Session!Busy') \in Nat /\ Cardinality(Session!Busy') <= Cardinality(Session!Busy)
    BY <1>0, <1>1, NoMore
  <2> QED  BY <1>0, <1>1, <2>1 DEF ChunksUsedOnce
<1>2. ASSUME NEW i \in Session!Chunk, Session!SaveChunk(i) PROVE ChunksUsedOnce'
  <2>1. /\ songs' = songs /\ received' = [received EXCEPT ![i] = @ + 1]
        /\ folder'.chunks = folder.chunks \cup {i} /\ Session!Busy' = Session!Busy
    BY <1>2 DEF Session!SaveChunk, Session!Busy
  <2> QED  BY <1>0, <2>1 DEF ChunksUsedOnce
<1>3. CASE Session!ReplyExpires
  BY <1>1, <1>3 DEF Session!ReplyExpires, Session!uploadVars, Session!Busy
<1>4. ASSUME NEW f \in Finaliser,
             \/ Session!LookUp(f) \/ Session!CacheReply(f) \/ Session!Refuse(f) \/ Session!Finish(f)
             \/ Session!ScanPasses(f) \/ Session!ScanRejects(f) \/ Session!Store(f) \/ Session!Fail(f)
      PROVE  ChunksUsedOnce'
  <2>1. songs' = songs /\ received' = received /\ folder'.chunks \subseteq folder.chunks
    BY <1>4 DEF Session!LookUp, Session!CacheReply, Session!Refuse, Session!Finish, Session!ScanPasses,
                Session!ScanRejects, Session!Store, Session!Fail, Session!Go, Session!uploadVars
  <2>2. /\ \A g \in Finaliser : g # f => finaliser'[g] = finaliser[g]
        /\ finaliser'[f] \notin {"none", "asked", "replying"} =>
             finaliser[f] \notin {"none", "asked", "replying"}
    BY <1>4 DEF Session!LookUp, Session!CacheReply, Session!Refuse, Session!Finish, Session!ScanPasses,
                Session!ScanRejects, Session!Store, Session!Fail, Session!Go, Session!uploadVars
  <2>3. Session!Busy' \subseteq Session!Busy
    BY <2>2 DEF Session!Busy
  <2> QED  BY <1>1, <2>1, <2>3
<1>5. ASSUME NEW f \in Finaliser, Session!MergeBreaks(f) PROVE ChunksUsedOnce'
  <2>1. PICK i \in Session!Chunk : folder' = [folder EXCEPT !.chunks = i..N - 1]
    BY <1>5 DEF Session!MergeBreaks
  <2>2. folder'.chunks \subseteq folder.chunks
    BY <1>5, <2>1, UsersAssumption DEF Session!Chunk, Session!MergeBreaks, Session!OpenStream
  <2>3. songs' = songs /\ received' = received /\ Session!Busy' \subseteq Session!Busy
    BY <1>5 DEF Session!MergeBreaks, Session!OpenStream, Session!Busy
  <2> QED  BY <1>1, <2>2, <2>3
<1>6. ASSUME NEW f \in Finaliser, Session!Merge(f) PROVE ChunksUsedOnce'
  <2>1. songs' = songs /\ received' = received /\ Session!Busy' \subseteq Session!Busy \cup {f}
        /\ folder.chunks = Session!Chunk /\ folder'.chunks = {}
    BY <1>6 DEF Session!Merge, Session!OpenStream, Session!Busy
  <2>2. Cardinality(Session!Busy') \in Nat /\ Cardinality(Session!Busy') <= Cardinality(Session!Busy) + 1
    BY <1>0, <2>1, OneMore
  <2> QED  BY <1>0, <2>1, <2>2 DEF ChunksUsedOnce
<1>7. ASSUME NEW f \in Finaliser, Session!SaveSong(f) PROVE ChunksUsedOnce'
  <2>1. songs' = songs + 1 /\ received' = received /\ folder' = folder
        /\ f \in Session!Busy /\ Session!Busy' \subseteq Session!Busy \ {f}
    BY <1>7 DEF Session!SaveSong, Session!Go, Session!Busy
  <2>2. Cardinality(Session!Busy') \in Nat /\ Cardinality(Session!Busy') + 1 <= Cardinality(Session!Busy)
    BY <1>0, <2>1, OneLess
  <2> QED  BY <1>0, <2>1, <2>2 DEF ChunksUsedOnce
<1> QED  BY <1>2, <1>3, <1>4, <1>5, <1>6, <1>7 DEF Session!Next

\* A merge that overlaps nothing finds nobody else at work, so what it opens is
\* whole when it is scanned and stored.
LEMMA UploadAloneStep ==
  ASSUME UploadInv, Session!Next
  PROVE  AloneWithFile'
<1> SUFFICES ASSUME overlaps' = 0
             PROVE  /\ stored' # "partial"
                    /\ \A f, g \in Session!Busy' : f = g
                    /\ \A f \in Finaliser : /\ finaliser'[f] = "writing" => writer' = f
                                            /\ finaliser'[f] = "scanning" => merged' = "whole"
                                            /\ finaliser'[f] # "torn"
  BY DEF AloneWithFile
<1> DEFINE Idle == {"none", "asked", "replying"}
<1>1. ASSUME overlaps = 0
      PROVE  /\ stored # "partial"
             /\ \A f, g \in Finaliser : finaliser[f] \notin Idle /\ finaliser[g] \notin Idle => f = g
             /\ \A f \in Finaliser : /\ finaliser[f] = "writing" => writer = f
                                     /\ finaliser[f] = "scanning" => merged = "whole"
                                     /\ finaliser[f] # "torn"
  BY <1>1 DEF UploadInv, AloneWithFile, Session!Busy
<1>2. ASSUME overlaps = 0, NEW f \in Finaliser, finaliser[f] \notin Idle
      PROVE  \A g \in Finaliser \ {f} : finaliser[g] \in Idle
  BY <1>1, <1>2
<1>3. ASSUME NEW f \in Finaliser,
             \/ Session!LookUp(f) \/ Session!CacheReply(f) \/ Session!Refuse(f)
             \/ Session!SaveSong(f) \/ Session!Fail(f)
      PROVE  /\ overlaps' = overlaps /\ stored' = stored /\ writer' = writer /\ merged' = merged
             /\ \A g \in Finaliser : finaliser'[g] = finaliser[g] \/ finaliser'[g] \in Idle
  BY <1>3 DEF Session!LookUp, Session!CacheReply, Session!Refuse, Session!SaveSong, Session!Fail,
              Session!Go, Session!uploadVars, UploadInv, UploadTypes
<1>4. ASSUME NEW f \in Finaliser, Session!Merge(f) \/ Session!MergeBreaks(f)
      PROVE  /\ overlaps = 0 /\ stored' = stored
             /\ \A g \in Finaliser \ {f} : finaliser[g] \in Idle /\ finaliser'[g] = finaliser[g]
             /\ finaliser'[f] = "none" \/ (finaliser'[f] = "writing" /\ writer' = f)
  <2>1. overlaps = 0 /\ Session!Busy = {} /\ stored' = stored
    BY <1>4 DEF Session!Merge, Session!MergeBreaks, Session!OpenStream, UploadInv, UploadTypes
  <2>2. \A g \in Finaliser : finaliser[g] \in Idle
    BY <2>1 DEF Session!Busy
  <2>3. \A g \in Finaliser \ {f} : finaliser'[g] = finaliser[g]
    BY <1>4, <2>2 DEF Session!Merge, Session!MergeBreaks, Session!OpenStream
  <2>4. finaliser'[f] = "none" \/ (finaliser'[f] = "writing" /\ writer' = f)
    BY <1>4 DEF Session!Merge, Session!MergeBreaks, Session!OpenStream
  <2> QED  BY <2>1, <2>2, <2>3, <2>4
<1>5. ASSUME NEW f \in Finaliser, Session!Finish(f)
      PROVE  /\ overlaps' = overlaps /\ stored' = stored /\ writer' = writer /\ finaliser[f] = "writing"
             /\ merged' = IF writer = f THEN "whole" ELSE merged
             /\ \A g \in Finaliser \ {f} : finaliser'[g] = finaliser[g]
             /\ finaliser'[f] \in {"none", "scanning"}
  BY <1>5 DEF Session!Finish, Session!Go, UploadInv, UploadTypes
<1>6. ASSUME NEW f \in Finaliser, Session!ScanPasses(f) \/ Session!ScanRejects(f)
      PROVE  /\ overlaps' = overlaps /\ stored' = stored /\ finaliser[f] = "scanning"
             /\ \A g \in Finaliser \ {f} : finaliser'[g] = finaliser[g]
             /\ \/ finaliser'[f] = "none"
                \/ finaliser'[f] = "storing"
                \/ finaliser'[f] = "torn" /\ merged # "whole"
  BY <1>6 DEF Session!ScanPasses, Session!ScanRejects, Session!Go, Session!uploadVars, UploadInv, UploadTypes
<1>7. ASSUME NEW f \in Finaliser, Session!Store(f)
      PROVE  /\ overlaps' = overlaps /\ (finaliser[f] = "torn" \/ stored' = "whole")
             /\ finaliser[f] \notin Idle
             /\ \A g \in Finaliser \ {f} : finaliser'[g] = finaliser[g]
             /\ finaliser'[f] = "saving"
  BY <1>7 DEF Session!Store, Session!Go, UploadInv, UploadTypes
<1> DEFINE Alone ==
      /\ stored' # "partial"
      /\ \A f, g \in Finaliser : finaliser'[f] \notin Idle /\ finaliser'[g] \notin Idle => f = g
      /\ \A f \in Finaliser : /\ finaliser'[f] = "writing" => writer' = f
                              /\ finaliser'[f] = "scanning" => merged' = "whole"
                              /\ finaliser'[f] # "torn"
<1>8. Alone
  <2>1. CASE Session!ReplyExpires \/ \E i \in Session!Chunk : Session!SaveChunk(i)
    BY <1>1, <2>1 DEF Session!ReplyExpires, Session!SaveChunk, Session!uploadVars
  <2>2. ASSUME NEW f \in Finaliser,
               \/ Session!LookUp(f) \/ Session!CacheReply(f) \/ Session!Refuse(f)
               \/ Session!SaveSong(f) \/ Session!Fail(f)
        PROVE  Alone
    BY <1>1, <1>3, <2>2
  <2>3. ASSUME NEW f \in Finaliser, Session!Merge(f) \/ Session!MergeBreaks(f) PROVE Alone
    BY <1>1, <1>4, <2>3
  <2>4. ASSUME NEW f \in Finaliser, Session!Finish(f) PROVE Alone
    BY <1>1, <1>2, <1>5, <2>4
  <2>5. ASSUME NEW f \in Finaliser, Session!ScanPasses(f) \/ Session!ScanRejects(f) PROVE Alone
    BY <1>1, <1>2, <1>6, <2>5
  <2>6. ASSUME NEW f \in Finaliser, Session!Store(f) PROVE Alone
    BY <1>1, <1>2, <1>7, <2>6
  <2> QED  BY <2>1, <2>2, <2>3, <2>4, <2>5, <2>6 DEF Session!Next
<1> QED  BY <1>8 DEF Session!Busy

\* A request that looks its key up finds it free, or costs a lapse; a song is saved
\* by a request that was counted.
LEMMA UploadKeyStep ==
  ASSUME UploadInv, Session!Next
  PROVE  KeySavesOnce'
<1>0. /\ IsFiniteSet(Unanswered) /\ Cardinality(Unanswered) \in Nat
      /\ protected \in Nat /\ lapses \in Nat /\ keyed \subseteq Finaliser
      /\ \A f \in keyed : finaliser[f] # "none"
      /\ protected + Cardinality(Unanswered) <= lapses + 1
      /\ Key = "free" => protected + Cardinality(Unanswered) <= lapses
      /\ finaliser \in [Finaliser -> {"none", "asked", "writing", "scanning", "storing", "torn",
                                      "saving", "replying"}]
  BY UploadSetsFinite DEF UploadInv, UploadTypes, KeySavesOnce
<1> DEFINE Kept == \A f \in keyed' : finaliser'[f] # "none"
           Paid == lapses' >= lapses + 1 \/ (lapses' >= lapses /\ (Key' = "free" => Key = "free"))
<1>1. ASSUME Kept, NEW x \in Unanswered, Unanswered' \subseteq Unanswered \ {x},
             protected' = protected, lapses' \in Nat, lapses' >= lapses
      PROVE  KeySavesOnce'
  <2>1. Cardinality(Unanswered') \in Nat /\ Cardinality(Unanswered') + 1 <= Cardinality(Unanswered)
    BY <1>0, <1>1, OneLess
  <2>2. protected + Cardinality(Unanswered') <= lapses
    BY <1>0, <2>1
  <2> QED  BY <1>0, <1>1, <2>1, <2>2 DEF KeySavesOnce
<1>2. ASSUME Kept, Unanswered' \subseteq Unanswered, protected' = protected, lapses' \in Nat,
             Paid
      PROVE  KeySavesOnce'
  <2>1. Cardinality(Unanswered') \in Nat /\ Cardinality(Unanswered') <= Cardinality(Unanswered)
    BY <1>0, <1>2, NoMore
  <2> QED  BY <1>0, <1>2, <2>1 DEF KeySavesOnce
<1>3. /\ \A g : g \in Unanswered' <=> g \in keyed' /\ finaliser'[g] # "replying"
      /\ \A g : g \in Unanswered <=> g \in keyed /\ finaliser[g] # "replying"
  BY DEF Unanswered
<1>4. /\ keyed' # {} => Key' = "taken"
      /\ reply' => Key' = "taken"
      /\ keyed = {} /\ ~reply => Key = "free"
      /\ keyed' = keyed /\ reply' = reply => Key' = Key
  BY DEF Key
<1>5. CASE Session!ReplyExpires
  <2>1. Unanswered' = Unanswered /\ keyed' = keyed /\ finaliser' = finaliser
        /\ protected' = protected /\ lapses' = lapses + 1
    BY <1>5 DEF Session!ReplyExpires, Session!Lapse, Session!uploadVars, Unanswered
  <2>2. Kept /\ lapses' \in Nat /\ Paid
    BY <1>0, <2>1
  <2> QED  BY <1>2, <2>1, <2>2
<1>6. ASSUME NEW i \in Session!Chunk, Session!SaveChunk(i) PROVE KeySavesOnce'
  BY <1>6 DEF Session!SaveChunk, Session!keyVars, UploadInv, KeySavesOnce, Unanswered, Key
<1>7. ASSUME NEW f \in Finaliser, Session!LookUp(f) PROVE KeySavesOnce'
  <2>1. /\ keyed' = keyed \cup {f} /\ protected' = protected /\ finaliser[f] = "none"
        /\ finaliser' = [finaliser EXCEPT ![f] = "asked"]
    BY <1>7 DEF Session!LookUp, Session!uploadVars
  <2>2. lapses' = lapses + 1 \/ (lapses' = lapses /\ Key = "free")
    BY <1>4, <1>7 DEF Session!LookUp, Session!Lapse
  <2>3. Kept /\ Unanswered' \subseteq Unanswered \cup {f} /\ Key' = "taken"
    BY <1>0, <1>3, <1>4, <2>1
  <2>4. Cardinality(Unanswered') \in Nat /\ Cardinality(Unanswered') <= Cardinality(Unanswered) + 1
    BY <1>0, <2>3, OneMore
  <2>5. protected' + Cardinality(Unanswered') <= lapses' + 1
    BY <1>0, <1>4, <2>1, <2>2, <2>3, <2>4
  <2> QED  BY <2>3, <2>5 DEF KeySavesOnce
\* Request f ends.
<1>8. ASSUME NEW f \in Finaliser, finaliser'[f] = "none", keyed' = keyed \ {f},
             \A g \in Finaliser \ {f} :
               /\ finaliser[g] # "none" => finaliser'[g] # "none"
               /\ finaliser[g] = "replying" => finaliser'[g] = "replying",
             protected' = protected, lapses' \in Nat, lapses' >= lapses,
             f \in Unanswered \/ Paid
      PROVE  KeySavesOnce'
  <2>1. Kept /\ Unanswered' \subseteq Unanswered \ {f}
    BY <1>0, <1>3, <1>8
  <2> QED  BY <1>1, <1>2, <1>8, <2>1
\* Request f goes on.
<1>9. ASSUME NEW f \in Finaliser, finaliser[f] # "replying" \/ finaliser'[f] = "replying",
             finaliser'[f] # "none", keyed' = keyed,
             reply' = reply, protected' = protected, lapses' = lapses,
             \A g \in Finaliser \ {f} :
               /\ finaliser[g] # "none" => finaliser'[g] # "none"
               /\ finaliser[g] = "replying" => finaliser'[g] = "replying"
      PROVE  KeySavesOnce'
  <2>1. Kept /\ Unanswered' \subseteq Unanswered /\ Key' = Key
    BY <1>0, <1>3, <1>4, <1>9
  <2> QED  BY <1>0, <1>2, <1>4, <1>9, <2>1
<1>10. ASSUME NEW f \in Finaliser,
              \/ Session!Refuse(f) \/ Session!Merge(f) \/ Session!MergeBreaks(f) \/ Session!Finish(f)
              \/ Session!ScanPasses(f) \/ Session!ScanRejects(f) \/ Session!Store(f)
       PROVE  KeySavesOnce'
  <2>1. /\ reply' = reply /\ protected' = protected /\ lapses' = lapses /\ finaliser[f] # "replying"
        /\ \/ finaliser'[f] = "none" /\ keyed' = keyed \ {f}
           \/ finaliser'[f] \notin {"none", "replying"} /\ keyed' = keyed
    BY <1>10 DEF Session!Refuse, Session!Merge, Session!MergeBreaks, Session!OpenStream, Session!Finish,
       Session!ScanPasses, Session!ScanRejects, Session!Store, Session!Go, UploadInv, UploadTypes
  <2>2. \A g \in Finaliser \ {f} : /\ finaliser[g] # "none" => finaliser'[g] # "none"
                                   /\ finaliser[g] = "replying" => finaliser'[g] = "replying"
    BY <1>10 DEF Session!Refuse, Session!Merge, Session!MergeBreaks, Session!OpenStream, Session!Finish,
       Session!ScanPasses, Session!ScanRejects, Session!Store, Session!Go, UploadInv, UploadTypes
  <2>3. f \in Unanswered \/ (keyed \ {f} = keyed)
    BY <1>3, <2>1
  <2>4. f \in Unanswered \/ Key' = Key
    <3>1. f \in Unanswered \/ keyed' = keyed
      BY <2>1, <2>3
    <3> QED  BY <1>4, <2>1, <3>1
  <2>5. lapses' \in Nat /\ lapses' >= lapses /\ (Key' = Key => Paid)
    BY <1>0, <2>1
  <2>6. CASE finaliser'[f] = "none" /\ keyed' = keyed \ {f}
    BY <1>8, <2>1, <2>2, <2>4, <2>5, <2>6
  <2>7. CASE finaliser'[f] \notin {"none", "replying"} /\ keyed' = keyed
    BY <1>9, <2>1, <2>2, <2>7
  <2> QED  BY <2>1, <2>6, <2>7
<1>11. ASSUME NEW f \in Finaliser, Session!CacheReply(f) PROVE KeySavesOnce'
  <2>1. finaliser' = [finaliser EXCEPT ![f] = "none"] /\ keyed' = keyed \ {f}
        /\ protected' = protected /\ lapses' = lapses
    BY <1>11 DEF Session!CacheReply, Session!Go
  <2>2. Key' = "taken"
    BY <1>4, <1>11 DEF Session!CacheReply
  <2> QED  BY <1>0, <1>4, <1>8, <2>1, <2>2
<1>12. ASSUME NEW f \in Finaliser, Session!SaveSong(f) PROVE KeySavesOnce'
  <2>1. finaliser[f] = "saving" /\ lapses' = lapses /\ reply' = reply
    BY <1>12 DEF Session!SaveSong
  <2>2. CASE f \in keyed
    <3>1. /\ protected' = protected + 1 /\ keyed' = keyed
          /\ finaliser' = [finaliser EXCEPT ![f] = "replying"]
      BY <1>12, <2>2 DEF Session!SaveSong, Session!Go
    <3>2. Kept /\ f \in Unanswered /\ Unanswered' \subseteq Unanswered \ {f} /\ Key' = Key
      BY <1>0, <1>3, <1>4, <2>1, <2>2, <3>1
    <3>3. Cardinality(Unanswered') \in Nat /\ Cardinality(Unanswered') + 1 <= Cardinality(Unanswered)
      BY <1>0, <3>2, OneLess
    <3>4. /\ protected' + Cardinality(Unanswered') <= lapses' + 1
          /\ Key' = "free" => protected' + Cardinality(Unanswered') <= lapses'
      BY <1>0, <1>4, <2>1, <3>1, <3>2, <3>3
    <3> QED  BY <3>2, <3>4 DEF KeySavesOnce
  <2>3. CASE f \notin keyed
    <3>1. /\ protected' = protected /\ keyed' = keyed \ {f} /\ keyed \ {f} = keyed
          /\ finaliser' = [finaliser EXCEPT ![f] = "none"]
      BY <1>12, <2>3 DEF Session!SaveSong, Session!Go
    <3>2. Key' = Key
      BY <1>4, <2>1, <3>1
    <3> QED  BY <1>0, <1>4, <1>8, <2>1, <3>1, <3>2
  <2> QED  BY <2>2, <2>3
<1>13. ASSUME NEW f \in Finaliser, Session!Fail(f) PROVE KeySavesOnce'
  <2>1. /\ finaliser' = [finaliser EXCEPT ![f] = "none"] /\ keyed' = keyed \ {f}
        /\ protected' = protected
        /\ lapses' = IF finaliser[f] = "replying" THEN lapses + 1 ELSE lapses
    BY <1>13 DEF Session!Fail, Session!Go, Session!Lapse
  <2>2. finaliser[f] = "replying" \/ f \in Unanswered \/ keyed' = keyed
    BY <1>3, <2>1
  <2>3. finaliser[f] = "replying" \/ f \in Unanswered \/ Key' = Key
    <3>1. reply' = reply
      BY <1>13 DEF Session!Fail
    <3> QED  BY <1>4, <2>2, <3>1
  <2>4. /\ finaliser'[f] = "none" /\ \A g \in Finaliser \ {f} : finaliser'[g] = finaliser[g]
        /\ lapses' \in Nat /\ lapses' >= lapses
        /\ f \in Unanswered \/ Paid
    BY <1>0, <2>1, <2>3
  <2> QED  BY <1>8, <2>1, <2>4
<1> QED  BY <1>5, <1>6, <1>7, <1>10, <1>11, <1>12, <1>13 DEF Session!Next

LEMMA UploadStutter == UploadInv /\ UNCHANGED uploadVars => UploadInv'
  BY DEF uploadVars, UploadInv, UploadTypes, ChunksUsedOnce, AloneWithFile, KeySavesOnce, Session!Busy,
         Unanswered, Key

\* Each time a client has sent all chunks, one song comes of it at most, its object
\* is whole unless merges overlapped, and an idempotency key saves one song and one
\* more for each lapse (SongService, the idempotency middleware).
THEOREM UploadsSaveOneWholeSong == UsersSpec => []OneWholeSongPerUpload
<1>1. UploadInv => OneWholeSongPerUpload
  <2> SUFFICES ASSUME UploadInv PROVE Session!OneWholeSongPerUpload
    BY DEF OneWholeSongPerUpload
  <2>1. Cardinality(Session!Busy) \in Nat /\ Cardinality(Unanswered) \in Nat
    BY UploadSetsFinite DEF UploadInv
  <2>2. \A i \in Session!Chunk : songs <= received[i]
    BY <2>1 DEF UploadInv, UploadTypes, ChunksUsedOnce
  <2>3. protected <= 1 + lapses
    BY <2>1 DEF UploadInv, UploadTypes, KeySavesOnce
  <2> QED  BY <2>2, <2>3 DEF UploadInv, AloneWithFile, Session!OneWholeSongPerUpload
<1>2. UploadInv /\ [UsersNext]_<<part, rowVars, subVars, commentVars, shareVars, uploadVars, accessVars,
                                limiterVars, breakerVars>> => UploadInv'
  BY UploadStutter, UploadTypesStep, UploadChunksStep, UploadAloneStep, UploadKeyStep
  DEF UsersNext, UploadInv
<1> QED  BY <1>1, <1>2, UploadInit, PTL DEF UsersSpec

----------------------------------------------------------------------------
(* Comments *)

CommentRow == [is : {"row"}, parent : Comment \cup {Talk!Top}, depth : Nat, hidden : BOOLEAN]

Resolving == [at : {"resolving"}, row : Comment \X Reporter, was : {"pending"}, answer : {"keep", "hide"},
              lost : BOOLEAN]

\* Request q is about comment c.
Concerns(q, c) ==
    \/ request[q].at \in {"editing", "hiding", "finding"} /\ request[q].of = c
    \/ request[q].at \in {"reporting", "resolving"} /\ request[q].row[1] = c

\* A moderator's request that has resolved a report and not yet hidden c.
Hiding(q, c) == request[q].at \in {"finding", "hiding"} /\ request[q].of = c

HideResolved(c) == \E u \in Reporter : report[<<c, u>>] = "hide"

CommentTypes ==
    /\ comment \in [Comment -> CommentRow \cup {Talk!Unwritten, Talk!Removed}]
    /\ report = [r \in Comment \X Reporter |-> report[r]]
    /\ request = [q \in Request |-> request[q]]
    /\ \A q \in Request :
         /\ request[q].at = "posting" =>
              request[q].parent \in Comment \cup {Talk!Top} /\ request[q].depth \in Nat
         /\ request[q].at \in {"editing", "hiding"} => request[q].copy \in CommentRow
         /\ request[q].at \in {"editing", "hiding", "finding"} => request[q].of \in Comment
         /\ request[q].at \in {"reporting", "resolving"} => request[q].row \in Comment \X Reporter
         /\ request[q].at = "resolving" => request[q] \in Resolving

\* Nothing is known of a comment that was never written.
UnwrittenUnknown ==
    \A c \in Comment : comment[c] = Talk!Unwritten =>
        /\ \A u \in Reporter : report[<<c, u>>] = "none"
        /\ \A q \in Request : ~Concerns(q, c)

\* A copy that was read hidden is of a comment that still is, or was overwritten.
HiddenCopies ==
    \A q \in Request :
        request[q].at \in {"editing", "hiding"} /\ request[q].copy.hidden =>
            \/ request[q].of \notin Talk!Existing \ overwritten
            \/ comment[request[q].of].hidden

\* Whoever is about to hide a comment has resolved a report of it.
HidingResolved ==
    \A q \in Request : \A c \in Talk!Existing \ overwritten : Hiding(q, c) => HideResolved(c)

CommentInv ==
    /\ CommentTypes /\ UnwrittenUnknown /\ HiddenCopies /\ HidingResolved
    /\ HiddenAsResolved

LEMMA CommentInit == UsersInit => CommentInv
<1> SUFFICES ASSUME UsersInit PROVE CommentInv
  OBVIOUS
<1>1. /\ comment = [c \in Comment |-> Talk!Unwritten]
      /\ report = [r \in Comment \X Reporter |-> "none"]
      /\ request = [q \in Request |-> Talk!NoRequest]
  BY DEF UsersInit, Talk!Init
<1>2. \A q \in Request : request[q].at = "none"
  BY <1>1 DEF Talk!NoRequest
<1>3. Talk!Existing = {}
  BY <1>1 DEF Talk!Existing, Talk!Unwritten
<1>4. CommentTypes
  BY <1>1, <1>2 DEF CommentTypes
<1> QED
  BY <1>1, <1>2, <1>3, <1>4 DEF CommentInv, UnwrittenUnknown, HiddenCopies, HidingResolved,
     HiddenAsResolved, Talk!HiddenAsResolved, Concerns, Hiding

\* What a request may come to that writes nothing.
ProperTalk(state) ==
    /\ state.at = "posting" => state.parent \in Comment \cup {Talk!Top} /\ state.depth \in Nat
    /\ state.at \in {"editing", "hiding"} =>
         /\ state.copy \in CommentRow
         /\ state.copy.hidden => \/ state.of \notin Talk!Existing \ overwritten
                                 \/ comment[state.of].hidden
    /\ state.at \in {"editing", "hiding", "finding"} =>
         state.of \in Comment /\ comment[state.of] # Talk!Unwritten
    /\ state.at \in {"reporting", "resolving"} =>
         state.row \in Comment \X Reporter /\ comment[state.row[1]] # Talk!Unwritten
    /\ state.at = "resolving" => state \in Resolving
    /\ state.at \in {"finding", "hiding"} /\ state.of \in Talk!Existing \ overwritten =>
         HideResolved(state.of)

LEMMA CommentOwnStep ==
  ASSUME CommentInv, NEW q \in Request, NEW state, ProperTalk(state),
         request' = [request EXCEPT ![q] = state],
         \A c \in Talk!Existing \ overwritten :
            Hiding(q, c) => state.at \in {"finding", "hiding"} /\ state.of = c,
         UNCHANGED <<comment, report, overwritten>>
  PROVE  CommentInv'
<1>1. /\ request' = [p \in Request |-> request'[p]]
      /\ \A p \in Request : request'[p] = IF p = q THEN state ELSE request[p]
  BY DEF CommentInv, CommentTypes
<1>2. Talk!Existing' = Talk!Existing /\ \A c \in Comment : HideResolved(c)' <=> HideResolved(c)
  BY DEF Talk!Existing, HideResolved
<1>3. CommentTypes'
  BY <1>1 DEF CommentInv, CommentTypes, ProperTalk
<1>4. UnwrittenUnknown'
  <2> SUFFICES ASSUME NEW c \in Comment, comment[c] = Talk!Unwritten, NEW p \in Request, Concerns(p, c)'
               PROVE  FALSE
    BY DEF CommentInv, UnwrittenUnknown
  <2>1. CASE p = q
    BY <1>1, <2>1 DEF ProperTalk, Concerns
  <2>2. CASE p # q
    BY <1>1, <2>2 DEF CommentInv, UnwrittenUnknown, Concerns
  <2> QED  BY <2>1, <2>2
<1>5. HiddenCopies'
  BY <1>1, <1>2 DEF CommentInv, HiddenCopies, ProperTalk
<1>6. HidingResolved'
  <2> SUFFICES ASSUME NEW p \in Request, NEW c \in Talk!Existing \ overwritten, Hiding(p, c)'
               PROVE  HideResolved(c)
    BY <1>2 DEF HidingResolved, Talk!Existing
  <2>1. CASE p = q
    BY <1>1, <2>1 DEF ProperTalk, Hiding
  <2>2. CASE p # q
    BY <1>1, <2>2 DEF CommentInv, HidingResolved, Hiding
  <2> QED  BY <2>1, <2>2
<1>7. HiddenAsResolved'
  <2> SUFFICES ASSUME NEW c \in Talk!Existing \ overwritten, ~\E p \in Request : Hiding(p, c)'
               PROVE  comment[c].hidden <=> HideResolved(c)
    BY <1>2 DEF HiddenAsResolved, Talk!HiddenAsResolved, Hiding, HideResolved
  <2>1. ~\E p \in Request : Hiding(p, c)
    BY <1>1 DEF Hiding
  <2> QED  BY <2>1 DEF CommentInv, HiddenAsResolved, Talk!HiddenAsResolved, Hiding, HideResolved
<1> QED  BY <1>3, <1>4, <1>5, <1>6, <1>7 DEF CommentInv

\* The requests that only read.
LEMMA CommentReads ==
  ASSUME CommentInv, NEW q \in Request,
         \/ \E parent \in Comment \cup {Talk!Top} : Talk!Post(q, parent)
         \/ \E c \in Comment : Talk!Edit(q, c)
         \/ \E c \in Comment, u \in Reporter : Talk!Report(q, c, u)
         \/ \E r \in Comment \X Reporter, answer \in {"keep", "hide"} : Talk!Resolve(q, r, answer)
         \/ Talk!FindComment(q)
  PROVE  CommentInv'
<1>1. \A c \in Talk!Existing : comment[c] \in CommentRow /\ comment[c] # Talk!Unwritten /\ c \in Comment
  BY DEF CommentInv, CommentTypes, Talk!Existing, Talk!Unwritten, Talk!Removed
<1>2. request[q] = Talk!NoRequest => \A c : ~Hiding(q, c)
  BY DEF Hiding, Talk!NoRequest
<1>3. ASSUME NEW parent \in Comment \cup {Talk!Top}, Talk!Post(q, parent) PROVE CommentInv'
  <2>1. ASSUME NEW depth \in Nat, Talk!Begin(q, [at |-> "posting", parent |-> parent, depth |-> depth])
        PROVE  CommentInv'
    <3> DEFINE state == [at |-> "posting", parent |-> parent, depth |-> depth]
    <3>1. request' = [request EXCEPT ![q] = state] /\ request[q] = Talk!NoRequest
      BY <2>1 DEF Talk!Begin, Talk!Go
    <3>2. ProperTalk(state)
      BY DEF ProperTalk
    <3> QED  BY <1>2, <1>3, <3>1, <3>2, CommentOwnStep DEF Talk!Post
  <2>2. parent \in Talk!Existing => comment[parent].depth + 1 \in Nat
    BY <1>1 DEF CommentRow
  <2> QED  BY <1>3, <2>1, <2>2 DEF Talk!Post
<1>4. ASSUME NEW c \in Comment, Talk!Edit(q, c) PROVE CommentInv'
  <2> DEFINE state == [at |-> "editing", of |-> c, copy |-> comment[c]]
  <2>1. /\ request' = [request EXCEPT ![q] = state] /\ request[q] = Talk!NoRequest
        /\ c \in Talk!Existing
    BY <1>4 DEF Talk!Edit, Talk!Begin, Talk!Go
  <2>2. ProperTalk(state)
    BY <1>1, <2>1 DEF ProperTalk
  <2> QED  BY <1>2, <1>4, <2>1, <2>2, CommentOwnStep DEF Talk!Edit
<1>5. ASSUME NEW c \in Comment, NEW u \in Reporter, Talk!Report(q, c, u) PROVE CommentInv'
  <2> DEFINE state == [at |-> "reporting", row |-> <<c, u>>]
  <2>1. /\ request' = [request EXCEPT ![q] = state] /\ request[q] = Talk!NoRequest
        /\ c \in Talk!Existing
    BY <1>5 DEF Talk!Report, Talk!Begin, Talk!Go
  <2>2. ProperTalk(state)
    BY <1>1, <2>1 DEF ProperTalk
  <2> QED  BY <1>2, <1>5, <2>1, <2>2, CommentOwnStep DEF Talk!Report
<1>6. ASSUME NEW r \in Comment \X Reporter, NEW answer \in {"keep", "hide"}, Talk!Resolve(q, r, answer)
      PROVE  CommentInv'
  <2> DEFINE state == [at |-> "resolving", row |-> r, was |-> "pending", answer |-> answer, lost |-> FALSE]
  <2>1. /\ request' = [request EXCEPT ![q] = state] /\ request[q] = Talk!NoRequest
        /\ report[r] = "pending"
    BY <1>6 DEF Talk!Resolve, Talk!Resolution, Talk!Begin, Talk!Go
  <2>2. comment[r[1]] # Talk!Unwritten
    BY <2>1 DEF CommentInv, UnwrittenUnknown
  <2>3. ProperTalk(state)
    BY <2>1, <2>2 DEF ProperTalk, Resolving
  <2> QED  BY <1>2, <1>6, <2>1, <2>3, CommentOwnStep DEF Talk!Resolve
<1>7. CASE Talk!FindComment(q)
  <2> DEFINE c == request[q].of
             state == IF c \in Talk!Existing THEN [at |-> "hiding", of |-> c, copy |-> comment[c]]
                                             ELSE Talk!NoRequest
  <2>1. /\ request' = [request EXCEPT ![q] = state] /\ request[q].at = "finding" /\ c \in Comment
        /\ Hiding(q, c) /\ \A d \in Talk!Existing : Hiding(q, d) => d = c
    BY <1>7 DEF Talk!FindComment, Talk!Go, CommentInv, CommentTypes, Hiding
  <2>2. c \in Talk!Existing \ overwritten => HideResolved(c)
    BY <2>1 DEF CommentInv, HidingResolved
  <2>3. CASE c \in Talk!Existing
    <3>1. state = [at |-> "hiding", of |-> c, copy |-> comment[c]]
      BY <2>3
    <3>2. ProperTalk(state)
      BY <1>1, <2>2, <2>3, <3>1 DEF ProperTalk
    <3> QED  BY <1>7, <2>1, <3>1, <3>2, CommentOwnStep DEF Talk!FindComment
  <2>4. CASE c \notin Talk!Existing
    <3>1. state.at = "none"
      BY <2>4 DEF Talk!NoRequest
    <3>2. ProperTalk(state)
      BY <3>1 DEF ProperTalk
    <3> QED  BY <1>7, <2>1, <2>4, <3>2, CommentOwnStep DEF Talk!FindComment
  <2> QED  BY <2>3, <2>4
<1> QED  BY <1>3, <1>4, <1>5, <1>6, <1>7

\* A row is saved as a request copied it; c joins overwritten when that parts flag
\* and reports.
LEMMA CommentSaves ==
  ASSUME CommentInv, NEW q \in Request,
         Talk!SaveEdit(q) \/ Talk!HideComment(q)
  PROVE  CommentInv'
<1> DEFINE c == request[q].of
           row == IF request[q].at = "editing" THEN request[q].copy
                                               ELSE [request[q].copy EXCEPT !.hidden = TRUE]
<1>1. /\ request[q].at \in {"editing", "hiding"} /\ Talk!SaveCopy(c, row)
      /\ request' = [request EXCEPT ![q] = Talk!NoRequest] /\ report' = report
  BY DEF Talk!SaveEdit, Talk!HideComment, Talk!Go
<1>2. /\ c \in Comment /\ comment[c] # Talk!Unwritten /\ row \in CommentRow
      /\ request[q].at = "editing" /\ row.hidden => c \notin Talk!Existing \ overwritten \/ comment[c].hidden
      /\ request[q].at = "hiding" => /\ row.hidden
                                     /\ c \in Talk!Existing \ overwritten => HideResolved(c)
  <2>1. /\ c \in Comment /\ request[q].copy \in CommentRow
        /\ request[q].copy.hidden => c \notin Talk!Existing \ overwritten \/ comment[c].hidden
    BY <1>1 DEF CommentInv, CommentTypes, HiddenCopies
  <2>2. comment[c] # Talk!Unwritten
    BY <1>1, <2>1 DEF CommentInv, UnwrittenUnknown, Concerns
  <2>3. request[q].at = "hiding" /\ c \in Talk!Existing \ overwritten => HideResolved(c)
    BY <2>1 DEF CommentInv, HidingResolved, Hiding
  <2>4. row \in CommentRow /\ (request[q].at = "hiding" => row.hidden)
    BY <1>1, <2>1 DEF CommentRow
  <2> QED  BY <2>1, <2>2, <2>3, <2>4
<1> HIDE DEF row
<1>3. /\ row # Talk!Unwritten /\ row.is = "row"
      /\ comment' = [d \in Comment |-> IF d = c THEN row ELSE comment[d]]
  <2>1. row # Talk!Unwritten /\ row.is = "row"
    BY <1>2 DEF CommentRow, Talk!Unwritten
  <2>2. comment = [d \in Comment |-> comment[d]] /\ comment' = [comment EXCEPT ![c] = row]
    BY <1>1 DEF Talk!SaveCopy, CommentInv, CommentTypes
  <2> QED  BY <1>2, <2>1, <2>2
<1>4. /\ request' = [p \in Request |-> request'[p]]
      /\ \A p \in Request : request'[p] = IF p = q THEN Talk!NoRequest ELSE request[p]
      /\ Talk!NoRequest.at = "none"
  BY <1>1 DEF CommentInv, CommentTypes, Talk!NoRequest
<1>5. Talk!Existing' = Talk!Existing \cup {c} /\ \A d : HideResolved(d)' <=> HideResolved(d)
  BY <1>1, <1>2, <1>3 DEF Talk!Existing, HideResolved
<1>6. overwritten \subseteq overwritten' /\ (c \notin Talk!Existing => c \in overwritten')
  BY <1>1 DEF Talk!SaveCopy
<1>7. c \in Talk!Existing \ overwritten' => (comment[c].hidden => row.hidden)
  BY <1>1 DEF Talk!SaveCopy
<1>8. Talk!Existing' \ overwritten' \subseteq Talk!Existing \ overwritten
  BY <1>5, <1>6
<1>9. CommentTypes'
  BY <1>1, <1>2, <1>3, <1>4 DEF CommentInv, CommentTypes
<1>10. UnwrittenUnknown'
  BY <1>1, <1>3, <1>4 DEF CommentInv, UnwrittenUnknown, Concerns
<1>11. HiddenCopies'
  <2> SUFFICES ASSUME NEW p \in Request, request'[p].at \in {"editing", "hiding"}, request'[p].copy.hidden,
                      request'[p].of \in Talk!Existing' \ overwritten'
               PROVE  comment'[request'[p].of].hidden
    BY DEF HiddenCopies
  <2>1. p # q /\ request'[p] = request[p]
    BY <1>4
  <2>2. request[p].of \in Talk!Existing \ overwritten /\ request[p].of \in Comment
    BY <1>8, <2>1 DEF Talk!Existing
  <2>3. comment[request[p].of].hidden
    BY <2>1, <2>2 DEF CommentInv, HiddenCopies
  <2>4. CASE request[p].of = c
    BY <1>3, <1>7, <1>8, <2>1, <2>2, <2>3, <2>4
  <2>5. CASE request[p].of # c
    BY <1>3, <2>1, <2>2, <2>3, <2>5
  <2> QED  BY <2>4, <2>5
<1>12. HidingResolved'
  BY <1>4, <1>5, <1>8 DEF CommentInv, HidingResolved, Hiding
<1>13. HiddenAsResolved'
  <2> SUFFICES ASSUME NEW d \in Talk!Existing' \ overwritten', ~\E p \in Request : Hiding(p, d)'
               PROVE  comment'[d].hidden <=> HideResolved(d)
    BY <1>5 DEF HiddenAsResolved, Talk!HiddenAsResolved, Hiding, HideResolved
  <2>1. d \in Talk!Existing \ overwritten /\ d \in Comment
    BY <1>8 DEF Talk!Existing
  <2>2. (\E p \in Request : Hiding(p, d)) \/ (comment[d].hidden <=> HideResolved(d))
    BY <2>1 DEF CommentInv, HiddenAsResolved, Talk!HiddenAsResolved, Hiding, HideResolved
  <2>3. \A p \in Request : Hiding(p, d) => p = q
    BY <1>4 DEF Hiding
  <2>4. CASE d # c
    <3>1. ~Hiding(q, d) /\ comment'[d] = comment[d]
      BY <1>3, <2>1, <2>4 DEF Hiding
    <3> QED  BY <2>2, <2>3, <3>1
  <2>5. CASE d = c /\ request[q].at = "editing"
    <3>1. ~Hiding(q, d) /\ comment'[d] = row
      BY <1>3, <2>1, <2>5 DEF Hiding
    <3>2. row.hidden <=> comment[c].hidden
      BY <1>2, <1>7, <2>1, <2>5
    <3> QED  BY <2>2, <2>3, <2>5, <3>1, <3>2
  <2>6. CASE d = c /\ request[q].at = "hiding"
    BY <1>2, <1>3, <2>1, <2>6
  <2> QED  BY <1>1, <2>4, <2>5, <2>6
<1> QED  BY <1>9, <1>10, <1>11, <1>12, <1>13 DEF CommentInv

LEMMA CommentInserted ==
  ASSUME CommentInv, NEW q \in Request, Talk!InsertComment(q)
  PROVE  CommentInv'
<1>1. PICK c \in Comment : /\ comment[c] = Talk!Unwritten
         /\ comment' = [comment EXCEPT ![c] = [is |-> "row", parent |-> request[q].parent,
                                               depth |-> request[q].depth, hidden |-> FALSE]]
  BY DEF Talk!InsertComment
<1> DEFINE row == [is |-> "row", parent |-> request[q].parent, depth |-> request[q].depth, hidden |-> FALSE]
<1>2. /\ request[q].at = "posting" /\ request' = [request EXCEPT ![q] = Talk!NoRequest]
      /\ report' = report /\ overwritten' = overwritten
  BY DEF Talk!InsertComment, Talk!Go
<1>3. row \in CommentRow /\ row # Talk!Unwritten /\ row.is = "row" /\ ~row.hidden
  BY <1>2 DEF CommentInv, CommentTypes, CommentRow, Talk!Unwritten
<1> HIDE DEF row
<1>4. comment' = [d \in Comment |-> IF d = c THEN row ELSE comment[d]]
  BY <1>1 DEF CommentInv, CommentTypes, row
<1>5. /\ request' = [p \in Request |-> request'[p]]
      /\ \A p \in Request : request'[p] = IF p = q THEN Talk!NoRequest ELSE request[p]
      /\ Talk!NoRequest.at = "none"
  BY <1>2 DEF CommentInv, CommentTypes, Talk!NoRequest
<1>6. Talk!Existing' = Talk!Existing \cup {c} /\ \A d : HideResolved(d)' <=> HideResolved(d)
  BY <1>2, <1>3, <1>4 DEF Talk!Existing, HideResolved
<1>7. c \notin Talk!Existing /\ \A p \in Request : ~Concerns(p, c)
  BY <1>1 DEF CommentInv, UnwrittenUnknown, Talk!Existing, Talk!Unwritten
<1>8. ~HideResolved(c)
  BY <1>1 DEF CommentInv, UnwrittenUnknown, HideResolved
<1>9. CommentTypes'
  BY <1>2, <1>3, <1>4, <1>5 DEF CommentInv, CommentTypes
<1>10. UnwrittenUnknown'
  BY <1>2, <1>3, <1>4, <1>5 DEF CommentInv, UnwrittenUnknown, Concerns
<1>11. HiddenCopies'
  <2> SUFFICES ASSUME NEW p \in Request, request'[p].at \in {"editing", "hiding"}, request'[p].copy.hidden,
                      request'[p].of \in Talk!Existing' \ overwritten'
               PROVE  comment'[request'[p].of].hidden
    BY DEF HiddenCopies
  <2>1. p # q /\ request'[p] = request[p] /\ request[p].of # c
    BY <1>5, <1>7 DEF Concerns
  <2>2. request[p].of \in Talk!Existing \ overwritten /\ request[p].of \in Comment
    BY <1>2, <1>6, <2>1 DEF Talk!Existing
  <2> QED  BY <1>4, <2>1, <2>2 DEF CommentInv, HiddenCopies
<1>12. HidingResolved'
  <2> SUFFICES ASSUME NEW p \in Request, NEW d \in Talk!Existing' \ overwritten', Hiding(p, d)'
               PROVE  HideResolved(d)
    BY <1>6 DEF HidingResolved
  <2>1. Hiding(p, d)
    BY <1>5 DEF Hiding
  <2>2. d # c
    BY <1>7, <2>1 DEF Hiding, Concerns
  <2> QED  BY <1>2, <1>6, <2>1, <2>2 DEF CommentInv, HidingResolved
<1>13. HiddenAsResolved'
  <2> SUFFICES ASSUME NEW d \in Talk!Existing' \ overwritten', ~\E p \in Request : Hiding(p, d)'
               PROVE  comment'[d].hidden <=> HideResolved(d)
    BY <1>6 DEF HiddenAsResolved, Talk!HiddenAsResolved, Hiding, HideResolved
  <2>1. ~\E p \in Request : Hiding(p, d)
    BY <1>2, <1>5 DEF Hiding
  <2>2. CASE d = c
    BY <1>3, <1>4, <1>8, <2>2
  <2>3. CASE d # c
    <3>1. d \in Talk!Existing \ overwritten /\ comment'[d] = comment[d]
      BY <1>2, <1>4, <1>6, <2>3 DEF Talk!Existing
    <3> QED  BY <2>1, <3>1 DEF CommentInv, HiddenAsResolved, Talk!HiddenAsResolved, Hiding, HideResolved
  <2> QED  BY <2>2, <2>3
<1> QED  BY <1>9, <1>10, <1>11, <1>12, <1>13 DEF CommentInv

\* c goes with its thread.
LEMMA CommentDeleted ==
  ASSUME CommentInv, NEW c \in Comment, Talk!Delete(c)
  PROVE  CommentInv'
<1> DEFINE gone == Talk!Thread(c)
<1>1. /\ comment' = [d \in Comment |-> IF d \in gone THEN Talk!Removed ELSE comment[d]]
      /\ report' = [r \in Comment \X Reporter |-> IF r[1] \in gone THEN "none" ELSE report[r]]
      /\ request' = [p \in Request |->
           IF request[p].at = "resolving" /\ request[p].row[1] \in gone
           THEN [request[p] EXCEPT !.lost = TRUE] ELSE request[p]]
      /\ overwritten' = overwritten
  BY DEF Talk!Delete
<1> HIDE DEF gone
<1>2. \A p \in Request : /\ request[p].at # "resolving" => request'[p] = request[p]
                         /\ request[p].at = "resolving" => /\ request'[p] \in Resolving
                                                           /\ request'[p].row = request[p].row
  <2> SUFFICES ASSUME NEW p \in Request, request[p].at = "resolving"
               PROVE  request'[p] \in Resolving /\ request'[p].row = request[p].row
    BY <1>1
  <2>1. request'[p] = request[p] \/ request'[p] = [request[p] EXCEPT !.lost = TRUE]
    BY <1>1
  <2>2. request[p] \in Resolving
    BY DEF CommentInv, CommentTypes
  <2> QED  BY <2>1, <2>2 DEF Resolving
<1>3. Talk!Existing' = Talk!Existing \ gone /\ Talk!Removed # Talk!Unwritten
  BY <1>1 DEF Talk!Existing, Talk!Removed, Talk!Unwritten
<1>4. \A d \in Comment \ gone : comment'[d] = comment[d] /\ (HideResolved(d)' <=> HideResolved(d))
  BY <1>1 DEF HideResolved
<1>5. \A p \in Request : \A d : (Hiding(p, d)' <=> Hiding(p, d)) /\ (Concerns(p, d)' <=> Concerns(p, d))
  BY <1>2 DEF Hiding, Concerns, Resolving
<1>6. CommentTypes'
  <2>1. comment' \in [Comment -> CommentRow \cup {Talk!Unwritten, Talk!Removed}]
    BY <1>1 DEF CommentInv, CommentTypes
  <2>2. report' = [r \in Comment \X Reporter |-> report'[r]] /\ request' = [p \in Request |-> request'[p]]
    BY <1>1
  <2>3. \A p \in Request : request'[p].at = request[p].at
    BY <1>2 DEF Resolving
  <2> QED  BY <1>2, <2>1, <2>2, <2>3 DEF CommentInv, CommentTypes
<1>7. UnwrittenUnknown'
  BY <1>1, <1>3, <1>5 DEF CommentInv, UnwrittenUnknown
<1>8. HiddenCopies'
  BY <1>1, <1>2, <1>3, <1>4 DEF CommentInv, HiddenCopies, Talk!Existing, Resolving
<1>9. HidingResolved'
  BY <1>1, <1>3, <1>4, <1>5 DEF CommentInv, HidingResolved, Talk!Existing
<1>10. HiddenAsResolved'
  <2> SUFFICES ASSUME NEW d \in Talk!Existing' \ overwritten', ~\E p \in Request : Hiding(p, d)'
               PROVE  comment'[d].hidden <=> HideResolved(d)'
    BY DEF HiddenAsResolved, Talk!HiddenAsResolved, Hiding, HideResolved
  <2>1. d \in Talk!Existing \ overwritten /\ d \in Comment \ gone /\ ~\E p \in Request : Hiding(p, d)
    BY <1>1, <1>3, <1>5 DEF Talk!Existing
  <2>2. comment[d].hidden <=> HideResolved(d)
    BY <2>1 DEF CommentInv, HiddenAsResolved, Talk!HiddenAsResolved, Hiding, HideResolved
  <2> QED  BY <1>4, <2>1, <2>2
<1> QED  BY <1>6, <1>7, <1>8, <1>9, <1>10 DEF CommentInv

\* A report is inserted, or saved with its resolution.
LEMMA CommentReported ==
  ASSUME CommentInv, NEW q \in Request, Talk!InsertReport(q) \/ Talk!SaveResolution(q)
  PROVE  CommentInv'
<1>a. request[q].at \in {"reporting", "resolving"} /\ request[q].row \in Comment \X Reporter
  BY DEF Talk!InsertReport, Talk!SaveResolution, CommentInv, CommentTypes, Resolving
<1>b. PICK c \in Comment, v \in Reporter : request[q].row = <<c, v>>
  BY <1>a
<1> DEFINE r == <<c, v>>
<1>1. /\ comment' = comment /\ overwritten \subseteq overwritten'
  BY DEF Talk!InsertReport, Talk!SaveResolution
<1>2. PICK status, next :
        /\ report' = [report EXCEPT ![r] = status] /\ request' = [request EXCEPT ![q] = next]
        /\ \/ status = "hide" /\ next = [at |-> "finding", of |-> c]
           \/ /\ status # "hide" /\ next = Talk!NoRequest
              /\ report[r] = "hide" => c \in overwritten'
  <2>1. CASE Talk!InsertReport(q)
    BY <1>b, <2>1 DEF Talk!InsertReport, Talk!Go
  <2>2. CASE Talk!SaveResolution(q)
    <3>1. request[q].was = "pending" /\ request[q].answer \in {"keep", "hide"}
      BY <2>2 DEF Talk!SaveResolution, CommentInv, CommentTypes, Resolving
    <3>2. /\ report' = [report EXCEPT ![r] = request[q].answer]
          /\ request' = [request EXCEPT ![q] = IF request[q].answer = "hide"
                                               THEN [at |-> "finding", of |-> c] ELSE Talk!NoRequest]
          /\ report[r] = "hide" /\ request[q].answer = "keep" => c \in overwritten'
      BY <1>b, <2>2, <3>1 DEF Talk!SaveResolution, Talk!Go
    <3> QED  BY <3>1, <3>2
  <2> QED  BY <2>1, <2>2
<1>3. /\ request' = [p \in Request |-> request'[p]]
      /\ \A p \in Request : request'[p] = IF p = q THEN next ELSE request[p]
      /\ next.at \in {"none", "finding"} /\ (next.at = "finding" => next.of = c /\ status = "hide")
  BY <1>2 DEF CommentInv, CommentTypes, Talk!NoRequest
<1>4. /\ report' = [s \in Comment \X Reporter |-> report'[s]]
      /\ report'[<<c, v>>] = status
      /\ \A d \in Comment, u \in Reporter :
           d # c \/ u # v => report'[<<d, u>>] = report[<<d, u>>]
  <2>1. report = [s \in Comment \X Reporter |-> report[s]]
    BY DEF CommentInv, CommentTypes
  <2>2. \A s \in Comment \X Reporter : report'[s] = IF s = r THEN status ELSE report[s]
    BY <1>2, <2>1
  <2>3. report' = [s \in Comment \X Reporter |-> report'[s]]
    BY <1>2, <2>1
  <2> QED  BY <2>2, <2>3
<1>5. comment[c] # Talk!Unwritten
  <2>1. request[q].row[1] = c
    BY <1>b
  <2> QED  BY <1>a, <2>1 DEF CommentInv, UnwrittenUnknown, Concerns
<1>6. Talk!Existing' = Talk!Existing
  BY <1>1 DEF Talk!Existing
<1>7. \A d \in Comment : d # c => (HideResolved(d)' <=> HideResolved(d))
  BY <1>4 DEF HideResolved
<1>8. next.at = "finding" => HideResolved(c)'
  BY <1>3, <1>4 DEF HideResolved
<1>9. next.at = "none" /\ c \notin overwritten' => (HideResolved(c)' <=> HideResolved(c))
  <2> HAVE next.at = "none" /\ c \notin overwritten'
  <2>1. status # "hide" /\ report[r] # "hide"
    BY <1>2
  <2> QED  BY <1>4, <2>1 DEF HideResolved
<1>10. CommentTypes'
  BY <1>1, <1>3, <1>4, <1>5 DEF CommentInv, CommentTypes
<1>11. UnwrittenUnknown'
  <2> SUFFICES ASSUME NEW d \in Comment, comment[d] = Talk!Unwritten
               PROVE  /\ \A u \in Reporter : report'[<<d, u>>] = "none"
                      /\ \A p \in Request : ~Concerns(p, d)'
    BY <1>1 DEF UnwrittenUnknown
  <2>1. d # c /\ \A p \in Request : ~Concerns(p, d)
    BY <1>5 DEF CommentInv, UnwrittenUnknown
  <2>2. \A u \in Reporter : report'[<<d, u>>] = "none"
    BY <1>4, <1>5, <2>1 DEF CommentInv, UnwrittenUnknown
  <2>3. \A p \in Request : ~Concerns(p, d)'
    BY <1>3, <2>1 DEF Concerns
  <2> QED  BY <2>2, <2>3
<1>12. HiddenCopies'
  BY <1>1, <1>3, <1>6 DEF CommentInv, HiddenCopies
<1>13. HidingResolved'
  <2> SUFFICES ASSUME NEW p \in Request, NEW d \in Talk!Existing \ overwritten', Hiding(p, d)'
               PROVE  HideResolved(d)'
    BY <1>6 DEF HidingResolved
  <2>1. d \in Comment /\ d \notin overwritten
    BY <1>1 DEF Talk!Existing
  <2>2. CASE p = q
    BY <1>3, <1>8, <2>2 DEF Hiding
  <2>3. CASE p # q
    <3>1. Hiding(p, d)
      BY <1>3, <2>3 DEF Hiding
    <3>2. HideResolved(d)
      BY <2>1, <3>1 DEF CommentInv, HidingResolved
    <3> QED  BY <1>3, <1>7, <1>8, <1>9, <2>1, <3>2
  <2> QED  BY <2>2, <2>3
<1>14. HiddenAsResolved'
  <2> SUFFICES ASSUME NEW d \in Talk!Existing \ overwritten', ~\E p \in Request : Hiding(p, d)'
               PROVE  comment[d].hidden <=> HideResolved(d)'
    BY <1>1, <1>6 DEF HiddenAsResolved, Talk!HiddenAsResolved, Hiding, HideResolved
  <2>1. d \in Talk!Existing \ overwritten /\ d \in Comment
    BY <1>1 DEF Talk!Existing
  <2>2. ~\E p \in Request : Hiding(p, d)
    BY <1>a, <1>3 DEF Hiding
  <2>3. comment[d].hidden <=> HideResolved(d)
    BY <2>1, <2>2 DEF CommentInv, HiddenAsResolved, Talk!HiddenAsResolved, Hiding, HideResolved
  <2>4. d = c => next.at = "none"
    BY <1>3 DEF Hiding
  <2> QED  BY <1>7, <1>9, <2>1, <2>3, <2>4
<1> QED  BY <1>10, <1>11, <1>12, <1>13, <1>14 DEF CommentInv

LEMMA CommentFails ==
  ASSUME CommentInv, NEW q \in Request, Talk!Fail(q)
  PROVE  CommentInv'
<1>1. /\ request' = [p \in Request |-> request'[p]]
      /\ \A p \in Request : request'[p] = IF p = q THEN Talk!NoRequest ELSE request[p]
      /\ Talk!NoRequest.at = "none" /\ comment' = comment /\ report' = report
      /\ overwritten \subseteq overwritten' /\ \A c : Hiding(q, c) => c \in overwritten'
  BY DEF CommentInv, CommentTypes, Talk!NoRequest, Talk!Fail, Talk!Go, Hiding
<1>2. Talk!Existing' = Talk!Existing /\ \A c : HideResolved(c)' <=> HideResolved(c)
  BY <1>1 DEF Talk!Existing, HideResolved
<1>3. CommentTypes'
  BY <1>1 DEF CommentInv, CommentTypes
<1>6. UnwrittenUnknown'
  BY <1>1 DEF CommentInv, UnwrittenUnknown, Concerns
<1>4. HiddenCopies' /\ HidingResolved'
  BY <1>1, <1>2 DEF CommentInv, HiddenCopies, HidingResolved, Hiding
<1>5. HiddenAsResolved'
  <2> SUFFICES ASSUME NEW c \in Talk!Existing \ overwritten', ~\E p \in Request : Hiding(p, c)'
               PROVE  comment[c].hidden <=> HideResolved(c)
    BY <1>1, <1>2 DEF HiddenAsResolved, Talk!HiddenAsResolved, Hiding, HideResolved
  <2>1. c \in Talk!Existing \ overwritten /\ ~\E p \in Request : Hiding(p, c)
    BY <1>1 DEF Hiding
  <2> QED  BY <2>1 DEF CommentInv, HiddenAsResolved, Talk!HiddenAsResolved, Hiding, HideResolved
<1> QED  BY <1>3, <1>4, <1>5, <1>6 DEF CommentInv

LEMMA CommentStutter == CommentInv /\ UNCHANGED <<comment, report, request, overwritten>> => CommentInv'
<1> SUFFICES ASSUME CommentInv, UNCHANGED <<comment, report, request, overwritten>> PROVE CommentInv'
  OBVIOUS
<1>1. Talk!Existing' = Talk!Existing
  BY DEF Talk!Existing
<1>2. CommentTypes' /\ UnwrittenUnknown'
  BY DEF CommentInv, CommentTypes, UnwrittenUnknown, Concerns
<1>3. HiddenCopies' /\ HidingResolved'
  BY <1>1 DEF CommentInv, HiddenCopies, HidingResolved, Hiding, HideResolved
<1>4. HiddenAsResolved'
  BY <1>1 DEF CommentInv, HiddenAsResolved, Talk!HiddenAsResolved
<1> QED  BY <1>2, <1>3, <1>4 DEF CommentInv

\* Listings skip a comment exactly when a report of it was resolved by hiding it, but
\* for the overlaps HiddenAsResolved names (CommentService, CommentReportService).
THEOREM CommentsAreHiddenAsResolved == UsersSpec => []HiddenAsResolved
<1>1. CommentInv => HiddenAsResolved
  BY DEF CommentInv
<1>2. ASSUME CommentInv, Talk!Next PROVE CommentInv'
  <2>1. ASSUME NEW c \in Comment, Talk!Age(c) PROVE CommentInv'
    BY <1>2, <2>1, CommentStutter DEF Talk!Age
  <2> QED
    BY <1>2, <2>1, CommentReads, CommentSaves, CommentInserted, CommentDeleted, CommentReported,
       CommentFails DEF Talk!Next
<1>3. CommentInv /\ [UsersNext]_<<part, rowVars, subVars, commentVars, shareVars, uploadVars, accessVars,
                                limiterVars, breakerVars>> => CommentInv'
  BY <1>2, CommentStutter DEF UsersNext, commentVars
<1> QED  BY <1>1, <1>3, CommentInit, PTL DEF UsersSpec
----------------------------------------------------------------------------
(* Subscriptions *)

LEMMA NewestAndOldest ==
  ASSUME NEW S, S \subseteq Subs!Row, S # {}
  PROVE  Subs!Newest(S) \in S /\ Subs!Oldest(S) \in S
<1>1. MaxSubs \in Nat /\ S \subseteq Nat /\ \A r \in S : r <= MaxSubs
  BY UsersAssumption DEF Subs!Row
<1>2. ASSUME NEW T, T \subseteq Nat, T # {} PROVE \E t \in T : \A s \in T : ~(s < t)
  <2>1. PICK t \in T : \A s \in T : ~(<<s, t>> \in OpToRel(<, Nat))
    BY <1>2, NatLessThanWellFounded, WFMin, Zenon
  <2> QED  BY <1>2, <2>1 DEF OpToRel
<1>3. Subs!Oldest(S) \in S
  <2>1. PICK t \in S : \A s \in S : ~(s < t)
    BY <1>1, <1>2
  <2>2. \A s \in S : s >= t
    BY <1>1, <2>1
  <2> QED  BY <2>2 DEF Subs!Oldest
<1>4. Subs!Newest(S) \in S
  <2> DEFINE T == {MaxSubs - r : r \in S}
  <2>1. T \subseteq Nat /\ T # {}
    <3>1. \A r \in S : MaxSubs - r \in Nat
      BY <1>1
    <3> QED  BY <3>1
  <2>2. PICK t \in T : \A s \in T : ~(s < t)
    BY <1>2, <2>1
  <2>3. PICK m \in S : t = MaxSubs - m
    OBVIOUS
  <2>4. \A r \in S : r <= m
    <3> SUFFICES ASSUME NEW r \in S PROVE r <= m
      OBVIOUS
    <3>1. MaxSubs - r \in T /\ ~(MaxSubs - r < MaxSubs - m)
      BY <2>2, <2>3
    <3> QED  BY <1>1, <3>1
  <2> QED  BY <2>4 DEF Subs!Newest
<1> QED  BY <1>3, <1>4

\* A row of subscriptions, with whatever dates.
IsSub(row) == /\ row = [status |-> row.status, end |-> row.end, trial |-> row.trial]
              /\ row.status \in {"active", "cancelled", "expired"}

\* A request keeps the row it read.
IsCall(k) ==
    \/ k.at \in {"none", "choosing", "answering"}
    \/ /\ k.at \in {"expiring", "finalising"}
       /\ k = [at |-> k.at, op |-> k.op, of |-> k.of, copy |-> k.copy, stale |-> k.stale]
       /\ k.op \in {"look", "upgrade", "trial", "cancel"} /\ k.of \in Subs!Row /\ IsSub(k.copy)
       /\ k.copy.status = IF k.at = "expiring" THEN "expired" ELSE "active"
    \/ /\ k.at = "saving" /\ k = [at |-> k.at, of |-> k.of, copy |-> k.copy, stale |-> k.stale]
       /\ k.of \in Subs!Row /\ IsSub(k.copy)
    \/ /\ k.at = "creating" /\ k = [at |-> k.at, copy |-> k.copy, stale |-> k.stale]
       /\ IsSub(k.copy)
    \/ /\ k.at = "granting"
       /\ k = [at |-> k.at, gift |-> k.gift, of |-> k.of, copy |-> k.copy, stale |-> k.stale]
       /\ k.of \in Subs!Row /\ IsSub(k.copy)
    \/ /\ k.at = "granting new"
       /\ k = [at |-> k.at, gift |-> k.gift, copy |-> k.copy, stale |-> k.stale]
       /\ IsSub(k.copy)

\* What a request knows of the active rows as long as no other has written: it will
\* write one of them, or at most `extra' are there.
Knows(k, active, extra) ==
    /\ k.at \in {"expiring", "finalising", "saving"} /\ ~k.stale => k.of \in active
    /\ k.at \in {"creating", "granting new"} /\ ~k.stale => Cardinality(active) <= extra
    /\ k.at = "granting" /\ ~k.stale => k.of \in active \/ Cardinality(active) <= extra

SubInv ==
    /\ sub = [r \in Subs!Row |-> sub[r]]
    /\ \A r \in Subs!Row : sub[r] = Subs!NoRow \/ IsSub(sub[r])
    /\ call = [c \in Caller |-> call[c]]
    /\ crossed \in Nat /\ revived \in Nat
    /\ \A c \in Caller : IsCall(call[c]) /\ Knows(call[c], Subs!Active, crossed + revived)
    /\ OneActiveSubscription

LEMMA SubsCardinality == \A S : Subs!Cardinality(S) = Cardinality(S)
  BY DEF Subs!Cardinality, Cardinality

LEMMA ActiveFinite == IsFiniteSet(Subs!Active) /\ Cardinality(Subs!Active) \in Nat
<1>1. IsFiniteSet(Subs!Row)
  BY UsersAssumption, FS_Interval DEF Subs!Row
<1>2. Subs!Active \subseteq Subs!Row
  BY DEF Subs!Active
<1> QED  BY <1>1, <1>2, FS_Subset, FS_CardinalityType

LEMMA SubInit == UsersInit => SubInv
<1> SUFFICES ASSUME UsersInit PROVE SubInv
  OBVIOUS
<1>1. /\ sub = [r \in Subs!Row |-> Subs!NoRow] /\ call = [c \in Caller |-> Subs!Ended]
      /\ crossed = 0 /\ revived = 0
  BY DEF UsersInit, Subs!Init
<1>2. \A c \in Caller : call[c].at = "none"
  BY <1>1 DEF Subs!Ended
<1>3. Subs!Active = {}
  BY <1>1 DEF Subs!Active, Subs!NoRow
<1>4. Cardinality(Subs!Active) = 0
  BY <1>3, FS_EmptySet
<1>5. OneActiveSubscription
  BY <1>1, <1>4, SubsCardinality DEF OneActiveSubscription, Subs!OneActiveSubscription
<1> QED  BY <1>1, <1>2, <1>5 DEF SubInv, IsCall, Knows

\* Request c goes on without writing a row.
LEMMA SubOwnStep ==
  ASSUME SubInv, NEW c \in Caller, NEW next, IsCall(next),
         call' = [call EXCEPT ![c] = next],
         Knows(next, Subs!Active, crossed + revived'),
         revived' \in Nat, revived' >= revived, UNCHANGED <<sub, crossed>>
  PROVE  SubInv'
<1>1. /\ call' = [d \in Caller |-> call'[d]]
      /\ \A d \in Caller : call'[d] = IF d = c THEN next ELSE call[d]
  BY DEF SubInv
<1>2. Subs!Active' = Subs!Active
  BY DEF Subs!Active
<1>3. /\ crossed \in Nat /\ revived \in Nat /\ Cardinality(Subs!Active) \in Nat
      /\ \A d \in Caller : IsCall(call[d]) /\ Knows(call[d], Subs!Active, crossed + revived)
  BY ActiveFinite DEF SubInv
<1>4. \A d \in Caller : IsCall(call'[d]) /\ Knows(call'[d], Subs!Active, crossed + revived')
  <2> SUFFICES ASSUME NEW d \in Caller
               PROVE  IsCall(call'[d]) /\ Knows(call'[d], Subs!Active, crossed + revived')
    OBVIOUS
  <2>1. CASE d = c
    BY <1>1, <2>1
  <2>2. CASE d # c
    <3>1. call'[d] = call[d] /\ IsCall(call[d]) /\ Knows(call[d], Subs!Active, crossed + revived)
      BY <1>1, <1>3, <2>2
    <3>2. Cardinality(Subs!Active) <= crossed + revived => Cardinality(Subs!Active) <= crossed + revived'
      BY <1>3
    <3> QED  BY <3>1, <3>2 DEF Knows
  <2> QED  BY <2>1, <2>2
<1>5. OneActiveSubscription'
  <2>1. Cardinality(Subs!Active) <= 1 + crossed + revived
    BY SubsCardinality DEF SubInv, OneActiveSubscription, Subs!OneActiveSubscription
  <2>2. Cardinality(Subs!Active) <= 1 + crossed + revived'
    BY <1>3, <2>1
  <2> QED  BY <1>2, <2>2, SubsCardinality DEF OneActiveSubscription, Subs!OneActiveSubscription
<1> QED  BY <1>1, <1>2, <1>3, <1>4, <1>5 DEF SubInv

\* Request c writes row r: one of the active rows, an inactive one, or a new active
\* one while there is room, or it counts as crossed.
LEMMA SubWriteStep ==
  ASSUME SubInv, NEW c \in Caller, NEW r \in Subs!Row, NEW row, IsSub(row), NEW next,
         Subs!Write(c, r, row, next), revived' = revived, IsCall(next),
         ~call[c].stale => \/ r \in Subs!Active \/ row.status # "active"
                           \/ Cardinality(Subs!Active) <= crossed + revived,
         Knows(next, Subs!Active', crossed' + revived)
  PROVE  SubInv'
<1>1. /\ sub' = [s \in Subs!Row |-> IF s = r THEN row ELSE sub[s]]
      /\ \A s \in Subs!Row : sub'[s] = Subs!NoRow \/ IsSub(sub'[s])
      /\ sub' = [s \in Subs!Row |-> sub'[s]]
  BY DEF SubInv, Subs!Write
<1>2. Subs!Active' = IF row.status = "active" THEN Subs!Active \cup {r} ELSE Subs!Active \ {r}
  BY <1>1 DEF Subs!Active
<1>3. /\ crossed \in Nat /\ revived \in Nat /\ Cardinality(Subs!Active) \in Nat /\ IsFiniteSet(Subs!Active)
      /\ Cardinality(Subs!Active) <= 1 + crossed + revived
      /\ \A d \in Caller : IsCall(call[d])
  BY ActiveFinite, SubsCardinality DEF SubInv, OneActiveSubscription, Subs!OneActiveSubscription
<1>4. crossed' = crossed \/ crossed' = crossed + 1
  <2>1. crossed' = crossed + 1 \/ crossed' = crossed + 0
    BY DEF Subs!Write
  <2> QED  BY <1>3, <2>1
<1>5. crossed' \in Nat /\ crossed' >= crossed
  BY <1>3, <1>4
<1>6. Cardinality(Subs!Active') \in Nat /\ Cardinality(Subs!Active') <= 1 + crossed' + revived
  <2>1. CASE row.status = "active" /\ r \notin Subs!Active
    <3>1. Cardinality(Subs!Active') \in Nat /\ Cardinality(Subs!Active') <= Cardinality(Subs!Active) + 1
      BY <1>2, <1>3, <2>1, OneMore
    <3>2. CASE call[c].stale
      <4>1. crossed' = crossed + 1
        BY <2>1, <3>2 DEF Subs!Write
      <4> QED  BY <1>3, <3>1, <4>1
    <3>3. CASE ~call[c].stale
      <4>1. Cardinality(Subs!Active) <= crossed + revived
        BY <2>1, <3>3
      <4> QED  BY <1>3, <1>5, <3>1, <4>1
    <3> QED  BY <3>2, <3>3
  <2>2. CASE ~(row.status = "active" /\ r \notin Subs!Active)
    <3>1. Subs!Active' \subseteq Subs!Active
      BY <1>2, <2>2
    <3>2. Cardinality(Subs!Active') \in Nat /\ Cardinality(Subs!Active') <= Cardinality(Subs!Active)
      BY <1>3, <3>1, NoMore
    <3> QED  BY <1>3, <1>5, <3>2
  <2> QED  BY <2>1, <2>2
<1>7. call' = [d \in Caller |-> call'[d]] /\ call'[c] = next
  BY DEF Subs!Write
<1>8. \A d \in Caller : IsCall(call'[d]) /\ Knows(call'[d], Subs!Active', crossed' + revived)
  <2> SUFFICES ASSUME NEW d \in Caller, d # c
               PROVE  IsCall(call'[d]) /\ Knows(call'[d], Subs!Active', crossed' + revived)
    BY <1>7
  <2> DEFINE k == call[d]
             l == call'[d]
  <2>1. IsCall(k)
    BY <1>3
  <2>2. CASE k.at \in {"none", "choosing", "answering"}
    <3>1. l = k
      BY <2>2 DEF Subs!Write
    <3> QED  BY <2>2, <3>1 DEF IsCall, Knows
  <2>3. CASE k.at \notin {"none", "choosing", "answering"}
    <3>1. l = [k EXCEPT !.stale = TRUE]
      BY <2>3 DEF Subs!Write
    <3>2. IsCall(l) /\ l.stale
      <4> HIDE DEF k, l
      <4> QED  BY <2>1, <2>3, <3>1 DEF IsCall
    <3> QED  BY <3>2 DEF Knows
  <2> QED  BY <2>2, <2>3
<1>9. OneActiveSubscription'
  BY <1>6, SubsCardinality DEF OneActiveSubscription, Subs!OneActiveSubscription
<1> QED  BY <1>1, <1>3, <1>5, <1>7, <1>8, <1>9 DEF SubInv

\* A row with some columns changed.
LEMMA SubColumns ==
  ASSUME NEW m, IsSub(m), NEW e
  PROVE  /\ IsSub([m EXCEPT !.end = e]) /\ [m EXCEPT !.end = e].status = m.status
         /\ IsSub([m EXCEPT !.status = "cancelled"])
         /\ IsSub([m EXCEPT !.status = "expired"]) /\ [m EXCEPT !.status = "expired"].status = "expired"
         /\ IsSub([m EXCEPT !.status = "active", !.end = e])
<1>1. PICK status, end, trial : m = [status |-> status, end |-> end, trial |-> trial]
  BY DEF IsSub
<1>2. /\ [m EXCEPT !.end = e] = [status |-> status, end |-> e, trial |-> trial]
      /\ [m EXCEPT !.status = "cancelled"] = [status |-> "cancelled", end |-> end, trial |-> trial]
      /\ [m EXCEPT !.status = "expired"] = [status |-> "expired", end |-> end, trial |-> trial]
  BY <1>1
<1>3. [m EXCEPT !.status = "active", !.end = e] = [status |-> "active", end |-> e, trial |-> trial]
  <2>1. [m EXCEPT !.status = "active", !.end = e] = [[m EXCEPT !.status = "active"] EXCEPT !.end = e]
    OBVIOUS
  <2>2. [m EXCEPT !.status = "active"] = [status |-> "active", end |-> end, trial |-> trial]
    BY <1>1
  <2>3. [[status |-> "active", end |-> end, trial |-> trial] EXCEPT !.end = e]
          = [status |-> "active", end |-> e, trial |-> trial]
    OBVIOUS
  <2> QED  BY <2>1, <2>2, <2>3, Zenon
<1> QED  BY <1>1, <1>2, <1>3 DEF IsSub

\* A request that has ended, or goes on to save row r, or a new one.
SavesOrEnds(k, r, stale) ==
    IsCall(k) /\ (k.at = "none" \/ (k.at = "saving" /\ k.of = r /\ k.stale = stale))
CreatesOrEnds(k, stale) ==
    IsCall(k) /\ (k.at = "none" \/ (k.at = "creating" /\ k.stale = stale))

\* What a request does with the row it found, while it is active.
LEMMA SubOnFound ==
  ASSUME NEW op \in {"look", "upgrade", "trial", "cancel"}, NEW r \in Subs!Row, NEW m, IsSub(m),
         NEW stale, NEW next \in Subs!OnFound(op, r, m, stale)
  PROVE  SavesOrEnds(next, r, stale)
<1>1. CASE op \in {"look", "trial"}
  <2>1. next = Subs!Ended
    BY <1>1 DEF Subs!OnFound
  <2> QED  BY <2>1 DEF Subs!Ended, SavesOrEnds, IsCall
<1>2. CASE op = "upgrade"
  <2>1. PICK e : next = [at |-> "saving", of |-> r, copy |-> [m EXCEPT !.end = e], stale |-> stale]
    BY <1>2 DEF Subs!OnFound
  <2>2. IsSub([m EXCEPT !.end = e])
    BY SubColumns
  <2> QED  BY <2>1, <2>2 DEF SavesOrEnds, IsCall
<1>3. CASE op = "cancel"
  <2>1. next = [at |-> "saving", of |-> r, copy |-> [m EXCEPT !.status = "cancelled"], stale |-> stale]
    BY <1>3 DEF Subs!OnFound
  <2>2. IsSub([m EXCEPT !.status = "cancelled"])
    BY SubColumns
  <2> QED  BY <2>1, <2>2 DEF SavesOrEnds, IsCall
<1> QED  BY <1>1, <1>2, <1>3

\* And when it found none.
LEMMA SubOnNull ==
  ASSUME NEW op \in {"look", "upgrade", "trial", "cancel"}, NEW stale, NEW next \in Subs!OnNull(op, stale)
  PROVE  CreatesOrEnds(next, stale)
<1>1. CASE op \in {"look", "cancel"}
  <2>1. next = Subs!Ended
    BY <1>1 DEF Subs!OnNull
  <2> QED  BY <2>1 DEF Subs!Ended, CreatesOrEnds, IsCall
<1>2. ASSUME NEW e, NEW t, next = [at |-> "creating", copy |-> Subs!New(e, t), stale |-> stale]
      PROVE  CreatesOrEnds(next, stale)
  <2>1. IsSub(Subs!New(e, t))
    BY DEF IsSub, Subs!New
  <2> QED  BY <1>2, <2>1 DEF CreatesOrEnds, IsCall
<1>3. CASE op = "upgrade"
  <2>1. PICK e : next = [at |-> "creating", copy |-> Subs!New(e, Subs!Unset), stale |-> stale]
    BY <1>3 DEF Subs!OnNull
  <2> QED  BY <1>2, <2>1
<1>4. CASE op = "trial"
  <2>1. next = [at |-> "creating", copy |-> Subs!New(Subs!Unset, day + 1), stale |-> stale]
    BY <1>4 DEF Subs!OnNull
  <2> QED  BY <1>2, <2>1
<1> QED  BY <1>1, <1>3, <1>4

LEMMA SubRead ==
  ASSUME SubInv, NEW c \in Caller, NEW op \in {"look", "upgrade", "trial", "cancel"}, Subs!Read(c, op)
  PROVE  SubInv'
<1>0. /\ crossed \in Nat /\ revived \in Nat /\ revived' = revived /\ crossed' = crossed /\ sub' = sub
      /\ revived' \in Nat /\ revived' >= revived /\ Cardinality({}) = 0
  BY FS_EmptySet DEF SubInv, Subs!Read
<1>1. CASE Subs!Active = {}
  <2>1. PICK next \in Subs!OnNull(op, FALSE) : Subs!Begin(c, next)
    BY <1>1 DEF Subs!Read
  <2>2. IsCall(next) /\ next.at \in {"none", "creating"}
    BY <2>1, SubOnNull DEF CreatesOrEnds
  <2>3. Cardinality(Subs!Active) <= crossed + revived'
    BY <1>0, <1>1
  <2>4. Knows(next, Subs!Active, crossed + revived')
    BY <2>2, <2>3 DEF Knows
  <2>5. call' = [call EXCEPT ![c] = next]
    BY <2>1 DEF Subs!Begin, Subs!Go
  <2> QED  BY <1>0, <2>2, <2>4, <2>5, SubOwnStep
<1>2. CASE Subs!Active # {}
  <2> DEFINE r == Subs!Newest(Subs!Active)
             m == sub[r]
             old(at, row) == [at |-> at, op |-> op, of |-> r, copy |-> row, stale |-> FALSE]
             paid == [m EXCEPT !.end = IF @ = Subs!Unset THEN m.trial + Period ELSE @]
  <2>1. r \in Subs!Active /\ r \in Subs!Row
    BY <1>2, NewestAndOldest DEF Subs!Active
  <2>2. IsSub(m) /\ m.status = "active"
    BY <2>1 DEF SubInv, Subs!Active, Subs!NoRow
  <2>3. PICK next : /\ Subs!Begin(c, next)
                    /\ \/ next = old("expiring", [m EXCEPT !.status = "expired"])
                       \/ next = old("finalising", paid)
                       \/ next \in Subs!OnFound(op, r, m, FALSE)
    BY <1>2 DEF Subs!Read
  <2>4. IsSub([m EXCEPT !.status = "expired"]) /\ [m EXCEPT !.status = "expired"].status = "expired"
    BY <2>2, SubColumns
  <2>5. IsSub(paid) /\ paid.status = "active"
    BY <2>2, SubColumns
  <2> HIDE DEF r, m, paid
  <2>6. IsCall(next) /\ next.at \in {"none", "expiring", "finalising", "saving"}
        /\ (next.at # "none" => next.of = r)
    <3>1. CASE next = old("expiring", [m EXCEPT !.status = "expired"])
      BY <2>1, <2>4, <3>1 DEF IsCall
    <3>2. CASE next = old("finalising", paid)
      BY <2>1, <2>5, <3>2 DEF IsCall
    <3>3. CASE next \in Subs!OnFound(op, r, m, FALSE)
      <4>1. SavesOrEnds(next, r, FALSE)
        BY <2>1, <2>2, <3>3, SubOnFound, Zenon
      <4> QED  BY <4>1 DEF SavesOrEnds
    <3> QED  BY <2>3, <3>1, <3>2, <3>3
  <2>7. Knows(next, Subs!Active, crossed + revived')
    BY <2>1, <2>6 DEF Knows
  <2>8. call' = [call EXCEPT ![c] = next]
    BY <2>3 DEF Subs!Begin, Subs!Go
  <2> QED  BY <1>0, <2>6, <2>7, <2>8, SubOwnStep
<1> QED  BY <1>1, <1>2

LEMMA SubChoose ==
  ASSUME SubInv, NEW c \in Caller, Subs!ChooseRow(c)
  PROVE  SubInv'
<1>0. /\ crossed \in Nat /\ revived \in Nat /\ crossed' = crossed /\ sub' = sub
      /\ Cardinality(Subs!Active) \in Nat /\ Cardinality(Subs!Active) <= 1 + crossed + revived
      /\ (Subs!Active = {} => Cardinality(Subs!Active) = 0)
  BY FS_EmptySet, ActiveFinite, SubsCardinality
  DEF SubInv, Subs!ChooseRow, OneActiveSubscription, Subs!OneActiveSubscription
<1>1. CASE Subs!Existing = {} /\ revived' = revived
           /\ \E e : Subs!Go(c, [at |-> "granting new", gift |-> call[c].gift, copy |-> Subs!New(e, Subs!Unset),
                                 stale |-> FALSE])
  <2>1. PICK e : Subs!Go(c, [at |-> "granting new", gift |-> call[c].gift, copy |-> Subs!New(e, Subs!Unset),
                             stale |-> FALSE])
    BY <1>1
  <2> DEFINE next == [at |-> "granting new", gift |-> call[c].gift, copy |-> Subs!New(e, Subs!Unset),
                      stale |-> FALSE]
  <2>0. revived' = revived
    BY <1>1
  <2>2. Subs!Active = {}
    <3>1. Subs!NoRow.status = "none"
      BY DEF Subs!NoRow
    <3> QED  BY <1>1, <3>1 DEF Subs!Active, Subs!Existing
  <2>3. Cardinality(Subs!Active) <= crossed + revived'
    BY <1>0, <2>0, <2>2
  <2>4. IsCall(next) /\ Knows(next, Subs!Active, crossed + revived')
    BY <2>3 DEF IsCall, Knows, IsSub, Subs!New
  <2> HIDE DEF next
  <2>5. call' = [call EXCEPT ![c] = next]
    BY <2>1 DEF Subs!Go, next
  <2>6. revived' \in Nat /\ revived' >= revived
    BY <1>0, <2>0
  <2> QED  BY <1>0, <2>4, <2>5, <2>6, SubOwnStep
<1>2. ASSUME NEW r \in Subs!Existing, NEW e,
             Subs!Go(c, [at |-> "granting", gift |-> call[c].gift, of |-> r, stale |-> FALSE,
                         copy |-> [sub[r] EXCEPT !.status = "active", !.end = e]]),
             revived' = revived + IF r \notin Subs!Active /\ Subs!Active # {} THEN 1 ELSE 0
      PROVE  SubInv'
  <2> DEFINE copy == [sub[r] EXCEPT !.status = "active", !.end = e]
             next == [at |-> "granting", gift |-> call[c].gift, of |-> r, stale |-> FALSE, copy |-> copy]
  <2>1. r \in Subs!Row /\ IsSub(sub[r])
    BY DEF SubInv, Subs!Existing
  <2>2. IsSub(copy)
    BY <2>1, SubColumns
  <2>3. revived' \in Nat /\ revived' >= revived
        /\ (r \in Subs!Active \/ Cardinality(Subs!Active) <= crossed + revived')
    <3>1. CASE r \notin Subs!Active /\ Subs!Active # {}
      <4>1. revived' = revived + 1
        BY <1>2, <3>1
      <4> QED  BY <1>0, <4>1
    <3>2. CASE ~(r \notin Subs!Active /\ Subs!Active # {})
      <4>1. revived' = revived + 0
        BY <1>2, <3>2
      <4>2. r \in Subs!Active \/ Cardinality(Subs!Active) = 0
        BY <1>0, <3>2
      <4> QED  BY <1>0, <4>1, <4>2
    <3> QED  BY <3>1, <3>2
  <2> HIDE DEF copy
  <2>4. IsCall(next) /\ Knows(next, Subs!Active, crossed + revived')
    BY <2>1, <2>2, <2>3 DEF IsCall, Knows
  <2>5. call' = [call EXCEPT ![c] = next]
    BY <1>2 DEF Subs!Go, copy
  <2> HIDE DEF next
  <2> QED  BY <1>0, <2>3, <2>4, <2>5, SubOwnStep
<1> QED  BY <1>1, <1>2 DEF Subs!ChooseRow

LEMMA SubWrites ==
  ASSUME SubInv, NEW c \in Caller,
         \/ Subs!Expire(c) \/ Subs!FinaliseTrial(c) \/ Subs!SaveCopy(c) \/ Subs!Create(c)
         \/ Subs!Grant(c) \/ Subs!GrantNew(c)
  PROVE  SubInv'
<1> DEFINE me == call[c]
<1>0. /\ IsCall(me) /\ Knows(me, Subs!Active, crossed + revived) /\ revived' = revived
      /\ crossed \in Nat /\ revived \in Nat
      /\ sub = [r \in Subs!Row |-> sub[r]]
  BY DEF SubInv, Subs!Expire, Subs!FinaliseTrial, Subs!SaveCopy, Subs!Create, Subs!Grant, Subs!GrantNew
<1>1. ASSUME NEW next, next.at \in {"none", "choosing", "answering"},
             NEW active, NEW extra
      PROVE  IsCall(next) /\ Knows(next, active, extra)
  BY <1>1 DEF IsCall, Knows
<1>2. Subs!Ended.at = "none" /\ Subs!Accepted(c).at = "answering"
  BY DEF Subs!Ended, Subs!Accepted
<1>3. Subs!Free # {} => Subs!Oldest(Subs!Free) \in Subs!Row
  BY NewestAndOldest DEF Subs!Free
<1>4. CASE Subs!SaveCopy(c)
  <2>1. me.at = "saving" /\ Subs!Write(c, me.of, me.copy, Subs!Ended)
    BY <1>4 DEF Subs!SaveCopy
  <2>2. me.of \in Subs!Row /\ IsSub(me.copy) /\ (~me.stale => me.of \in Subs!Active)
    BY <1>0, <2>1 DEF IsCall, Knows
  <2>3. IsCall(Subs!Ended) /\ Knows(Subs!Ended, Subs!Active', crossed' + revived)
    BY <1>1, <1>2
  <2> QED  BY <1>0, <2>1, <2>2, <2>3, SubWriteStep
<1>5. CASE Subs!Create(c)
  <2>1. me.at = "creating" /\ Subs!Free # {} /\ Subs!Write(c, Subs!Oldest(Subs!Free), me.copy, Subs!Ended)
    BY <1>5 DEF Subs!Create
  <2>2. IsSub(me.copy) /\ (~me.stale => Cardinality(Subs!Active) <= crossed + revived)
    BY <1>0, <2>1 DEF IsCall, Knows
  <2>3. IsCall(Subs!Ended) /\ Knows(Subs!Ended, Subs!Active', crossed' + revived)
    BY <1>1, <1>2
  <2> QED  BY <1>0, <1>3, <2>1, <2>2, <2>3, SubWriteStep
<1>6. CASE Subs!Grant(c)
  <2>1. me.at = "granting" /\ Subs!Write(c, me.of, me.copy, Subs!Accepted(c))
    BY <1>6 DEF Subs!Grant
  <2>2. /\ me.of \in Subs!Row /\ IsSub(me.copy)
        /\ ~me.stale => me.of \in Subs!Active \/ Cardinality(Subs!Active) <= crossed + revived
    BY <1>0, <2>1 DEF IsCall, Knows
  <2>3. IsCall(Subs!Accepted(c)) /\ Knows(Subs!Accepted(c), Subs!Active', crossed' + revived)
    BY <1>1, <1>2
  <2> QED  BY <1>0, <2>1, <2>2, <2>3, SubWriteStep
<1>7. CASE Subs!GrantNew(c)
  <2>1. me.at = "granting new" /\ Subs!Free # {}
        /\ Subs!Write(c, Subs!Oldest(Subs!Free), me.copy, Subs!Accepted(c))
    BY <1>7 DEF Subs!GrantNew
  <2>2. IsSub(me.copy) /\ (~me.stale => Cardinality(Subs!Active) <= crossed + revived)
    BY <1>0, <2>1 DEF IsCall, Knows
  <2>3. IsCall(Subs!Accepted(c)) /\ Knows(Subs!Accepted(c), Subs!Active', crossed' + revived)
    BY <1>1, <1>2
  <2> QED  BY <1>0, <1>3, <2>1, <2>2, <2>3, SubWriteStep
<1>8. CASE Subs!FinaliseTrial(c)
  <2>1. PICK next \in Subs!OnFound(me.op, me.of, me.copy, me.stale) :
          me.at = "finalising" /\ Subs!Write(c, me.of, me.copy, next)
    BY <1>8 DEF Subs!FinaliseTrial
  <2>2. /\ me.of \in Subs!Row /\ IsSub(me.copy) /\ me.op \in {"look", "upgrade", "trial", "cancel"}
        /\ me.copy.status = "active" /\ (~me.stale => me.of \in Subs!Active)
    BY <1>0, <2>1 DEF IsCall, Knows
  <2>3. SavesOrEnds(next, me.of, me.stale)
    BY <2>1, <2>2, SubOnFound, Zenon
  <2>4. me.of \in Subs!Active'
    BY <1>0, <2>1, <2>2 DEF Subs!Write, Subs!Active
  <2>5. Knows(next, Subs!Active', crossed' + revived)
    BY <2>3, <2>4 DEF SavesOrEnds, Knows
  <2> QED  BY <1>0, <2>1, <2>2, <2>3, <2>5, SubWriteStep DEF SavesOrEnds
<1>9. CASE Subs!Expire(c)
  <2>1. PICK next \in Subs!OnNull(me.op, me.stale) :
          me.at = "expiring" /\ Subs!Write(c, me.of, me.copy, next)
    BY <1>9 DEF Subs!Expire
  <2>2. /\ me.of \in Subs!Row /\ IsSub(me.copy) /\ me.op \in {"look", "upgrade", "trial", "cancel"}
        /\ me.copy.status = "expired" /\ (~me.stale => me.of \in Subs!Active)
    BY <1>0, <2>1 DEF IsCall, Knows
  <2>3. CreatesOrEnds(next, me.stale)
    BY <2>1, <2>2, SubOnNull, Zenon
  <2>4. Subs!Active' = Subs!Active \ {me.of} /\ crossed' = crossed
    BY <1>0, <2>1, <2>2 DEF Subs!Write, Subs!Active
  <2>5. ~me.stale => Cardinality(Subs!Active') <= crossed' + revived
    <3> SUFFICES ASSUME ~me.stale PROVE Cardinality(Subs!Active') <= crossed' + revived
      OBVIOUS
    <3>1. /\ Cardinality(Subs!Active') \in Nat /\ Cardinality(Subs!Active) \in Nat
          /\ Cardinality(Subs!Active') + 1 <= Cardinality(Subs!Active)
      BY <2>2, <2>4, ActiveFinite, OneLess
    <3>2. Cardinality(Subs!Active) <= 1 + crossed + revived
      BY SubsCardinality DEF SubInv, OneActiveSubscription, Subs!OneActiveSubscription
    <3> QED  BY <1>0, <2>4, <3>1, <3>2
  <2>6. Knows(next, Subs!Active', crossed' + revived)
    BY <2>3, <2>5 DEF CreatesOrEnds, Knows
  <2> QED  BY <1>0, <2>1, <2>2, <2>3, <2>6, SubWriteStep DEF CreatesOrEnds
<1> QED  BY <1>4, <1>5, <1>6, <1>7, <1>8, <1>9

\* Requests that write a gift, or nothing.
LEMMA SubGifts ==
  ASSUME SubInv, NEW c \in Caller,
         \/ \E g \in Gift : Subs!AcceptGift(c, g) \/ Subs!DeclineGift(c, g)
         \/ Subs!Answer(c) \/ Subs!Fail(c)
  PROVE  SubInv'
<1>1. /\ UNCHANGED <<sub, crossed>> /\ revived' \in Nat /\ revived' >= revived
  <2>1. sub' = sub /\ crossed' = crossed /\ revived' = revived
    BY DEF Subs!AcceptGift, Subs!DeclineGift, Subs!Answer, Subs!Fail
  <2> QED  BY <2>1 DEF SubInv
<1>2. ASSUME NEW next, next.at \in {"none", "choosing", "answering"}, Subs!Go(c, next)
      PROVE  SubInv'
  <2>1. IsCall(next) /\ Knows(next, Subs!Active, crossed + revived')
    BY <1>2 DEF IsCall, Knows
  <2>2. call' = [call EXCEPT ![c] = next]
    BY <1>2 DEF Subs!Go
  <2> QED  BY <1>1, <2>1, <2>2, SubOwnStep
<1>3. ASSUME NEW g \in Gift, Subs!AcceptGift(c, g) PROVE SubInv'
  <2> DEFINE next == IF day > gift[g].expires THEN [at |-> "answering", gift |-> g, answer |-> "expired"]
                                              ELSE [at |-> "choosing", gift |-> g]
  <2>1. Subs!Go(c, next)
    BY <1>3 DEF Subs!AcceptGift, Subs!Begin
  <2>2. next.at \in {"choosing", "answering"}
    OBVIOUS
  <2> HIDE DEF next
  <2> QED  BY <1>2, <2>1, <2>2
<1>4. ASSUME NEW g \in Gift, Subs!DeclineGift(c, g) PROVE SubInv'
  <2> DEFINE next == [at |-> "answering", gift |-> g, answer |-> "declined"]
  <2>1. Subs!Go(c, next)
    BY <1>4 DEF Subs!DeclineGift, Subs!Begin
  <2> QED  BY <1>2, <2>1
<1>5. CASE Subs!Answer(c) \/ Subs!Fail(c)
  <2>1. Subs!Go(c, Subs!Ended) /\ Subs!Ended.at = "none"
    BY <1>5 DEF Subs!Answer, Subs!Fail, Subs!Ended
  <2> QED  BY <1>2, <2>1
<1> QED  BY <1>3, <1>4, <1>5

LEMMA SubStutter == SubInv /\ UNCHANGED <<sub, call, crossed, revived>> => SubInv'
<1> SUFFICES ASSUME SubInv, UNCHANGED <<sub, call, crossed, revived>> PROVE SubInv'
  OBVIOUS
<1>1. Subs!Active' = Subs!Active
  BY DEF Subs!Active
<1> QED  BY <1>1 DEF SubInv, OneActiveSubscription, Subs!OneActiveSubscription

\* A user has one active subscription, and more only by the crossed writes and the
\* revived rows OneActiveSubscription counts (SubscriptionService,
\* GiftSubscriptionController).
THEOREM SubscriptionsAreOne == UsersSpec => []OneActiveSubscription
<1>1. SubInv => OneActiveSubscription
  BY DEF SubInv
<1>2. ASSUME SubInv, Subs!Next PROVE SubInv'
  <2>1. Subs!DayPasses \/ (\E g \in Gift : Subs!SendGift(g)) => UNCHANGED <<sub, call, crossed, revived>>
    BY DEF Subs!DayPasses, Subs!SendGift
  <2> QED
    BY <1>2, <2>1, SubStutter, SubRead, SubChoose, SubWrites, SubGifts DEF Subs!Next
<1>3. SubInv /\ [UsersNext]_<<part, rowVars, subVars, commentVars, shareVars, uploadVars, accessVars,
                              limiterVars, breakerVars>> => SubInv'
  BY <1>2, SubStutter DEF UsersNext, subVars
<1> QED  BY <1>1, <1>3, SubInit, PTL DEF UsersSpec

----------------------------------------------------------------------------
(* Collaborators *)

ShareRequest ==
    [at : {"summing"}, op : {"add", "update"}, of : Member, share : Nat]
    \cup [at : {"saving"}, op : {"add", "update", "other"}, of : Member, share : Nat, old : BOOLEAN]

Asks(ask) == ask.at \in {"summing", "saving"} => ask \in ShareRequest

ShareTypes ==
    /\ share \in [Member -> Nat] /\ late \subseteq Member
    /\ edit = [e \in Editor |-> edit[e]]
    /\ \A e \in Editor : Asks(edit[e])

\* What a request whose sum is still true is about to save fits beside the others.
Fits(ask) ==
    ask.at = "saving" /\ ask.op # "other" /\ ~ask.old
        => Split!Total(Member \ {ask.of}) + ask.share <= Whole

ShareInv == ShareTypes /\ (\A e \in Editor : Fits(edit[e])) /\ SharesWithin100

LEMMA TotalIs == \A members : Split!Total(members) = FoldFunctionOnSet(+, 0, share, members)
  BY DEF Split!Total, Split!FoldFunctionOnSet, Split!MapThenFoldSet, FoldFunctionOnSet, MapThenFoldSet

LEMMA ShareInit == UsersInit => ShareInv
<1> SUFFICES ASSUME UsersInit PROVE ShareInv
  OBVIOUS
<1>1. /\ share = [m \in Member |-> 0] /\ edit = [e \in Editor |-> [at |-> "none"]] /\ late = {}
  BY DEF UsersInit, Split!Init, Split!NoRow, Split!NoEdit
<1>2. IsFiniteSet(Member) /\ \A m \in Member : share[m] \in Nat /\ share[m] = 0
  BY <1>1, UsersAssumption DEF UsersAssumption
<1>3. Member \ late = Member
  BY <1>1
<1>4. Points(share, Member) = {}
  BY <1>2 DEF Points
<1>5. FoldFunctionOnSet(+, 0, share, Member) = 0
  <2>1. FoldFunctionOnSet(+, 0, share, Member) = Cardinality(Points(share, Member))
    BY <1>2, SumCounts
  <2> QED  BY <1>4, <2>1, FS_EmptySet
<1>6. SharesWithin100
  <2>1. Split!Total(Member) = 0
    BY <1>5, TotalIs
  <2> QED  BY <1>3, <2>1, UsersAssumption DEF UsersAssumption, SharesWithin100, Split!SharesWithin100
<1> QED  BY <1>1, <1>6 DEF ShareInv, ShareTypes, Asks, ShareRequest, Fits

\* A request that saves nothing leaves the shares as they are.
LEMMA ShareOwnStep ==
  ASSUME ShareInv, NEW e \in Editor, NEW next, Asks(next), Fits(next),
         edit' = [edit EXCEPT ![e] = next], share' = share, late' = late
  PROVE  ShareInv'
<1>1. /\ edit' = [f \in Editor |-> edit'[f]]
      /\ \A f \in Editor : edit'[f] = IF f = e THEN next ELSE edit[f]
  BY DEF ShareInv, ShareTypes
<1>2. \A members : Split!Total(members)' = Split!Total(members)
  BY DEF Split!Total, Split!FoldFunctionOnSet, Split!MapThenFoldSet
<1>3. ShareTypes'
  BY <1>1 DEF ShareInv, ShareTypes, Asks, ShareRequest
<1>4. \A f \in Editor : Fits(edit[f])'
  BY <1>1, <1>2 DEF ShareInv, Fits
<1>5. SharesWithin100'
  BY <1>2 DEF ShareInv, SharesWithin100, Split!SharesWithin100
<1> QED  BY <1>3, <1>4, <1>5 DEF ShareInv

LEMMA ShareRequests ==
  ASSUME ShareInv, NEW e \in Editor,
         \/ \E m \in Member : Split!Touch(e, m) \/ \E s \in Share : Split!Add(e, m, s) \/ Split!Update(e, m, s)
         \/ Split!Sum(e) \/ Split!Fail(e)
  PROVE  ShareInv'
<1>0. IsFiniteSet(Member) /\ Share \subseteq Nat
  BY UsersAssumption DEF UsersAssumption
<1>1. ASSUME NEW m \in Member, NEW s \in Share, Split!Add(e, m, s) \/ Split!Update(e, m, s)
      PROVE  ShareInv'
  <2>1. PICK op \in {"add", "update"} : Split!Go(e, [at |-> "summing", op |-> op, of |-> m, share |-> s])
    BY <1>1 DEF Split!Add, Split!Update, Split!Begin
  <2>2. share' = share /\ late' = late
    BY <1>1 DEF Split!Add, Split!Update, Split!Begin
  <2>3. s \in Nat
    BY <1>0
  <2> DEFINE next == [at |-> "summing", op |-> op, of |-> m, share |-> s]
  <2>4. Asks(next) /\ Fits(next)
    BY <2>3 DEF Asks, ShareRequest, Fits
  <2> HIDE DEF next
  <2> QED  BY <2>1, <2>2, <2>4, ShareOwnStep DEF Split!Go, next
<1>2. ASSUME NEW m \in Member, Split!Touch(e, m) PROVE ShareInv'
  <2>0. share[m] \in Nat
    BY DEF ShareInv, ShareTypes
  <2>1. /\ Split!Go(e, [at |-> "saving", op |-> "other", of |-> m, share |-> share[m], old |-> FALSE])
        /\ share' = share /\ late' = late /\ share[m] # 0
    BY <1>2 DEF Split!Touch, Split!Begin, Split!Saving, Split!NoRow
  <2> QED  BY <2>0, <2>1, ShareOwnStep DEF Split!Go, Asks, ShareRequest, Fits
<1>3. CASE Split!Fail(e)
  <2>1. Split!Go(e, [at |-> "none"]) /\ share' = share /\ late' = late
    BY <1>3 DEF Split!Fail, Split!NoEdit
  <2> QED  BY <2>1, ShareOwnStep DEF Split!Go, Asks, ShareRequest, Fits
<1>4. CASE Split!Sum(e)
  <2> DEFINE me == edit[e]
             others == IF me.op = "add" THEN Member ELSE Member \ {me.of}
             next == [at |-> "saving", op |-> me.op, of |-> me.of, share |-> me.share, old |-> FALSE]
  <2>1. /\ me.at = "summing" /\ share' = share /\ late' = late
        /\ Split!Go(e, IF Split!Total(others) + me.share > Whole THEN Split!NoEdit ELSE next)
    BY <1>4 DEF Split!Sum, Split!Saving
  <2>2. me.op \in {"add", "update"} /\ me.of \in Member /\ me.share \in Nat
    BY <2>1 DEF ShareInv, ShareTypes, Asks, ShareRequest
  <2>3. CASE Split!Total(others) + me.share > Whole
    <3>1. Split!Go(e, [at |-> "none"])
      BY <2>1, <2>3 DEF Split!NoEdit
    <3> QED  BY <2>1, <3>1, ShareOwnStep DEF Split!Go, Asks, ShareRequest, Fits
  <2>4. CASE ~(Split!Total(others) + me.share > Whole)
    <3>1. Split!Go(e, next) /\ Asks(next)
      BY <2>1, <2>2, <2>4 DEF Asks, ShareRequest
    <3>2. Split!Total(Member \ {me.of}) \in Nat /\ Split!Total(others) \in Nat
          /\ Split!Total(Member \ {me.of}) <= Split!Total(others)
      <4>1. \A m \in others : share[m] \in Nat
        BY DEF ShareInv, ShareTypes
      <4>2. IsFiniteSet(others) /\ Member \ {me.of} \in SUBSET others
        BY <1>0, FS_Subset
      <4>3. IsFiniteSet(Member \ {me.of}) /\ \A m \in Member \ {me.of} : share[m] \in Nat
        BY <4>1, <4>2, FS_Subset
      <4> HIDE DEF others
      <4> QED  BY <4>1, <4>2, <4>3, SumGrows, SumCounts, TotalIs
    <3>3. Split!Total(Member \ {me.of}) + me.share <= Whole
      <4> HIDE DEF others, me
      <4> QED  BY <2>2, <2>4, <3>2, UsersAssumption DEF UsersAssumption
    <3>4. Fits(next)
      BY <3>3 DEF Fits
    <3> HIDE DEF next
    <3> QED  BY <2>1, <3>1, <3>4, ShareOwnStep DEF Split!Go
  <2> QED  BY <2>3, <2>4
<1> QED  BY <1>1, <1>2, <1>3, <1>4

\* A sum over fewer rows, none of them changed, is no larger.
LEMMA ShareOfFewer ==
  ASSUME NEW f, NEW g, NEW S \in SUBSET Member, NEW R \in SUBSET S,
         \A n \in Member : f[n] \in Nat, \A n \in R : g[n] = f[n]
  PROVE  /\ FoldFunctionOnSet(+, 0, g, R) \in Nat /\ FoldFunctionOnSet(+, 0, f, S) \in Nat
         /\ FoldFunctionOnSet(+, 0, g, R) <= FoldFunctionOnSet(+, 0, f, S)
<1>1. IsFiniteSet(S) /\ IsFiniteSet(R)
  BY UsersAssumption, FS_Subset DEF UsersAssumption
<1>2. (\A n \in S : f[n] \in Nat) /\ (\A n \in R : f[n] \in Nat /\ g[n] = f[n]) /\ (\A n \in R : g[n] \in Nat)
  OBVIOUS
<1>3. FoldFunctionOnSet(+, 0, g, R) = FoldFunctionOnSet(+, 0, f, R)
  BY <1>1, <1>2, SumSame
<1>4. FoldFunctionOnSet(+, 0, f, R) <= FoldFunctionOnSet(+, 0, f, S)
  BY <1>1, <1>2, SumGrows
<1>5. FoldFunctionOnSet(+, 0, g, R) \in Nat /\ FoldFunctionOnSet(+, 0, f, S) \in Nat
  BY <1>1, <1>2, SumCounts
<1> QED  BY <1>3, <1>4, <1>5

LEMMA ShareSave ==
  ASSUME ShareInv, NEW e \in Editor, Split!Save(e)
  PROVE  ShareInv'
<1> DEFINE me == edit[e]
           changed == share[me.of] # me.share
<1>1. /\ me.at = "saving"
      /\ share' = [share EXCEPT ![me.of] = me.share]
      /\ late' = IF me.op = "other" THEN IF changed THEN late \cup {me.of} ELSE late
                 ELSE IF me.old THEN late \cup {me.of} ELSE late \ {me.of}
      /\ edit' = [f \in Editor |->
           IF f = e THEN [at |-> "none"]
           ELSE IF edit[f].at = "saving" /\ changed THEN [edit[f] EXCEPT !.old = TRUE] ELSE edit[f]]
  BY DEF Split!Save, Split!NoEdit
<1>2. me.of \in Member /\ me.share \in Nat
  BY <1>1 DEF ShareInv, ShareTypes, Asks, ShareRequest
<1>3. /\ share' \in [Member -> Nat] /\ share \in [Member -> Nat] /\ late \subseteq Member
      /\ \A n \in Member : share'[n] = IF n = me.of THEN me.share ELSE share[n]
  BY <1>1, <1>2 DEF ShareInv, ShareTypes
<1>4. ~changed => share' = share
  BY <1>1, <1>2, <1>3
<1>5. late' \subseteq Member
  BY <1>1, <1>2, <1>3
<1>6. ASSUME NEW f \in Editor, f # e, edit[f].at = "saving", changed
      PROVE  edit'[f] \in ShareRequest /\ edit'[f].old
  <2>1. edit'[f] = [edit[f] EXCEPT !.old = TRUE]
    BY <1>1, <1>6
  <2>2. edit[f] \in [at : {"saving"}, op : {"add", "update", "other"}, of : Member, share : Nat, old : BOOLEAN]
    BY <1>6 DEF ShareInv, ShareTypes, Asks, ShareRequest
  <2> QED  BY <2>1, <2>2 DEF ShareRequest
<1>7. ASSUME NEW f \in Editor, f # e, ~(edit[f].at = "saving" /\ changed)
      PROVE  edit'[f] = edit[f]
  BY <1>1, <1>7
<1>8. edit' = [f \in Editor |-> edit'[f]] /\ edit'[e].at = "none"
  BY <1>1
<1> HIDE DEF changed
<1>9. ShareTypes'
  <2>1. \A f \in Editor : Asks(edit[f])'
    BY <1>6, <1>7, <1>8 DEF ShareInv, ShareTypes, Asks
  <2> QED  BY <1>3, <1>5, <1>8, <2>1 DEF ShareTypes
<1>10. ASSUME NEW f \in Editor PROVE Fits(edit[f])'
  <2>1. CASE changed
    BY <1>6, <1>7, <1>8, <2>1 DEF ShareInv, Fits
  <2>2. CASE ~changed
    <3>1. share' = share
      BY <1>4, <2>2 DEF changed
    <3>2. \A members : Split!Total(members)' = Split!Total(members)
      BY <3>1 DEF Split!Total, Split!FoldFunctionOnSet, Split!MapThenFoldSet
    <3> QED  BY <1>7, <1>8, <2>2, <3>2 DEF ShareInv, Fits
  <2> QED  BY <2>1, <2>2
<1>11. SharesWithin100'
  <2>0. PICK g, kept : g = share' /\ kept = Member \ late'
    OBVIOUS
  <2>1. \A n \in Member : share[n] \in Nat /\ g[n] = IF n = me.of THEN me.share ELSE share[n]
    BY <1>3, <2>0
  <2>2. FoldFunctionOnSet(+, 0, g, kept) <= Whole
    <3>1. CASE me.op # "other" /\ ~me.old
      <4>1. Split!Total(Member \ {me.of}) + me.share <= Whole
        BY <1>1, <3>1 DEF ShareInv, Fits
      <4>2. /\ FoldFunctionOnSet(+, 0, share, Member \ {me.of}) \in Nat
            /\ FoldFunctionOnSet(+, 0, g, Member) = me.share + FoldFunctionOnSet(+, 0, share, Member \ {me.of})
        <5>1. PICK m \in Member, s \in Nat : m = me.of /\ s = me.share
          BY <1>2
        <5>2. \A n \in Member : share[n] \in Nat
          BY <2>1
        <5>3. g[m] = s
          BY <2>1, <5>1
        <5>4. \A n \in Member \ {m} : g[n] = share[n]
          BY <2>1, <5>1
        <5>5. IsFiniteSet(Member) /\ IsFiniteSet(Member \ {m})
          BY UsersAssumption, FS_RemoveElement DEF UsersAssumption
        <5>6. \A n \in Member : g[n] \in Nat
          BY <1>2, <2>1
        <5>7. FoldFunctionOnSet(+, 0, g, Member) = g[m] + FoldFunctionOnSet(+, 0, g, Member \ {m})
          BY <5>5, <5>6, SumTakesOut
        <5>8. \A n \in Member \ {m} : share[n] \in Nat /\ g[n] = share[n]
          BY <5>2, <5>4
        <5>9. FoldFunctionOnSet(+, 0, g, Member \ {m}) = FoldFunctionOnSet(+, 0, share, Member \ {m})
          BY <5>5, <5>8, SumSame
        <5>10. FoldFunctionOnSet(+, 0, share, Member \ {m}) \in Nat
          BY <5>5, <5>8, SumCounts
        <5> QED  BY <5>1, <5>3, <5>7, <5>9, <5>10
      <4>3. kept \in SUBSET Member /\ \A n \in Member : g[n] \in Nat
        BY <1>2, <2>0, <2>1
      <4>4. /\ FoldFunctionOnSet(+, 0, g, kept) \in Nat /\ FoldFunctionOnSet(+, 0, g, Member) \in Nat
            /\ FoldFunctionOnSet(+, 0, g, kept) <= FoldFunctionOnSet(+, 0, g, Member)
        BY <4>3, ShareOfFewer
      <4>5. Split!Total(Member \ {me.of}) = FoldFunctionOnSet(+, 0, share, Member \ {me.of})
        BY TotalIs
      <4>6. PICK all, rest, left : /\ all = FoldFunctionOnSet(+, 0, g, Member)
                                   /\ rest = FoldFunctionOnSet(+, 0, share, Member \ {me.of})
                                   /\ left = FoldFunctionOnSet(+, 0, g, kept)
        OBVIOUS
      <4>7. all = me.share + rest /\ rest + me.share <= Whole /\ left <= all /\ all \in Nat /\ rest \in Nat /\ left \in Nat
        BY <4>1, <4>2, <4>4, <4>5, <4>6
      <4>8. left <= Whole
        <5> HIDE DEF me
        <5> QED  BY <1>2, <4>7, UsersAssumption DEF UsersAssumption
      <4> QED  BY <4>6, <4>8
    <3>2. CASE ~(me.op # "other" /\ ~me.old)
      <4>1. kept \in SUBSET (Member \ late) /\ \A n \in kept : g[n] = share[n]
        BY <1>1, <1>2, <2>0, <2>1, <3>2 DEF changed
      <4>2. Split!Total(Member \ late) <= Whole
        BY DEF ShareInv, SharesWithin100, Split!SharesWithin100
      <4>3. Split!Total(Member \ late) = FoldFunctionOnSet(+, 0, share, Member \ late)
        BY TotalIs
      <4>4. \A n \in Member : share[n] \in Nat
        BY <1>3
      <4>5. PICK S \in SUBSET Member : S = Member \ late
        OBVIOUS
      <4>6. /\ FoldFunctionOnSet(+, 0, g, kept) \in Nat /\ FoldFunctionOnSet(+, 0, share, S) \in Nat
            /\ FoldFunctionOnSet(+, 0, g, kept) <= FoldFunctionOnSet(+, 0, share, S)
        BY <4>1, <4>4, <4>5, ShareOfFewer
      <4>7. FoldFunctionOnSet(+, 0, share, S) <= Whole
        BY <4>2, <4>3, <4>5
      <4>8. PICK sum, left : /\ sum = FoldFunctionOnSet(+, 0, share, S)
                             /\ left = FoldFunctionOnSet(+, 0, g, kept)
        OBVIOUS
      <4>9. sum <= Whole /\ left <= sum /\ sum \in Nat /\ left \in Nat
        BY <4>6, <4>7, <4>8
      <4>10. left <= Whole
        BY <4>9, UsersAssumption DEF UsersAssumption
      <4> QED  BY <4>8, <4>10
    <3> QED  BY <3>1, <3>2
  <2>3. SharesWithin100' = (FoldFunctionOnSet(+, 0, g, kept) <= Whole)
    BY <2>0 DEF SharesWithin100, Split!SharesWithin100, Split!Total, Split!FoldFunctionOnSet,
       Split!MapThenFoldSet, FoldFunctionOnSet, MapThenFoldSet
  <2> QED  BY <2>2, <2>3
<1> QED  BY <1>9, <1>10, <1>11 DEF ShareInv

LEMMA ShareStutter == ShareInv /\ UNCHANGED <<share, edit, late>> => ShareInv'
<1> SUFFICES ASSUME ShareInv, UNCHANGED <<share, edit, late>> PROVE ShareInv'
  OBVIOUS
<1>1. \A members : Split!Total(members)' = Split!Total(members)
  BY DEF Split!Total, Split!FoldFunctionOnSet, Split!MapThenFoldSet
<1> QED  BY <1>1 DEF ShareInv, ShareTypes, Fits, Asks, SharesWithin100, Split!SharesWithin100

\* The shares of a song's collaborators never exceed 100 %, but for those saved on a
\* sum or a row that was no longer true (CollaborationService.assertSharesWithin100).
THEOREM SharesStayWithin100 == UsersSpec => []SharesWithin100
<1>1. ShareInv => SharesWithin100
  BY DEF ShareInv
<1>2. ASSUME ShareInv, Split!Next PROVE ShareInv'
  <2>1. Split!Mint => UNCHANGED <<share, edit, late>>
    BY DEF Split!Mint
  <2> QED  BY <1>2, <2>1, ShareStutter, ShareRequests, ShareSave DEF Split!Next
<1>3. ShareInv /\ [UsersNext]_<<part, rowVars, subVars, commentVars, shareVars, uploadVars, accessVars,
                              limiterVars, breakerVars>> => ShareInv'
  BY <1>2, ShareStutter DEF UsersNext, shareVars
<1> QED  BY <1>1, <1>3, ShareInit, PTL DEF UsersSpec

----------------------------------------------------------------------------
(* CircuitBreaker, of which BreakerSpec is a specification of its own *)

BreakerTypes ==
    /\ time \in Nat /\ failures \in Nat
    /\ openedAt \in Nat \cup {Unopened}
    /\ timers \in Seq(Int)

\* Unless openings are entangled, the breaker has a timer exactly while it is open:
\* that of its opening; and only a closed one is below the threshold.
OneTimer ==
    ~entangled =>
        /\ circuit = "OPEN" => timers = <<openedAt + ResetTimeout>>
        /\ circuit # "OPEN" => timers = <<>>
        /\ circuit # "CLOSED" => failures >= Threshold

BreakerInv == BreakerTypes /\ OneTimer /\ BreakerRests

USE CircuitBreakerAssumption DEF CircuitBreakerAssumption

LEMMA BreakerStarts == BreakerInit => BreakerInv
  BY DEF BreakerInit, BreakerInv, BreakerTypes, OneTimer, BreakerRests, Unopened

LEMMA RecordFailureStep == ASSUME BreakerInv, RecordFailure, time' = time PROVE BreakerInv'
<1> USE DEF BreakerInv
<1>1. failures' = failures + 1 /\ failures' \in Nat
  BY DEF RecordFailure, BreakerTypes
<1>2. CASE failures + 1 >= Threshold
  <2>1. /\ circuit' = "OPEN" /\ openedAt' = time
        /\ timers' = Append(timers, time + ResetTimeout)
        /\ entangled' = (timers # <<>>)
    BY <1>2 DEF RecordFailure
  <2>2. timers \in Seq(Int) /\ time + ResetTimeout \in Int
    BY DEF BreakerTypes
  <2>3. timers' \in Seq(Int) /\ timers' # <<>>
    BY <2>1, <2>2, AppendProperties
  <2>4. BreakerTypes'
    BY <1>1, <2>1, <2>3 DEF BreakerTypes
  <2>5. timers = <<>> => timers' = <<openedAt' + ResetTimeout>>
    BY <2>1
  <2>6. OneTimer'
    BY <1>1, <1>2, <2>1, <2>5 DEF OneTimer
  <2>7. BreakerRests'
    BY <2>1, <2>3 DEF BreakerRests
  <2> QED  BY <2>4, <2>6, <2>7
<1>3. CASE ~(failures + 1 >= Threshold)
  <2>1. UNCHANGED <<circuit, openedAt, timers, entangled>>
    BY <1>3 DEF RecordFailure
  <2> QED  BY <1>1, <2>1 DEF BreakerTypes, OneTimer, BreakerRests
<1> QED  BY <1>2, <1>3

LEMMA TimerFiresStep == ASSUME BreakerInv, TimerFires PROVE BreakerInv'
<1> USE DEF BreakerInv
<1>1. /\ timers # <<>> /\ Head(timers) <= time /\ timers' = Tail(timers) /\ circuit' = "HALF_OPEN"
      /\ UNCHANGED <<time, failures, openedAt, entangled>>
  BY DEF TimerFires
<1>2. BreakerTypes'
  BY <1>1, HeadTailProperties DEF BreakerTypes
<1>3. CASE entangled
  BY <1>1, <1>2, <1>3 DEF OneTimer, BreakerRests
<1>4. CASE ~entangled
  <2>1. circuit = "OPEN" /\ timers = <<openedAt + ResetTimeout>>
    BY <1>1, <1>4 DEF OneTimer
  <2>2. timers' = <<>> /\ time >= openedAt + ResetTimeout
    BY <1>1, <2>1 DEF BreakerTypes
  <2> QED
    BY <1>1, <1>2, <2>1, <2>2 DEF OneTimer, BreakerRests
<1> QED  BY <1>3, <1>4

\* An open breaker always has its timer, and rests for its timeout unless openings
\* were entangled (recordFailure, resetTimer).
THEOREM BreakerAlwaysRests == BreakerSpec => []BreakerRests
<1>1. BreakerInv /\ [BreakerNext]_breakerVars => BreakerInv'
  <2> SUFFICES ASSUME BreakerInv, [BreakerNext]_breakerVars PROVE BreakerInv'
    OBVIOUS
  <2> USE DEF BreakerInv
  <2>1. CASE Elapse
    BY <2>1 DEF Elapse, BreakerTypes, OneTimer, BreakerRests, Unopened
  <2>2. CASE TimerFires
    BY <2>2, TimerFiresStep
  <2>3. ASSUME NEW p \in Pin, Attempt(p) \/ Retry(p) PROVE BreakerInv'
    BY <2>3 DEF Attempt, Retry, BreakerTypes, OneTimer, BreakerRests
  <2>4. ASSUME NEW p \in Pin, CallSucceeds(p) PROVE BreakerInv'
    BY <2>4 DEF CallSucceeds, BreakerTypes, OneTimer, BreakerRests
  <2>5. ASSUME NEW p \in Pin, CallFails(p) PROVE BreakerInv'
    BY <2>5, RecordFailureStep DEF CallFails
  <2>6. CASE UNCHANGED breakerVars
    BY <2>6 DEF breakerVars, BreakerTypes, OneTimer, BreakerRests
  <2> QED  BY <2>1, <2>2, <2>3, <2>4, <2>5, <2>6 DEF BreakerNext
<1>2. BreakerInv => BreakerRests
  BY DEF BreakerInv
<1> QED  BY BreakerStarts, <1>1, <1>2, PTL DEF BreakerSpec

=============================================================================
