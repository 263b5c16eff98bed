---------------------------- MODULE PlaylistAccess ----------------------------
(***************************************************************************)
(* Who may read and edit one playlist (PlaylistService): its owner, who    *)
(* invites and removes collaborators and may delete it; editors, who may   *)
(* update it as the owner does; and followers.  Every request reads the    *)
(* playlist, checks the right of whoever asks, and writes an await later   *)
(* without looking again; save() writes each column of its copy that       *)
(* differs, and inserts the row when it is gone.  The songs are in         *)
(* Playlists.                                                              *)
(***************************************************************************)
EXTENDS Integers

CONSTANTS
    Guest,      \* users other than the owner
    Visit,      \* requests in progress
    MaxVisits,  \* bound: requests
    MaxInvited  \* bound: rows of collaborators

VARIABLES
    playlist,      \* the row: whether it is public
    collaborator,  \* the row of each guest: nth identifies it
    follower,      \* playlist_follows
    visit,         \* requests between their read and their write
    visits, rows,  \* bounds
    wanted,        \* history: the visibility last asked for
    muddled,       \* history: an older copy was saved since then
    invited,       \* history: guests invited and not removed since
    exposed,       \* history: guests whose row went while a role change had read it
    barred,        \* history: guests who lost the right to read
    removal        \* history: whether the playlist was deleted, and while an update had read it

vars == <<playlist, collaborator, follower, visit, visits, rows, wanted, muddled, invited, exposed,
          barred, removal>>

Gone == [there |-> FALSE]
NoRow == [nth |-> 0]
NoVisit == [at |-> "none"]
Role == {"editor", "viewer"}
CollaboratorRow == [nth : 1..MaxInvited, role : Role]
Owner == "owner"

Collaborators == {g \in Guest : collaborator[g] # NoRow}
Readers == IF playlist = Gone THEN {} ELSE IF playlist.public THEN Guest ELSE Collaborators

TypeOK ==
    /\ playlist \in [there : {TRUE}, public : BOOLEAN] \cup {Gone}
    /\ collaborator \in [Guest -> CollaboratorRow \cup {NoRow}]
    /\ follower \subseteq Guest
    /\ \A v \in Visit :
         \/ visit[v] = NoVisit
         \/ visit[v] \in [at : {"reading", "updating"}, by : Guest \cup {Owner}, copy : {playlist} \cup
                          [there : {TRUE}, public : BOOLEAN], wish : {"public", "private", "other"}, stale : BOOLEAN]
         \/ visit[v] \in [at : {"deleting"}]
         \/ visit[v] \in [at : {"inviting"}, guest : Guest, role : Role]
         \/ visit[v] \in [at : {"regrading"}, guest : Guest, copy : CollaboratorRow]
         \/ visit[v] \in [at : {"looking", "following"}, guest : Guest]
    /\ visits \in 0..MaxVisits /\ rows \in 0..MaxInvited
    /\ wanted \in BOOLEAN /\ muddled \in BOOLEAN
    /\ invited \subseteq Guest /\ exposed \subseteq Guest /\ barred \subseteq Guest
    /\ removal \in {"never", "clean", "read"}

Init ==
    /\ playlist \in [there : {TRUE}, public : BOOLEAN]
    /\ collaborator = [g \in Guest |-> NoRow] /\ follower = {}
    /\ visit = [v \in Visit |-> NoVisit] /\ visits = 0 /\ rows = 0
    /\ wanted = playlist.public /\ muddled = FALSE
    /\ invited = {} /\ exposed = {} /\ barred = {} /\ removal = "never"

----------------------------------------------------------------------------

\* A request has read the playlist.
Begin(v, state) ==
    /\ visit[v] = NoVisit /\ playlist # Gone
    /\ visits < MaxVisits /\ visits' = visits + 1
    /\ visit' = [visit EXCEPT ![v] = state]
    /\ UNCHANGED <<playlist, collaborator, follower, rows, wanted, muddled, invited, exposed, barred, removal>>

\* A further read of the request.
Go(v, state) ==
    /\ visit' = [visit EXCEPT ![v] = state]
    /\ UNCHANGED <<playlist, collaborator, follower, visits, rows, wanted, muddled, invited, exposed, barred, removal>>

\* The request fails: on a check, on a constraint, or with its process.
Fail(v) == visit[v] # NoVisit /\ Go(v, NoVisit)

Bar == barred' = barred \cup (Readers \ Readers')

\* update: the owner is let through, an editor after a second read.
Update(v) ==
    \E by \in Guest \cup {Owner}, wish \in {"public", "private", "other"} :
        Begin(v, [at |-> IF by = Owner THEN "updating" ELSE "reading", by |-> by,
                  copy |-> playlist, wish |-> wish, stale |-> FALSE])

FindEditor(v) ==
    /\ visit[v].at = "reading"
    /\ collaborator[visit[v].by] # NoRow /\ collaborator[visit[v].by].role = "editor"
    /\ Go(v, [visit[v] EXCEPT !.at = "updating"])

\* Mutant: the default of create, isPublic ?? true.
WishedOrPublic(me) == IF me.wish = "other" THEN TRUE ELSE me.wish = "public"

\* What the request changes in its copy.
Wished(me) == IF me.wish = "other" THEN me.copy.public ELSE me.wish = "public"

\* save(); the other requests hold an older copy from here on.
SaveUpdate(v) ==
    LET me == visit[v]
    IN  /\ me.at = "updating"
        /\ playlist' = [there |-> TRUE, public |-> Wished(me)]
        /\ wanted' = IF me.wish = "other" THEN wanted ELSE me.wish = "public"
        /\ muddled' = IF me.wish = "other" THEN muddled \/ me.stale ELSE FALSE
        /\ visit' = [w \in Visit |-> IF w = v THEN NoVisit
                                     ELSE IF visit[w].at \in {"reading", "updating"}
                                     THEN [visit[w] EXCEPT !.stale = TRUE] ELSE visit[w]]
        /\ UNCHANGED <<collaborator, follower, visits, rows, invited, exposed, removal>>
        /\ Bar

\* remove: getOwnedPlaylist, then the DELETE, which cascades.
Remove(v) == Begin(v, [at |-> "deleting"])

Regrading == {visit[v].guest : v \in {w \in Visit : visit[w].at = "regrading"}}

DeletePlaylist(v) ==
    /\ visit[v].at = "deleting"
    /\ playlist' = Gone
    /\ collaborator' = [g \in Guest |-> NoRow] /\ follower' = {}
    /\ invited' = {} /\ exposed' = exposed \cup Regrading
    /\ removal' = IF removal = "read" \/ \E w \in Visit : visit[w].at \in {"reading", "updating"}
                  THEN "read" ELSE "clean"
    /\ visit' = [visit EXCEPT ![v] = NoVisit]
    /\ UNCHANGED <<visits, rows, wanted, muddled>>
    /\ Bar

\* addCollaborator
Invite(v) ==
    \E g \in Guest, r \in Role : Begin(v, [at |-> "inviting", guest |-> g, role |-> r])

InsertCollaborator(v) ==
    LET g == visit[v].guest
    IN  /\ visit[v].at = "inviting"
        /\ playlist # Gone /\ collaborator[g] = NoRow
        /\ rows < MaxInvited /\ rows' = rows + 1
        /\ collaborator' = [collaborator EXCEPT ![g] = [nth |-> rows + 1, role |-> visit[v].role]]
        /\ invited' = invited \cup {g}
        /\ visit' = [visit EXCEPT ![v] = NoVisit]
        /\ UNCHANGED <<playlist, follower, visits, wanted, muddled, exposed, barred, removal>>

\* updateCollaboratorRole: the row is read, and saved with another role, anew if it
\* is gone; not if another one is in its place.
ChangeRole(v) ==
    \E g \in Collaborators, r \in Role :
        Begin(v, [at |-> "regrading", guest |-> g, copy |-> [collaborator[g] EXCEPT !.role = r]])

SaveRole(v) ==
    LET me == visit[v]
    IN  /\ me.at = "regrading"
        /\ playlist # Gone /\ collaborator[me.guest].nth \in {0, me.copy.nth}
        /\ collaborator' = [collaborator EXCEPT ![me.guest] = me.copy]
        /\ visit' = [visit EXCEPT ![v] = NoVisit]
        /\ UNCHANGED <<playlist, follower, visits, rows, wanted, muddled, invited, exposed, barred, removal>>

\* removeCollaborator, by the owner or by the guest: the owner never changes, so the
\* check cannot go stale.
RemoveCollaborator(g) ==
    /\ g \in Collaborators
    /\ collaborator' = [collaborator EXCEPT ![g] = NoRow]
    /\ invited' = invited \ {g}
    /\ exposed' = exposed \cup ({g} \cap Regrading)
    /\ UNCHANGED <<playlist, follower, visit, visits, rows, wanted, muddled, removal>>
    /\ Bar

\* followPlaylist: a private playlist is looked up among the guest's rows.
Follow(v) ==
    \E g \in Guest :
        Begin(v, [at |-> IF playlist.public THEN "following" ELSE "looking", guest |-> g])

FindCollaborator(v) ==
    /\ visit[v].at = "looking" /\ visit[v].guest \in Collaborators
    /\ Go(v, [visit[v] EXCEPT !.at = "following"])

InsertFollow(v) ==
    /\ visit[v].at = "following"
    /\ playlist # Gone /\ visit[v].guest \notin follower
    /\ follower' = follower \cup {visit[v].guest}
    /\ visit' = [visit EXCEPT ![v] = NoVisit]
    /\ UNCHANGED <<playlist, collaborator, visits, rows, wanted, muddled, invited, exposed, barred, removal>>

Unfollow(g) ==
    /\ g \in follower /\ follower' = follower \ {g}
    /\ UNCHANGED <<playlist, collaborator, visit, visits, rows, wanted, muddled, invited, exposed, barred, removal>>

Next ==
    \/ \E g \in Guest : RemoveCollaborator(g) \/ Unfollow(g)
    \/ \E v \in Visit :
         \/ Update(v) \/ FindEditor(v) \/ SaveUpdate(v)
         \/ Remove(v) \/ DeletePlaylist(v)
         \/ Invite(v) \/ InsertCollaborator(v) \/ ChangeRole(v) \/ SaveRole(v)
         \/ Follow(v) \/ FindCollaborator(v) \/ InsertFollow(v)
         \/ Fail(v)

Spec == Init /\ [][Next]_vars

----------------------------------------------------------------------------
(* Properties *)

\* The playlist is as visible as was last asked for, unless an update that asked for
\* something else saved an older copy; its collaborators are those the owner invited
\* and nobody removed, unless a role change had read one that was removed; whoever
\* follows it may read it, or lost that right; and once deleted it stays so, unless
\* an update had read it.
AccessAsGranted ==
    /\ playlist # Gone => playlist.public = wanted \/ muddled
    /\ Collaborators \subseteq invited \cup exposed
    /\ follower \subseteq Readers \cup barred
    /\ removal = "clean" => playlist = Gone

=============================================================================
