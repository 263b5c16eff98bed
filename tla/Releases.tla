------------------------------ MODULE Releases ------------------------------
(***************************************************************************)
(* One release (ReleaseService, ScheduledReleasePublishJob) and the fans   *)
(* who pre-save it (PreSaveService).  A release is out when its date has   *)
(* arrived; publishing it copies its tracks into the library of every fan  *)
(* with a pending pre-save, one row at a time, and then marks the          *)
(* pre-saves fulfilled.                                                    *)
(*                                                                         *)
(* Times are compared with the clock only; titles, covers and the owner    *)
(* check are left out.                                                     *)
(***************************************************************************)
EXTENDS Naturals, FiniteSets

CONSTANTS
    Fan,
    Track,       \* songs of the release
    Publisher,   \* requests and job runs that write the release
    MaxPreSaves, \* bound: pre-saves per fan
    MaxPublishes \* bound: publishers begun

VARIABLES
    release,   \* its row
    tracks,    \* release_tracks
    presave,   \* row of each fan: nth identifies it
    library,   \* user_saves of each fan
    fan,       \* pre-save requests between their checks and their insert
    publisher,
    joined, begunReleases, \* bounds
    delivered, \* history: what each fan's library was ever given or had
    missed,    \* history: fans that no complete publish could have reached
    hasty      \* history: a publish read the tracks before they were stored

vars == <<release, tracks, presave, library, fan, publisher, joined, begunReleases, delivered, missed, hasty>>

NoPreSave == [status |-> "none"]
PreSave == [status : {"pending", "fulfilled"}, nth : 1..MaxPreSaves]
Row == [date : {"upcoming", "out"}, status : {"draft", "scheduled", "published"}]
Quiet == [at |-> "none"]
PendingRow == Fan \X (1..MaxPreSaves)

TypeOK ==
    /\ release \in Row
    /\ tracks \subseteq Track
    /\ presave \in [Fan -> PreSave \cup {NoPreSave}]
    /\ library \in [Fan -> SUBSET Track] /\ delivered \in [Fan -> SUBSET Track]
    /\ fan \in [Fan -> {"idle", "checked"}]
    /\ publisher \in [Publisher -> {Quiet} \cup
         [at : {"saving"}, was : {"upcoming", "out"}, row : Row, fulfils : BOOLEAN] \cup [at : {"listing"}] \cup
         [at : {"listed", "copying", "marking"}, rows : SUBSET PendingRow, todo : SUBSET (Fan \X Track)]]
    /\ joined \in [Fan -> 0..MaxPreSaves] /\ begunReleases \in 0..MaxPublishes
    /\ missed \subseteq Fan /\ hasty \in BOOLEAN

\* create has saved the row; the tracks follow.
Init ==
    /\ release \in [date : {"upcoming"}, status : {"draft", "scheduled", "published"}]
    /\ tracks = {}
    /\ presave = [f \in Fan |-> NoPreSave]
    /\ library = [f \in Fan |-> {}] /\ delivered = [f \in Fan |-> {}]
    /\ fan = [f \in Fan |-> "idle"]
    /\ publisher = [p \in Publisher |-> Quiet]
    /\ joined = [f \in Fan |-> 0] /\ begunReleases = 0
    /\ missed = {} /\ hasty = FALSE

StoreTracks ==
    /\ tracks = {}
    /\ tracks' = Track
    /\ UNCHANGED <<release, presave, library, fan, publisher, joined, begunReleases, delivered, missed, hasty>>

Pending == {f \in Fan : presave[f].status = "pending"}

\* The date passes and nothing runs: scheduled jobs look at scheduledAt only.
DateArrives ==
    /\ release.date = "upcoming"
    /\ release' = [release EXCEPT !.date = "out"]
    /\ missed' = missed \cup Pending
    /\ UNCHANGED <<tracks, presave, library, fan, publisher, joined, begunReleases, delivered, hasty>>

----------------------------------------------------------------------------
(* Fans *)

CheckPreSave(f) ==
    /\ fan[f] = "idle" /\ release.date = "upcoming" /\ presave[f] = NoPreSave
    /\ fan' = [fan EXCEPT ![f] = "checked"]
    /\ UNCHANGED <<release, tracks, presave, library, publisher, joined, begunReleases, delivered, missed, hasty>>

\* The insert; the unique index turns a second row into the first.
StorePreSave(f) ==
    /\ fan[f] = "checked" /\ joined[f] < MaxPreSaves
    /\ fan' = [fan EXCEPT ![f] = "idle"]
    /\ IF presave[f] = NoPreSave
       THEN /\ joined' = [joined EXCEPT ![f] = @ + 1]
            /\ presave' = [presave EXCEPT ![f] = [status |-> "pending", nth |-> joined[f] + 1]]
            /\ missed' = IF release.date = "out" THEN missed \cup {f} ELSE missed \ {f}
       ELSE UNCHANGED <<joined, presave, missed>>
    /\ UNCHANGED <<release, tracks, library, publisher, begunReleases, delivered, hasty>>

UnPreSave(f) ==
    /\ presave[f] # NoPreSave
    /\ presave' = [presave EXCEPT ![f] = NoPreSave]
    /\ UNCHANGED <<release, tracks, library, fan, publisher, joined, begunReleases, delivered, missed, hasty>>

Unsave(f, t) ==
    /\ t \in library[f]
    /\ library' = [library EXCEPT ![f] = @ \ {t}]
    /\ UNCHANGED <<release, tracks, presave, fan, publisher, joined, begunReleases, delivered, missed, hasty>>

----------------------------------------------------------------------------
(* Writers of the release *)

Become(p, state) == publisher' = [publisher EXCEPT ![p] = state]

Begin(p, state) ==
    /\ publisher[p] = Quiet
    /\ begunReleases < MaxPublishes /\ begunReleases' = begunReleases + 1
    /\ Become(p, state)
    /\ UNCHANGED <<release, tracks, presave, library, fan, joined, delivered, missed, hasty>>

\* The second publish of the class, which replaces the first: it moves the date
\* and leaves the status alone.
Publish(p) ==
    Begin(p, IF release.date = "out" THEN [at |-> "listing"]
             ELSE [at |-> "saving", was |-> "upcoming", row |-> [release EXCEPT !.date = "out"], fulfils |-> TRUE])

\* Mutant: wasUpcoming is computed after the assignment.
UpdateAfterAssignment(p) ==
    \E row \in Row :
        Begin(p, [at |-> "saving", was |-> release.date, row |-> row, fulfils |-> FALSE])

Update(p) ==
    \E row \in Row :
        Begin(p, [at |-> "saving", was |-> release.date, row |-> row,
                  fulfils |-> release.date = "upcoming" /\ row.date = "out"])

\* publishScheduledReleases: the status alone.
PublishScheduled(p) ==
    /\ release.status = "scheduled"
    /\ Begin(p, [at |-> "saving", was |-> release.date, row |-> [release EXCEPT !.status = "published"], fulfils |-> FALSE])

\* The whole row is saved, its date as it was read.
SaveRelease(p) ==
    LET me == publisher[p]
    IN  /\ me.at = "saving"
        /\ release' = me.row
        /\ Become(p, IF me.fulfils THEN [at |-> "listing"] ELSE Quiet)
        /\ missed' = IF release.date = "upcoming" /\ me.row.date = "out" /\ me.was = "out"
                     THEN missed \cup Pending ELSE missed
        /\ UNCHANGED <<tracks, presave, library, fan, joined, begunReleases, delivered, hasty>>

----------------------------------------------------------------------------
(* fulfillForRelease *)

Rows(p) == publisher[p].rows

\* Mutant: the rows are marked as soon as they are listed.
ListAndMark(p) ==
    /\ publisher[p].at = "listing"
    /\ Become(p, IF Pending = {} THEN Quiet
                 ELSE [at |-> "listed", rows |-> {<<f, presave[f].nth>> : f \in Pending}, todo |-> {}])
    /\ presave' = [f \in Fan |-> IF f \in Pending THEN [presave[f] EXCEPT !.status = "fulfilled"] ELSE presave[f]]
    /\ UNCHANGED <<release, tracks, library, fan, joined, begunReleases, delivered, missed, hasty>>

List(p) ==
    /\ publisher[p].at = "listing"
    /\ Become(p, IF Pending = {} THEN Quiet
                 ELSE [at |-> "listed", rows |-> {<<f, presave[f].nth>> : f \in Pending}, todo |-> {}])
    /\ UNCHANGED <<release, tracks, presave, library, fan, joined, begunReleases, delivered, missed, hasty>>

ReadTracks(p) ==
    /\ publisher[p].at = "listed"
    /\ Become(p, IF tracks = {} THEN [publisher[p] EXCEPT !.at = "marking"]
                 ELSE [publisher[p] EXCEPT !.at = "copying", !.todo = {r[1] : r \in Rows(p)} \X tracks])
    /\ hasty' = (hasty \/ tracks = {})
    /\ UNCHANGED <<release, tracks, presave, library, fan, joined, begunReleases, delivered, missed>>

\* One track of one fan: found, inserted, or inserted by another publisher.
CopyTrack(p, f, t) ==
    LET left == publisher[p].todo \ {<<f, t>>}
    IN  /\ publisher[p].at = "copying" /\ <<f, t>> \in publisher[p].todo
        /\ library' = [library EXCEPT ![f] = @ \cup {t}]
        /\ delivered' = [delivered EXCEPT ![f] = @ \cup {t}]
        /\ Become(p, [publisher[p] EXCEPT !.at = IF left = {} THEN "marking" ELSE "copying", !.todo = left])
        /\ UNCHANGED <<release, tracks, presave, fan, joined, begunReleases, missed, hasty>>

\* save(pending), one transaction: a row deleted meanwhile is inserted again, and
\* a new one in its place violates the unique index.
Mark(p) ==
    /\ publisher[p].at = "marking"
    /\ \A r \in Rows(p) : presave[r[1]] # NoPreSave => presave[r[1]].nth = r[2]
    /\ presave' = [f \in Fan |-> LET own == {n \in 1..MaxPreSaves : <<f, n>> \in Rows(p)}
                                 IN  IF own = {} THEN presave[f]
                                     ELSE [status |-> "fulfilled", nth |-> CHOOSE n \in own : TRUE]]
    /\ Become(p, Quiet)
    /\ UNCHANGED <<release, tracks, library, fan, joined, begunReleases, delivered, missed, hasty>>

\* A statement fails (as the save above), or the process dies.
Abort(p) ==
    /\ publisher[p] # Quiet
    /\ Become(p, Quiet)
    /\ missed' = missed \cup Pending
    /\ UNCHANGED <<release, tracks, presave, library, fan, joined, begunReleases, delivered, hasty>>

Next ==
    \/ StoreTracks \/ DateArrives
    \/ \E f \in Fan :
         \/ CheckPreSave(f) \/ StorePreSave(f) \/ UnPreSave(f)
         \/ \E t \in Track : Unsave(f, t) \/ \E p \in Publisher : CopyTrack(p, f, t)
    \/ \E p \in Publisher :
         \/ Publish(p) \/ Update(p) \/ PublishScheduled(p) \/ SaveRelease(p)
         \/ List(p) \/ ReadTracks(p) \/ Mark(p) \/ Abort(p)

Spec == Init /\ [][Next]_vars

----------------------------------------------------------------------------
(* Properties *)

\* A pre-save is fulfilled only when every track of the release has reached the
\* fan's library, whatever publishers overlap or die, unless the release was
\* published before create had stored its tracks.  "On publish the pre-saves are
\* fulfilled": none is left pending once the publishers are done, except those
\* that no complete publish could reach: stored after the date, or met by a date
\* that came by itself, by an older row being saved, or by a publish that died.
PreSavesAreFulfilled ==
    /\ \A f \in Fan : presave[f].status = "fulfilled" => Track \subseteq delivered[f] \/ hasty
    /\ release.date = "out" /\ (\A p \in Publisher : publisher[p] = Quiet) => Pending \subseteq missed

=============================================================================
