---------------------------- MODULE SongVersions ----------------------------
(***************************************************************************)
(* Revisions of one song (SongVersionService): re-uploads and rollbacks    *)
(* append a row to song_versions and make it the active one, in separate   *)
(* statements, then save the whole song row, which other requests save     *)
(* too.  Rows are unique on (songId, versionNumber).                       *)
(*                                                                         *)
(* Of a revision the audio is kept; titles, genres and covers are left     *)
(* out, and so is the processing of the audio (SongQueue).                 *)
(***************************************************************************)
EXTENDS Naturals, Sequences, FiniteSets

CONSTANTS
    Revision,  \* requests in progress
    MaxRevised \* bound: requests begun

ASSUME SongVersionsAssumption == MaxRevised \in Nat

VARIABLES
    version,   \* the song's versions: the audio of each number
    active,    \* the numbers of those with isActive = true
    served,    \* the audio of the song row
    revising,  \* the uploads, re-uploads and rollbacks in progress
    revised,   \* bound, and the names of the uploads
    disturbed  \* history: a request failed half-way or saved an older row

vars == <<version, active, served, revising, revised, disturbed>>

Audio == 0..MaxRevised  \* 0: the first upload
Quiet == [at |-> "none"]

TypeOK ==
    /\ version \in Seq(Audio)
    /\ active \subseteq DOMAIN version
    /\ served \in Audio
    /\ revising \in [Revision -> {Quiet} \cup
         [at : {"recording", "counting", "initial", "numbering", "numbered", "demoted", "saving"},
          audio : Audio, copy : Audio, number : Nat, stale : BOOLEAN]]
    /\ revised \in 0..MaxRevised
    /\ disturbed \in BOOLEAN

\* number: versionNumber of the row to insert, 0 before it is known.
Revising(at, audio) ==
    [at |-> at, audio |-> audio, copy |-> served, number |-> 0, stale |-> FALSE]

\* A song that predates versioning, or one whose finalizeUpload has stored the
\* row and goes on to its first version.
Init ==
    /\ version = <<>> /\ active = {} /\ served = 0
    /\ revised = 0 /\ disturbed = FALSE
    /\ \E r \in Revision :
         revising \in {[s \in Revision |-> Quiet],
                      [s \in Revision |-> IF s = r THEN Revising("recording", 0) ELSE Quiet]}

----------------------------------------------------------------------------

Become(r, state) == revising' = [revising EXCEPT ![r] = state]

Begin(r, state) ==
    /\ revising[r] = Quiet
    /\ revised < MaxRevised /\ revised' = revised + 1
    /\ Become(r, state)
    /\ UNCHANGED <<version, active, served, disturbed>>

\* createVersionFromReupload reads the song.
Reupload(r) == Begin(r, Revising("counting", revised + 1))

\* rollbackVersion reads the song and the version to restore.
Rollback(r) == \E n \in DOMAIN version : Begin(r, Revising("numbering", version[n]))

\* Any other request that saves the song row.
Edit(r) == Begin(r, Revising("saving", served))

CountVersions(r) ==
    /\ revising[r].at = "counting"
    /\ Become(r, [revising[r] EXCEPT !.at = IF version = <<>> THEN "initial" ELSE "numbering"])
    /\ UNCHANGED <<version, active, served, revised, disturbed>>

\* createInitialVersion: version 1 holds what the song held when it was read.
\* Existing versions make it throw, by its own count or by the unique index; only
\* finalizeUpload goes on then.
CreateInitial(r) ==
    LET me == revising[r]
    IN  /\ me.at \in {"initial", "recording"}
        /\ IF version # <<>> THEN Become(r, Quiet) /\ UNCHANGED <<version, active>>
           ELSE /\ version' = <<me.copy>> /\ active' = {1}
                /\ Become(r, IF me.at = "recording" THEN Quiet ELSE [me EXCEPT !.at = "numbering"])
        /\ UNCHANGED <<served, revised, disturbed>>

\* getLatestVersionNumber, plus one.
NumberVersion(r) ==
    /\ revising[r].at = "numbering"
    /\ Become(r, [revising[r] EXCEPT !.at = "numbered", !.number = Len(version) + 1])
    /\ UNCHANGED <<version, active, served, revised, disturbed>>

Demote(r) ==
    /\ revising[r].at = "numbered"
    /\ active' = {}
    /\ Become(r, [revising[r] EXCEPT !.at = "demoted"])
    /\ UNCHANGED <<version, served, revised, disturbed>>

\* Mutant: the number is read after the demotion, with the insertion.
InsertNumbering(r) ==
    LET me == revising[r]
    IN  /\ me.at = "demoted"
        /\ version' = Append(version, me.audio) /\ active' = active \cup {Len(version) + 1}
        /\ Become(r, [me EXCEPT !.at = "saving", !.number = Len(version) + 1])
        /\ UNCHANGED <<served, revised, disturbed>>

\* The row is inserted as the active one, unless its number is taken.
Insert(r) ==
    LET me == revising[r]
    IN  /\ me.at = "demoted"
        /\ \/ /\ me.number = Len(version) + 1
              /\ version' = Append(version, me.audio) /\ active' = active \cup {me.number}
              /\ Become(r, [me EXCEPT !.at = "saving"])
              /\ UNCHANGED disturbed
           \/ /\ me.number \in DOMAIN version
              /\ Become(r, Quiet)
              /\ disturbed' = TRUE
              /\ UNCHANGED <<version, active>>
        /\ UNCHANGED <<served, revised>>

\* Mutant: only the metadata of the re-upload is copied to the song.
SaveSongMetadata(r) ==
    LET me == revising[r]
    IN  /\ me.at = "saving"
        /\ served' = me.copy
        /\ revising' = [revising EXCEPT ![r] = Quiet]
        /\ UNCHANGED <<version, active, revised, disturbed>>

SaveSong(r) ==
    LET me == revising[r]
    IN  /\ me.at = "saving"
        /\ served' = me.audio
        /\ revising' = [s \in Revision |-> IF s = r THEN Quiet
                         ELSE IF revising[s] = Quiet THEN Quiet
                         ELSE [revising[s] EXCEPT !.stale = TRUE]]
        /\ disturbed' = (disturbed \/ me.stale)
        /\ UNCHANGED <<version, active, revised>>

\* A statement fails, or the process dies.
Abandon(r) ==
    /\ revising[r] # Quiet
    /\ Become(r, Quiet)
    /\ disturbed' = (disturbed \/ revising[r].at = "demoted" \/ (revising[r].at = "saving" /\ revising[r].number > 0))
    /\ UNCHANGED <<version, active, served, revised>>

Next ==
    \E r \in Revision :
        \/ Reupload(r) \/ Rollback(r) \/ Edit(r)
        \/ CountVersions(r) \/ CreateInitial(r) \/ NumberVersion(r) \/ Demote(r) \/ Insert(r)
        \/ SaveSong(r) \/ Abandon(r)

Spec == Init /\ [][Next]_vars

----------------------------------------------------------------------------
(* Properties *)

\* "Only one per song": whatever re-uploads and rollbacks overlap or die, no two
\* versions are active.  No lock and no index says so; it rests on the order of
\* the three statements and on the uniqueness of the numbers.
AtMostOneActive == \A m, n \in active : m = n

\* Between requests the one active version is the audio the song serves, unless a
\* request failed half-way or two of them overlapped.
ServedIsActive ==
    (\A r \in Revision : revising[r] = Quiet) /\ version # <<>> /\ ~disturbed
      => \E n \in active : version[n] = served

=============================================================================
