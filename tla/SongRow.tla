------------------------------- MODULE SongRow -------------------------------
(***************************************************************************)
(* The services that read a row of songs, change some columns and save the *)
(* whole copy: minting, edits, moderation, content reports and takedowns.  *)
(* Repository.save() writes every column in which the copy differs from    *)
(* the row of that moment, so a slow request puts old values back, and     *)
(* inserts the row again when it was removed in between.                   *)
(*                                                                         *)
(* One song.  Of its columns two are kept: mintStatus, and the flag that   *)
(* hides it, with whether flaggedBy is null.                               *)
(***************************************************************************)
EXTENDS Naturals, FiniteSets

CONSTANTS
    Takedown,
    Report,     \* at most one per reporter
    Threshold,  \* REPORT_AUTO_FLAG_THRESHOLD
    SongWriter, \* requests in progress
    MaxWriters  \* bound: requests begun

VARIABLES
    song,
    takedown, report,
    writer,
    begun,    \* bound
    chain,    \* whether a mint transaction of the song has landed, or will
    doubtful, \* history: the outcome of a transaction was not seen, or not kept
    lifted    \* history: takedowns undone by a decision or an overlapping request

vars == <<song, takedown, report, writer, begun, chain, doubtful, lifted>>

\* "auto": flagged with flaggedBy null.
Song == [there : BOOLEAN, mint : {"not_minted", "minted", "failed"}, flag : {"off", "auto", "manual"}]
Claim == [status : {"pending", "approved", "rejected", "reversed"}, wasFlagged : BOOLEAN]
NoClaim == [status |-> "none"]
Gone == [status |-> "gone"]
Quiet == [at |-> "none"]

TypeOK ==
    /\ song \in Song
    /\ takedown \in [Takedown -> Claim \cup {NoClaim, Gone}]
    /\ report \in [Report -> {"none", "pending", "resolved"}]
    /\ writer \in [SongWriter -> {Quiet}
         \cup [at : {"resolved"}, flags : BOOLEAN]
         \cup [at : {"sent", "counting", "saving", "removing", "announcing"}, op : STRING, copy : Song, stale : BOOLEAN]
         \cup [at : {"saving", "closing"}, op : STRING, copy : Song, stale : BOOLEAN, t : Takedown, claim : Claim]]
    /\ begun \in 0..MaxWriters
    /\ chain \in BOOLEAN /\ doubtful \in BOOLEAN /\ lifted \subseteq Takedown

Init ==
    /\ song = [there |-> TRUE, mint |-> "not_minted", flag |-> "off"]
    /\ takedown = [t \in Takedown |-> NoClaim]
    /\ report = [r \in Report |-> "none"]
    /\ writer = [w \in SongWriter |-> Quiet]
    /\ begun = 0 /\ chain = FALSE /\ doubtful = FALSE /\ lifted = {}

----------------------------------------------------------------------------
(* Reading and saving the row *)

Become(w, state) == writer' = [writer EXCEPT ![w] = state]

Begin(w, state) ==
    /\ writer[w] = Quiet
    /\ begun < MaxWriters /\ begun' = begun + 1
    /\ Become(w, state)

\* A copy of the row, changed by op.
Copy(op, at, row) == [at |-> at, op |-> op, copy |-> row, stale |-> FALSE]

\* The song is found, and the request goes on with a copy.
Read(w, op, at, row) == song.there /\ Begin(w, Copy(op, at, row))

Hidden == song.flag # "off"
Flagged(f) == [song EXCEPT !.flag = f]

\* Decisions that show the song again.
Republishes(op) == op \in {"unflagSong", "approve", "reverse"}

Minting(w) == writer[w].at \in {"sent", "saving"} /\ writer[w].op = "mint"

\* Takedowns that hide the song: approved, or about to be recorded as such.
Standing ==
    {t \in Takedown : \/ takedown[t].status = "approved"
                      \/ \E w \in SongWriter : /\ writer[w].at = "closing" /\ writer[w].t = t
                                               /\ writer[w].claim.status = "approved"}

\* Copies that are not the row any more once request w has written it.
OthersStale(w, next) ==
    writer' = [v \in SongWriter |->
        IF v = w THEN next
        ELSE IF writer[v].at \in {"sent", "counting", "saving", "removing"} THEN [writer[v] EXCEPT !.stale = TRUE]
        ELSE writer[v]]

\* The worker saves its copy twice.
Again(me) == [me EXCEPT !.op = "edit", !.stale = FALSE]

\* What follows the save: the takedown is saved too, webhooks are published.
AfterSave(me) ==
    IF me.op = "process" THEN Again(me)
    ELSE IF me.op \in {"take down", "reverse"} THEN [me EXCEPT !.at = "closing"]
    ELSE IF me.op = "mint" /\ me.copy.mint = "minted" THEN [me EXCEPT !.at = "announcing"]
    ELSE Quiet

Save(w) ==
    LET me == writer[w]
    IN  /\ me.at = "saving"
        /\ song' = me.copy
        /\ OthersStale(w, AfterSave(me))
        /\ lifted' = IF me.op = "take down" THEN lifted \ {me.t}
                     ELSE IF song.flag = "manual" /\ me.copy.flag # "manual" /\ (me.stale \/ Republishes(me.op))
                     THEN lifted \cup Standing ELSE lifted
        /\ doubtful' = (doubtful \/ (me.stale /\ song.mint = "minted" /\ me.copy.mint # "minted"))
        /\ UNCHANGED <<takedown, report, begun, chain>>

\* The statement fails.  The mint has a catch, which saves the row as failed; the
\* worker goes on to its second save.
SaveFails(w) ==
    LET me == writer[w]
        again == me.op = "mint" /\ me.copy.mint = "minted"
    IN  /\ me.at = "saving"
        /\ Become(w, IF again THEN [me EXCEPT !.copy.mint = "failed"]
                     ELSE IF me.op = "process" THEN [me EXCEPT !.op = "edit"] ELSE Quiet)
        /\ doubtful' = (doubtful \/ me.op = "mint")
        /\ UNCHANGED <<song, takedown, report, begun, chain, lifted>>

\* The process dies, or another statement of the request fails.  A transaction
\* that was sent may land all the same.
Die(w) ==
    /\ writer[w] # Quiet
    /\ Become(w, Quiet)
    /\ chain' \in IF writer[w].at = "sent" THEN {chain, TRUE} ELSE {chain}
    /\ doubtful' = (doubtful \/ Minting(w))
    /\ UNCHANGED <<song, takedown, report, begun, lifted>>

----------------------------------------------------------------------------
(* Edits and moderation *)

\* Requests that change other columns.
Edit(w) ==
    /\ Read(w, "edit", "saving", song)
    /\ UNCHANGED <<song, takedown, report, chain, doubtful, lifted>>

\* A minted song keeps some of its columns.
UpdateSong(w) == Edit(w)
BulkGenreUpdate(w) == Edit(w)
UploadCoverArt(w) == Edit(w)
ApplyTemplate(w) == song.mint # "minted" /\ Edit(w)
ConfirmLyricsRights(w) == Edit(w)
TranscribeLyrics(w) == Edit(w)
Reupload(w) == Edit(w)
RollbackVersion(w) == Edit(w)

\* processSongMessage: loudness, then waveform, either of which may be missing.
ProcessSong(w) ==
    /\ Read(w, "process", "saving", song)
    /\ UNCHANGED <<song, takedown, report, chain, doubtful, lifted>>

OtherColumns(w) ==
    \/ UpdateSong(w) \/ BulkGenreUpdate(w) \/ UploadCoverArt(w) \/ ApplyTemplate(w)
    \/ ConfirmLyricsRights(w) \/ TranscribeLyrics(w)
    \/ Reupload(w) \/ RollbackVersion(w) \/ ProcessSong(w)

FlagSong(w) ==
    /\ ~Hidden
    /\ Read(w, "flagSong", "saving", Flagged("manual"))
    /\ UNCHANGED <<song, takedown, report, chain, doubtful, lifted>>

UnflagSong(w) ==
    /\ Hidden
    /\ Read(w, "unflagSong", "saving", Flagged("off"))
    /\ UNCHANGED <<song, takedown, report, chain, doubtful, lifted>>

\* bulkModerate: approve; reject and flag_for_review.
Moderate(w) ==
    /\ \/ Read(w, "approve", "saving", Flagged("off"))
       \/ Read(w, "reject", "saving", Flagged("manual"))
    /\ UNCHANGED <<song, takedown, report, chain, doubtful, lifted>>

\* deleteSong hides a minted song and removes another.
DeleteSong(w) ==
    /\ IF song.mint = "minted" THEN Read(w, "hide", "saving", Flagged("manual"))
                               ELSE Read(w, "delete", "removing", song)
    /\ UNCHANGED <<song, takedown, report, chain, doubtful, lifted>>

\* Whatever the row says by now; takedowns and reports go with it.
RemoveSong(w) ==
    /\ writer[w].at = "removing"
    /\ song' = [song EXCEPT !.there = FALSE]
    /\ takedown' = [t \in Takedown |-> IF takedown[t] = NoClaim THEN NoClaim ELSE Gone]
    /\ report' = [r \in Report |-> "none"]
    /\ OthersStale(w, Quiet)
    /\ doubtful' = (doubtful \/ song.mint = "minted")
    /\ UNCHANGED <<begun, chain, lifted>>

----------------------------------------------------------------------------
(* submitSongMintTx *)

SubmitMint(w) ==
    /\ Read(w, "mint", "sent", song)
    /\ UNCHANGED <<song, takedown, report, chain, doubtful, lifted>>

Polled(w, status) == Become(w, [writer[w] EXCEPT !.at = "saving", !.copy.mint = status])

MintLands(w) ==
    /\ writer[w].at = "sent"
    /\ Polled(w, "minted")
    /\ chain' = TRUE
    /\ UNCHANGED <<song, takedown, report, begun, doubtful, lifted>>

\* Rejected, or failed on chain.  Nothing keeps a minted song from being
\* submitted again, as a contract that refuses the second mint would answer.
MintRefused(w) ==
    /\ writer[w].at = "sent"
    /\ Polled(w, "failed")
    /\ doubtful' = (doubtful \/ writer[w].copy.mint = "minted")
    /\ UNCHANGED <<song, takedown, report, begun, chain, lifted>>

\* NOT_FOUND until the deadline, or a poll that throws.
MintTimesOut(w) ==
    /\ writer[w].at = "sent"
    /\ Polled(w, "failed")
    /\ chain' \in {chain, TRUE}
    /\ doubtful' = TRUE
    /\ UNCHANGED <<song, takedown, report, begun, lifted>>

\* Mutant: an error of the webhooks reaches the outer catch.
AnnounceThrows(w) ==
    /\ writer[w].at = "announcing"
    /\ writer' \in {[writer EXCEPT ![w] = Quiet],
                    [writer EXCEPT ![w].at = "saving", ![w].copy.mint = "failed"]}
    /\ UNCHANGED <<song, takedown, report, begun, chain, doubtful, lifted>>

\* The webhooks are published; an error is logged.
Announce(w) ==
    /\ writer[w].at = "announcing"
    /\ Become(w, Quiet)
    /\ UNCHANGED <<song, takedown, report, begun, chain, doubtful, lifted>>

----------------------------------------------------------------------------
(* ReportService *)

Pending == {r \in Report : report[r] = "pending"}

\* The song is read before the report is stored and, perhaps, scored.
SubmitReport(w, r) ==
    /\ report[r] = "none"
    /\ report' = [report EXCEPT ![r] = "pending"]
    /\ Read(w, "report", "counting", song)
    /\ UNCHANGED <<song, takedown, chain, doubtful, lifted>>

CountReports(w) ==
    /\ writer[w].at = "counting"
    /\ Become(w, IF writer[w].copy.flag # "off" \/ Cardinality(Pending) < Threshold THEN Quiet
                 ELSE [writer[w] EXCEPT !.at = "saving", !.copy.flag = "auto"])
    /\ UNCHANGED <<song, takedown, report, begun, chain, doubtful, lifted>>

\* flags: song_flagged or song_removed, against dismissed or no_action.
ResolveReport(w, r, flags) ==
    /\ r \in Pending
    /\ report' = [report EXCEPT ![r] = "resolved"]
    /\ Begin(w, [at |-> "resolved", flags |-> flags])
    /\ UNCHANGED <<song, takedown, chain, doubtful, lifted>>

\* Mutant: any flag is lifted, whoever set it.
DismissLiftsAny(w) ==
    /\ writer[w].at = "resolved"
    /\ Become(w, IF ~song.there THEN Quiet
                 ELSE IF writer[w].flags THEN Copy("resolution", "saving", Flagged("manual"))
                 ELSE IF Pending = {} /\ Hidden THEN Copy("resolution", "saving", Flagged("off"))
                 ELSE Quiet)
    /\ UNCHANGED <<song, takedown, report, begun, chain, doubtful, lifted>>

\* A dismissal lifts an automatic flag when it was the last pending report.
ApplyResolution(w) ==
    /\ writer[w].at = "resolved"
    /\ Become(w, IF ~song.there THEN Quiet
                 ELSE IF writer[w].flags THEN Copy("resolution", "saving", Flagged("manual"))
                 ELSE IF Pending = {} /\ song.flag = "auto" THEN Copy("resolution", "saving", Flagged("off"))
                 ELSE Quiet)
    /\ UNCHANGED <<song, takedown, report, begun, chain, doubtful, lifted>>

----------------------------------------------------------------------------
(* TakedownService *)

FileTakedown(t) ==
    /\ takedown[t] = NoClaim /\ song.there
    /\ takedown' = [takedown EXCEPT ![t] = [status |-> "pending", wasFlagged |-> Hidden]]
    /\ UNCHANGED <<song, report, writer, begun, chain, doubtful, lifted>>

\* reviewRequest with a copy of the takedown and one of the song.
Review(w, t, op, at, row, claim) ==
    /\ takedown[t] \notin {NoClaim, Gone} /\ song.there
    /\ Begin(w, [at |-> at, op |-> op, copy |-> row, stale |-> FALSE, t |-> t, claim |-> claim])
    /\ UNCHANGED <<song, takedown, report, chain, doubtful, lifted>>

ApproveTakedown(w, t) ==
    /\ takedown[t].status # "approved"
    /\ Review(w, t, "take down", "saving", Flagged("manual"), [status |-> "approved", wasFlagged |-> Hidden])

RejectTakedown(w, t) ==
    /\ takedown[t].status = "pending"
    /\ Review(w, t, "reject claim", "closing", song, [takedown[t] EXCEPT !.status = "rejected"])

\* The flag goes unless the song had one before.
ReverseTakedown(w, t) ==
    /\ takedown[t].status = "approved"
    /\ Review(w, t, "reverse", "saving", IF takedown[t].wasFlagged THEN song ELSE Flagged("off"),
              [takedown[t] EXCEPT !.status = "reversed"])

\* Refused when the song is gone.
SaveTakedown(w) ==
    /\ writer[w].at = "closing"
    /\ takedown' = IF song.there THEN [takedown EXCEPT ![writer[w].t] = writer[w].claim] ELSE takedown
    /\ Become(w, Quiet)
    /\ UNCHANGED <<song, report, begun, chain, doubtful, lifted>>

Next ==
    \/ \E w \in SongWriter :
         \/ Save(w) \/ SaveFails(w) \/ Die(w)
         \/ OtherColumns(w) \/ FlagSong(w) \/ UnflagSong(w) \/ Moderate(w)
         \/ DeleteSong(w) \/ RemoveSong(w)
         \/ SubmitMint(w) \/ MintLands(w) \/ MintRefused(w) \/ MintTimesOut(w) \/ Announce(w)
         \/ CountReports(w) \/ ApplyResolution(w) \/ SaveTakedown(w)
         \/ \E r \in Report : SubmitReport(w, r) \/ \E flags \in BOOLEAN : ResolveReport(w, r, flags)
         \/ \E t \in Takedown : ApproveTakedown(w, t) \/ RejectTakedown(w, t) \/ ReverseTakedown(w, t)
    \/ \E t \in Takedown : FileTakedown(t)

Spec == Init /\ [][Next]_vars

----------------------------------------------------------------------------
(* Properties *)

\* A mint that landed is shown as minted once its request has ended, unless its
\* outcome was not seen or not kept: a timeout, a failed statement or a dead
\* process, a second submission that failed, or an overlapping request that
\* saved an older copy, or removed the song for one.
LandedIsMinted ==
    chain /\ (\A w \in SongWriter : ~Minting(w)) => (song.there /\ song.mint = "minted") \/ doubtful

\* A song taken down stays hidden until an administrator shows it again (which
\* the reversal of another takedown does too) or an overlapping request saves an
\* older copy: reports, dismissals, edits and mints never do.
TakenDownStaysHidden ==
    \A t \in Takedown : takedown[t].status = "approved" /\ ~Hidden => t \in lifted

=============================================================================
