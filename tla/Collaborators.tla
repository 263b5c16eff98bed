--------------------------- MODULE Collaborators ---------------------------
(***************************************************************************)
(* The collaborators of one song and their royalty shares                  *)
(* (CollaborationService).  A request sums the shares of the others, then  *)
(* saves its own; requests about a role or a dispute save the whole row    *)
(* they read, with its share.                                              *)
(*                                                                         *)
(* The artist who asks, roles and disputes are left out.  No code writes a *)
(* status other than active.                                               *)
(***************************************************************************)
EXTENDS Integers, Functions

CONSTANTS
    Member,     \* users who may be collaborators
    Share,      \* royaltyShare, in a unit that all shares are multiples of
    Whole,      \* 100 % and SHARE_TOTAL_TOLERANCE, in that unit
    Editor,     \* requests in progress
    MaxEdits    \* bound: requests begun

VARIABLES
    share,   \* royaltyShare of each row of song_collaborators
    minted,  \* mintStatus of the song
    edit,    \* what each request is about to do
    edits,   \* bound
    late     \* history: members whose share was saved on an older reading

vars == <<share, minted, edit, edits, late>>

NoRow == 0
NoEdit == [at |-> "none"]

TypeOK ==
    /\ share \in [Member -> Share \cup {NoRow}]
    /\ minted \in BOOLEAN
    /\ edit \in [Editor -> {NoEdit}
         \cup [at : {"summing"}, op : {"add", "update"}, of : Member, share : Share]
         \cup [at : {"saving"}, op : {"add", "update", "other"}, of : Member, share : Share, old : BOOLEAN]]
    /\ edits \in 0..MaxEdits
    /\ late \subseteq Member

Init ==
    /\ share = [m \in Member |-> NoRow]
    /\ minted = FALSE
    /\ edit = [e \in Editor |-> NoEdit]
    /\ edits = 0 /\ late = {}

----------------------------------------------------------------------------

Total(members) == FoldFunctionOnSet(+, 0, share, members)

Go(e, next) == edit' = [edit EXCEPT ![e] = next]

Begin(e, next) ==
    /\ edit[e] = NoEdit
    /\ edits < MaxEdits /\ edits' = edits + 1
    /\ Go(e, next)
    /\ UNCHANGED <<share, minted, late>>

Saving(op, m, s) == [at |-> "saving", op |-> op, of |-> m, share |-> s, old |-> FALSE]

\* addCollaborator: assertNotMinted, and no row yet.
Add(e, m, s) ==
    /\ ~minted /\ share[m] = NoRow
    /\ Begin(e, [at |-> "summing", op |-> "add", of |-> m, share |-> s])

\* updateCollaborator with a share: assertNotMinted, and the row is read.
Update(e, m, s) ==
    /\ ~minted /\ share[m] # NoRow
    /\ Begin(e, [at |-> "summing", op |-> "update", of |-> m, share |-> s])

\* updateCollaborator without a share, disputeSplit, resolveDispute; the latter two
\* do not look at mintStatus.
Touch(e, m) ==
    /\ share[m] # NoRow
    /\ Begin(e, Saving("other", m, share[m]))

\* Mutant: the new share is left out of the total.
SumOfOthersOnly(e) ==
    LET me == edit[e]
        others == IF me.op = "add" THEN Member ELSE Member \ {me.of}
    IN  /\ me.at = "summing"
        /\ Go(e, IF Total(others) > Whole THEN NoEdit ELSE Saving(me.op, me.of, me.share))
        /\ UNCHANGED <<share, minted, edits, late>>

\* listCollaborators and assertSharesWithin100.
Sum(e) ==
    LET me == edit[e]
        others == IF me.op = "add" THEN Member ELSE Member \ {me.of}
    IN  /\ me.at = "summing"
        /\ Go(e, IF Total(others) + me.share > Whole THEN NoEdit ELSE Saving(me.op, me.of, me.share))
        /\ UNCHANGED <<share, minted, edits, late>>

\* A second row of a member is refused by the unique constraint.
Save(e) ==
    LET me == edit[e]
        changed == share[me.of] # me.share
    IN  /\ me.at = "saving"
        /\ me.op = "add" => share[me.of] = NoRow
        /\ share' = [share EXCEPT ![me.of] = me.share]
        /\ late' = IF me.op = "other"
                   THEN IF changed THEN late \cup {me.of} ELSE late
                   ELSE IF me.old THEN late \cup {me.of} ELSE late \ {me.of}
        /\ edit' = [f \in Editor |->
             IF f = e THEN NoEdit
             ELSE IF edit[f].at = "saving" /\ changed THEN [edit[f] EXCEPT !.old = TRUE]
             ELSE edit[f]]
        /\ UNCHANGED <<minted, edits>>

\* submitSongMintTx sets mintStatus.
Mint ==
    /\ ~minted /\ minted' = TRUE
    /\ UNCHANGED <<share, edit, edits, late>>

Fail(e) ==
    /\ edit[e] # NoEdit
    /\ Go(e, NoEdit)
    /\ UNCHANGED <<share, minted, edits, late>>

Next ==
    \/ Mint
    \/ \E e \in Editor :
         \/ \E m \in Member : Touch(e, m) \/ \E s \in Share : Add(e, m, s) \/ Update(e, m, s)
         \/ Sum(e) \/ Save(e) \/ Fail(e)

Spec == Init /\ [][Next]_vars

----------------------------------------------------------------------------
(* Properties *)

\* The shares never exceed 100 %, as the service promises, counting those saved on a
\* sum or a row that was still true: an overlapping save, or one about a role or a
\* dispute that puts an older share back, is the only way past the limit.
SharesWithin100 == Total(Member \ late) <= Whole

=============================================================================
