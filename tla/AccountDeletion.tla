-------------------------- MODULE AccountDeletion --------------------------
(***************************************************************************)
(* Account deletion (AccountDeletionService, AccountDeletionJob) beside    *)
(* the other writers of a user row: profile edits (UserService,            *)
(* ArtistProfileService) and merges (AccountMergeService).                 *)
(*                                                                         *)
(* A request reads the row, and writes it some awaits later.  An edit or a *)
(* merge saves its whole copy (Repository.save writes each column that     *)
(* differs); a deletion request, a cancellation and the erasure update     *)
(* their own columns only.                                                 *)
(*                                                                         *)
(* Purged tables, caches and the Privy identity are left out.              *)
(***************************************************************************)
EXTENDS Naturals, FiniteSets, SequencesExt

CONSTANTS
    User,
    Caller,      \* requests of deletion or cancellation in progress
    Purger,      \* runs of the job: the scheduler's and operators'
    Editor,      \* profile edits and merges in progress
    MaxRequests, \* bound: deletion requests per user
    MaxEdits     \* bound: edits and merges

VARIABLES
    account,   \* rows of users: the deletion columns and three identifying ones
    requests,  \* rows of account_deletion_requests of each user, their status
    call, purger, editor,
    edits,     \* bound
    kept,      \* history: users whose cancellation took effect on a live account
    exposed,   \* history: users erased while an edit held a copy of their row, or
               \* whose deletion columns were named by the body of a request
    unrecorded \* history: users whose erasure is due without a 'requested' row

vars == <<account, requests, call, purger, editor, edits, kept, exposed, unrecorded>>
ghosts == <<kept, exposed, unrecorded>>

\* The identifying columns, in the order of ANONYMISED_FIELDS.
Field == <<"email", "username", "name">>

\* The values bound to $1, $2, ...: deletedAt, role, isProfilePublic, nulls.
Params == <<"date", "role", "false">> \o [i \in DOMAIN Field |-> "null"]

\* The placeholder of the i-th field (from 0) is $(i + 2).
Anonymised(i) == Params[(i - 1) + 2]

Column == 1..Len(Field)
UserRow == [deleted : BOOLEAN, asked : BOOLEAN, schedule : {"none", "later", "due"},
            identity : [Column -> {"own"} \cup Range(Params)]]
Tombstone == [i \in Column |-> Anonymised(i)]
Own == [i \in Column |-> "own"]
RequestStatus == {"requested", "cancelled", "completed", "failed"}

Quiet == [op |-> "none"]
Waiting == [at |-> "idle", todo |-> {}]

TypeOK ==
    /\ account \in [User -> UserRow]
    /\ \A u \in User : requests[u] \in Seq(RequestStatus)
    /\ call \in [Caller -> [op : {"request", "cancel"}, user : User] \cup {Quiet}]
    /\ purger \in [Purger -> [at : {"idle"}, todo : SUBSET User] \cup
                             [at : {"checked", "threw"}, todo : SUBSET User, user : User]]
    /\ editor \in [Editor -> {Quiet} \cup [op : {"edit"}, user : User, copy : UserRow] \cup
                     [op : {"merge"}, user : User, copy : UserRow, other : User, otherCopy : UserRow]]
    /\ edits \in 0..MaxEdits
    /\ kept \subseteq User /\ exposed \subseteq User /\ unrecorded \subseteq User

Init ==
    /\ account = [u \in User |-> [deleted |-> FALSE, asked |-> FALSE, schedule |-> "none",
                                  identity |-> Own]]
    /\ requests = [u \in User |-> <<>>]
    /\ call = [c \in Caller |-> Quiet]
    /\ purger = [p \in Purger |-> Waiting]
    /\ editor = [e \in Editor |-> Quiet]
    /\ edits = 0 /\ kept = {} /\ exposed = {} /\ unrecorded = {}

----------------------------------------------------------------------------
(* Helpers *)

Pending(u) == "requested" \in ToSet(requests[u])

\* UPDATE ... SET status = s WHERE userId = u AND status = 'requested'.
Resolve(u, s) ==
    [requests EXCEPT ![u] = [i \in DOMAIN @ |-> IF @[i] = "requested" THEN s ELSE @[i]]]

\* Editors that hold a copy of u's row.
Holders(u) ==
    {e \in Editor : \/ editor[e].op # "none" /\ editor[e].user = u
                    \/ editor[e].op = "merge" /\ editor[e].other = u}

InPurge(u) == \E p \in Purger : purger[p].at = "checked" /\ purger[p].user = u

----------------------------------------------------------------------------
(* requestDeletion, cancelDeletion *)

\* The checks of requestDeletion; with a 'requested' row it only returns that.
AskBegin(c, u) ==
    /\ call[c] = Quiet
    /\ ~account[u].deleted /\ ~Pending(u)
    /\ call' = [call EXCEPT ![c] = [op |-> "request", user |-> u]]
    /\ UNCHANGED <<account, requests, purger, editor, edits, ghosts>>

\* Mutant: the request clears deletedAt along with its own columns.
AskClearsDeletion(c) ==
    LET u == call[c].user
    IN  /\ call[c].op = "request" /\ Len(requests[u]) < MaxRequests
        /\ account' = [account EXCEPT ![u].asked = TRUE, ![u].schedule = "later", ![u].deleted = FALSE]
        /\ requests' = [requests EXCEPT ![u] = Append(@, "requested")]
        /\ call' = [call EXCEPT ![c] = Quiet]
        /\ kept' = kept \ {u}
        /\ UNCHANGED <<purger, editor, edits, exposed, unrecorded>>

AskCommit(c) ==
    LET u == call[c].user
    IN  /\ call[c].op = "request" /\ Len(requests[u]) < MaxRequests
        /\ account' = [account EXCEPT ![u].asked = TRUE, ![u].schedule = "later"]
        /\ requests' = [requests EXCEPT ![u] = Append(@, "requested")]
        /\ call' = [call EXCEPT ![c] = Quiet]
        /\ kept' = kept \ {u}
        /\ unrecorded' = IF account[u].deleted \/ Holders(u) # {} THEN unrecorded ELSE unrecorded \ {u}
        /\ UNCHANGED <<purger, editor, edits, exposed>>

CancelBegin(c, u) ==
    /\ call[c] = Quiet
    /\ ~account[u].deleted /\ account[u].asked
    /\ call' = [call EXCEPT ![c] = [op |-> "cancel", user |-> u]]
    /\ UNCHANGED <<account, requests, purger, editor, edits, ghosts>>

\* Mutant: the schedule is cleared, the request flag is not.
CancelKeepsRequest(c) ==
    LET u == call[c].user
    IN  /\ call[c].op = "cancel"
        /\ account' = [account EXCEPT ![u].schedule = "none"]
        /\ requests' = Resolve(u, "cancelled")
        /\ call' = [call EXCEPT ![c] = Quiet]
        /\ kept' = IF account[u].deleted \/ InPurge(u) \/ Holders(u) # {} THEN kept ELSE kept \cup {u}
        /\ UNCHANGED <<purger, editor, edits, exposed, unrecorded>>

\* The transaction does not look again: the account may be erased by now.
CancelCommit(c) ==
    LET u == call[c].user
    IN  /\ call[c].op = "cancel"
        /\ account' = [account EXCEPT ![u].asked = FALSE, ![u].schedule = "none"]
        /\ requests' = Resolve(u, "cancelled")
        /\ call' = [call EXCEPT ![c] = Quiet]
        /\ kept' = IF account[u].deleted \/ InPurge(u) \/ Holders(u) # {} THEN kept ELSE kept \cup {u}
        /\ unrecorded' = IF InPurge(u) \/ Holders(u) # {} THEN unrecorded \cup {u} ELSE unrecorded
        /\ UNCHANGED <<purger, editor, edits, exposed>>

GraceElapses(u) ==
    /\ account[u].schedule = "later"
    /\ account' = [account EXCEPT ![u].schedule = "due"]
    /\ UNCHANGED <<requests, call, purger, editor, edits, ghosts>>

----------------------------------------------------------------------------
(* processDueDeletions and purgeUser *)

\* The accounts that are due are listed once, at the start of a run.
ListDue(p) ==
    LET due == {u \in User : ~account[u].deleted /\ account[u].asked /\ account[u].schedule = "due"}
    IN  /\ purger[p] = Waiting /\ due # {}
        /\ purger' = [purger EXCEPT ![p].todo = due]
        /\ UNCHANGED <<account, requests, call, editor, edits, ghosts>>

\* purgeUser reads the row again: an erased one is left, one that is not due any
\* more makes it throw.
PurgeCheck(p, u) ==
    /\ purger[p].at = "idle" /\ u \in purger[p].todo
    /\ purger' = [purger EXCEPT ![p] =
         IF account[u].deleted THEN [at |-> "idle", todo |-> @.todo \ {u}]
         ELSE IF account[u].asked /\ account[u].schedule # "later"
         THEN [at |-> "checked", todo |-> @.todo \ {u}, user |-> u]
         ELSE [at |-> "threw", todo |-> @.todo \ {u}, user |-> u]]
    /\ UNCHANGED <<account, requests, call, editor, edits, ghosts>>

Continue(p) == purger' = [purger EXCEPT ![p] = [at |-> "idle", todo |-> @.todo]]

\* The transaction commits; users.email is unique.
Erase(p) ==
    LET u == purger[p].user
    IN  /\ purger[p].at = "checked"
        /\ Anonymised(1) = "null" \/ \A v \in User \ {u} : account[v].identity[1] # Anonymised(1)
        /\ account' = [account EXCEPT ![u].deleted = TRUE, ![u].identity = Tombstone]
        /\ requests' = Resolve(u, "completed")
        /\ exposed' = IF Holders(u) = {} THEN exposed ELSE exposed \cup {u}
        /\ Continue(p)
        /\ UNCHANGED <<call, editor, edits, kept, unrecorded>>

\* A statement of the transaction fails and it rolls back: one DELETE whose error
\* is caught aborts it all the same.
EraseFails(p) ==
    /\ purger[p].at = "checked"
    /\ purger' = [purger EXCEPT ![p].at = "threw"]
    /\ UNCHANGED <<account, requests, call, editor, edits, ghosts>>

\* The catch of processDueDeletions.
MarkFailed(p) ==
    LET u == purger[p].user
    IN  /\ purger[p].at = "threw"
        /\ requests' = Resolve(u, "failed")
        /\ unrecorded' = IF Pending(u) THEN unrecorded \cup {u} ELSE unrecorded
        /\ Continue(p)
        /\ UNCHANGED <<account, call, editor, edits, kept, exposed>>

PurgerDies(p) ==
    /\ purger[p] # Waiting
    /\ purger' = [purger EXCEPT ![p] = Waiting]
    /\ UNCHANGED <<account, requests, call, editor, edits, ghosts>>

----------------------------------------------------------------------------
(* Other writers of the row *)

EditBegin(e, u) ==
    /\ editor[e] = Quiet /\ edits < MaxEdits /\ edits' = edits + 1
    /\ editor' = [editor EXCEPT ![e] = [op |-> "edit", user |-> u, copy |-> account[u]]]
    /\ UNCHANGED <<account, requests, call, purger, ghosts>>

\* updateUser and updateArtistProfile assign what the body of the request names,
\* these columns among the others and on an erased row too.
BodyBegin(e, u) ==
    \E deleted, asked \in BOOLEAN, schedule \in {"none", "later", "due"}, identity \in {account[u].identity, Own} :
        /\ editor[e] = Quiet /\ edits < MaxEdits /\ edits' = edits + 1
        /\ editor' = [editor EXCEPT ![e] =
             [op |-> "edit", user |-> u,
              copy |-> [deleted |-> deleted, asked |-> asked, schedule |-> schedule, identity |-> identity]]]
        /\ kept' = kept \ {u} /\ exposed' = exposed \cup {u} /\ unrecorded' = unrecorded \cup {u}
        /\ UNCHANGED <<account, requests, call, purger>>

\* Every edit ends in save(): the copy is saved, with the columns it did not mean to change.
EditSave(e) ==
    /\ editor[e].op = "edit"
    /\ account' = [account EXCEPT ![editor[e].user] = editor[e].copy]
    /\ editor' = [editor EXCEPT ![e] = Quiet]
    /\ UNCHANGED <<requests, call, purger, edits, ghosts>>

\* mergeAccounts reads both rows.
MergeBegin(e, u, v) ==
    /\ u # v /\ ~account[v].deleted
    /\ editor[e] = Quiet /\ edits < MaxEdits /\ edits' = edits + 1
    /\ editor' = [editor EXCEPT ![e] = [op |-> "merge", user |-> u, copy |-> account[u],
                                        other |-> v, otherCopy |-> account[v]]]
    /\ UNCHANGED <<account, requests, call, purger, ghosts>>

\* Both are saved; the secondary is due at once, without a request row.
MergeSave(e) ==
    LET m == editor[e]
    IN  /\ m.op = "merge"
        /\ account' = [account EXCEPT ![m.user] = m.copy,
                                      ![m.other] = [m.otherCopy EXCEPT !.asked = TRUE, !.schedule = "due"]]
        /\ editor' = [editor EXCEPT ![e] = Quiet]
        /\ kept' = kept \ {m.other}
        /\ unrecorded' = unrecorded \cup {m.other}
        /\ UNCHANGED <<requests, call, purger, edits, exposed>>

\* The merge rolls back; it must when the primary takes over a unique column
\* (the Privy or Stellar identity, the email), which the secondary still holds.
\* Any other request may fail too.
GiveUp(e) ==
    /\ editor[e] # Quiet
    /\ editor' = [editor EXCEPT ![e] = Quiet]
    /\ UNCHANGED <<account, requests, call, purger, edits, ghosts>>

CallFails(c) ==
    /\ call[c] # Quiet
    /\ call' = [call EXCEPT ![c] = Quiet]
    /\ UNCHANGED <<account, requests, purger, editor, edits, ghosts>>

Next ==
    \/ \E c \in Caller : AskCommit(c) \/ CancelCommit(c) \/ CallFails(c)
                         \/ \E u \in User : AskBegin(c, u) \/ CancelBegin(c, u)
    \/ \E p \in Purger : ListDue(p) \/ Erase(p) \/ EraseFails(p) \/ MarkFailed(p) \/ PurgerDies(p)
                         \/ \E u \in User : PurgeCheck(p, u)
    \/ \E e \in Editor : EditSave(e) \/ MergeSave(e) \/ GiveUp(e)
                         \/ \E u \in User : \/ EditBegin(e, u) \/ BodyBegin(e, u)
                                           \/ \E v \in User : MergeBegin(e, u, v)
    \/ \E u \in User : GraceElapses(u)

Spec == Init /\ [][Next]_vars

----------------------------------------------------------------------------
(* Properties *)

\* Whoever cancels in time keeps the account: it is not erased unless they ask
\* again (or the account is merged away, or a later request's body names the
\* deletion columns).  The cancellations excepted are those that met an erasure
\* past its check, or an edit that had read the row.  And the audit trail shows a
\* completed request for every erased account, except where no 'requested' row is
\* left: an earlier attempt failed, the account was merged, a cancellation met the
\* erasure, or a body named the columns.
ErasedAsAsked ==
    \A u \in User :
        account[u].deleted => u \notin kept /\ ("completed" \in ToSet(requests[u]) \/ u \in unrecorded)

\* An erased account does not come back, unless an edit that had read the row
\* before the erasure is saved after it, or a body names deletedAt.
ErasureIsFinal ==
    [][\A u \in User : account[u].deleted /\ u \notin exposed => account'[u].deleted]_vars

\* What the class comment says of the row that is kept: every identifying field
\* is nulled.
TombstoneHoldsNoIdentity ==
    \A u \in User : account[u].deleted => \A i \in Column : account[u].identity[i] = "null"

=============================================================================
