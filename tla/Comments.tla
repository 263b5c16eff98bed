------------------------------ MODULE Comments ------------------------------
(***************************************************************************)
(* The comments of a song (CommentService) and the reports against them    *)
(* (CommentReportService).  A resolution writes the report and then, in a  *)
(* statement of its own, the flag that hides the comment; an edit saves    *)
(* the whole comment it read before.                                       *)
(*                                                                         *)
(* Texts and authors are left out: any comment may be edited or deleted.   *)
(***************************************************************************)
EXTENDS Naturals

CONSTANTS
    Comment,      \* ids of comments
    Reporter,     \* users who report
    Request,      \* requests in progress
    MaxDepth,     \* COMMENT_MAX_DEPTH, 3 at most
    MaxRequests   \* bound: requests begun

VARIABLES
    comment,
    editable,     \* comments within COMMENT_EDIT_WINDOW_MINUTES
    report,       \* rows of comment_reports, one for a comment and a reporter
    request,      \* what each request is about to do
    requests,     \* bound
    overwritten   \* history: comments whose flag and reports came apart, see HiddenAsResolved

vars == <<comment, editable, report, request, requests, overwritten>>

Top == "top"  \* the parentId of a comment on the song itself
Row == [is : {"row"}, parent : Comment \cup {Top}, depth : 1..MaxDepth, hidden : BOOLEAN]
Unwritten == [is |-> "unwritten"]
Removed == [is |-> "removed"]
NoRequest == [at |-> "none"]

TypeOK ==
    /\ comment \in [Comment -> Row \cup {Unwritten, Removed}]
    /\ editable \subseteq Comment /\ overwritten \subseteq Comment
    /\ report \in [Comment \X Reporter -> {"none", "pending", "keep", "hide"}]
    /\ request \in [Request -> {NoRequest}
         \cup [at : {"posting"}, parent : Comment \cup {Top}, depth : 1..MaxDepth]
         \cup [at : {"editing", "hiding"}, of : Comment, copy : Row]
         \cup [at : {"reporting"}, row : Comment \X Reporter]
         \cup [at : {"resolving"}, row : Comment \X Reporter, was : {"pending"},
               answer : {"keep", "hide"}, lost : BOOLEAN]
         \cup [at : {"finding"}, of : Comment]]
    /\ requests \in 0..MaxRequests

Init ==
    /\ comment = [c \in Comment |-> Unwritten]
    /\ report = [r \in Comment \X Reporter |-> "none"]
    /\ request = [q \in Request |-> NoRequest]
    /\ editable = {} /\ overwritten = {} /\ requests = 0

----------------------------------------------------------------------------
(* Rows and requests *)

Existing == {c \in Comment : comment[c].is = "row"}

\* c and what the database deletes with it.
Thread(c) ==
    LET replies(cs) == {d \in Existing : comment[d].parent \in cs}
    IN  {c} \cup replies({c}) \cup replies(replies({c}))

Go(q, next) == request' = [request EXCEPT ![q] = next]

Begin(q, next) ==
    /\ request[q] = NoRequest
    /\ requests < MaxRequests /\ requests' = requests + 1
    /\ Go(q, next)

\* commentRepo.save of a copy: the row as the request has it, inserted again if it
\* was removed, which its foreign key allows while the parent is there.
SaveCopy(c, row) ==
    /\ row.parent \in Existing \cup {Top}
    /\ comment' = [comment EXCEPT ![c] = row]
    /\ overwritten' = IF c \notin Existing \/ (comment[c].hidden /\ ~row.hidden)
                      THEN overwritten \cup {c} ELSE overwritten

----------------------------------------------------------------------------
(* CommentService *)

\* createComment: the song or the parent is read,
Post(q, parent) ==
    /\ \/ parent = Top /\ Begin(q, [at |-> "posting", parent |-> Top, depth |-> 1])
       \/ /\ parent \in Existing /\ comment[parent].depth < MaxDepth
          /\ Begin(q, [at |-> "posting", parent |-> parent, depth |-> comment[parent].depth + 1])
    /\ UNCHANGED <<comment, editable, report, overwritten>>

\* and the comment inserted.
InsertComment(q) ==
    /\ request[q].at = "posting" /\ request[q].parent \in Existing \cup {Top}
    /\ \E c \in Comment :
         /\ comment[c] = Unwritten
         /\ comment' = [comment EXCEPT ![c] = [is |-> "row", parent |-> request[q].parent,
                                               depth |-> request[q].depth, hidden |-> FALSE]]
         /\ editable' = editable \cup {c}
    /\ Go(q, NoRequest)
    /\ UNCHANGED <<report, requests, overwritten>>

\* The edit window closes.
Age(c) ==
    /\ c \in editable
    /\ editable' = editable \ {c}
    /\ UNCHANGED <<comment, report, request, requests, overwritten>>

\* updateComment
Edit(q, c) ==
    /\ c \in Existing \cap editable
    /\ Begin(q, [at |-> "editing", of |-> c, copy |-> comment[c]])
    /\ UNCHANGED <<comment, editable, report, overwritten>>

SaveEdit(q) ==
    /\ request[q].at = "editing"
    /\ SaveCopy(request[q].of, request[q].copy)
    /\ Go(q, NoRequest)
    /\ UNCHANGED <<editable, report, requests>>

\* deleteComment; the replies and every report go with it.
Delete(c) ==
    /\ c \in Existing /\ requests < MaxRequests /\ requests' = requests + 1
    /\ comment' = [d \in Comment |-> IF d \in Thread(c) THEN Removed ELSE comment[d]]
    /\ report' = [r \in Comment \X Reporter |-> IF r[1] \in Thread(c) THEN "none" ELSE report[r]]
    /\ request' = [q \in Request |->
         IF request[q].at = "resolving" /\ request[q].row[1] \in Thread(c)
         THEN [request[q] EXCEPT !.lost = TRUE] ELSE request[q]]
    /\ UNCHANGED <<editable, overwritten>>

----------------------------------------------------------------------------
(* CommentReportService *)

\* submitReport: neither the comment is missing nor a report there,
Report(q, c, u) ==
    /\ c \in Existing /\ report[<<c, u>>] = "none"
    /\ Begin(q, [at |-> "reporting", row |-> <<c, u>>])
    /\ UNCHANGED <<comment, editable, report, overwritten>>

\* and the database checks both again.
InsertReport(q) ==
    LET r == request[q].row
    IN  /\ request[q].at = "reporting"
        /\ r[1] \in Existing /\ report[r] = "none"
        /\ report' = [report EXCEPT ![r] = "pending"]
        /\ Go(q, NoRequest)
        /\ UNCHANGED <<comment, editable, requests, overwritten>>

Resolution(r, answer) ==
    [at |-> "resolving", row |-> r, was |-> report[r], answer |-> answer, lost |-> FALSE]

\* Mutant: a report that was resolved is resolved again.
ResolveAgain(q, r, answer) ==
    /\ report[r] # "none"
    /\ Begin(q, Resolution(r, answer))
    /\ UNCHANGED <<comment, editable, report, overwritten>>

\* resolveReport: 409 unless the report is pending; dismissed and no_action keep the
\* comment, comment_flagged and comment_removed hide it.
Resolve(q, r, answer) ==
    /\ report[r] = "pending"
    /\ Begin(q, Resolution(r, answer))
    /\ UNCHANGED <<comment, editable, report, overwritten>>

\* The report is saved, inserted again if it was removed with its comment.
SaveResolution(q) ==
    LET me == request[q]
        c == me.row[1]
    IN  /\ me.at = "resolving"
        /\ me.lost => c \in Existing /\ report[me.row] = "none"
        /\ report' = [report EXCEPT ![me.row] = me.answer]
        /\ overwritten' = IF me.was = "pending" /\ report[me.row] = "hide" /\ me.answer = "keep"
                          THEN overwritten \cup {c} ELSE overwritten
        /\ Go(q, IF me.answer = "hide" THEN [at |-> "finding", of |-> c] ELSE NoRequest)
        /\ UNCHANGED <<comment, editable, requests>>

FindComment(q) ==
    LET c == request[q].of
    IN  /\ request[q].at = "finding"
        /\ Go(q, IF c \in Existing THEN [at |-> "hiding", of |-> c, copy |-> comment[c]] ELSE NoRequest)
        /\ UNCHANGED <<comment, editable, report, requests, overwritten>>

HideComment(q) ==
    /\ request[q].at = "hiding"
    /\ SaveCopy(request[q].of, [request[q].copy EXCEPT !.hidden = TRUE])
    /\ Go(q, NoRequest)
    /\ UNCHANGED <<editable, report, requests>>

----------------------------------------------------------------------------

\* A statement fails, or the process dies: what is written stays.
Fail(q) ==
    /\ request[q] # NoRequest
    /\ overwritten' = overwritten \cup IF request[q].at \in {"finding", "hiding"} THEN {request[q].of} ELSE {}
    /\ Go(q, NoRequest)
    /\ UNCHANGED <<comment, editable, report, requests>>

Next ==
    \/ \E c \in Comment : Age(c) \/ Delete(c)
    \/ \E q \in Request :
         \/ \E parent \in Comment \cup {Top} : Post(q, parent)
         \/ InsertComment(q)
         \/ \E c \in Comment : Edit(q, c) \/ \E u \in Reporter : Report(q, c, u)
         \/ SaveEdit(q) \/ InsertReport(q)
         \/ \E r \in Comment \X Reporter : \E answer \in {"keep", "hide"} : Resolve(q, r, answer)
         \/ SaveResolution(q) \/ FindComment(q) \/ HideComment(q) \/ Fail(q)

Spec == Init /\ [][Next]_vars

----------------------------------------------------------------------------
(* Properties *)

\* Listings skip a comment exactly when a report of it was resolved by hiding it,
\* while no resolution is between its two saves, unless one of four things parted
\* them: an edit read before put the old flag back, a save inserted a removed
\* comment again, two moderators resolved one report, or a resolution stopped
\* between its saves.
HiddenAsResolved ==
    \A c \in Existing \ overwritten :
        (\E q \in Request : request[q].at \in {"finding", "hiding"} /\ request[q].of = c)
        \/ (comment[c].hidden <=> \E u \in Reporter : report[<<c, u>>] = "hide")

=============================================================================
