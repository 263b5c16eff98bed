------------------------------- MODULE UserRow -------------------------------
(***************************************************************************)
(* The services that read a row of users, change some columns and save the *)
(* whole copy: two-factor enrolment, logins with a recovery code, profile, *)
(* role and identity updates; and the reviews of artist verifications,     *)
(* which update the badge alone.  Repository.save() writes every column in *)
(* which the copy differs from the row of that moment, except undefined    *)
(* ones.  Two of the services copy every column that the request's body    *)
(* names, whichever it is, before they save.                               *)
(*                                                                         *)
(* One user with a password.  Of the row three columns are kept:           *)
(* isVerified, twoFactorEnabled, twoFactorRecoveryCodeHashes.  A body that *)
(* names the primary key, and codes that no enrolment drew, are left out.  *)
(***************************************************************************)
EXTENDS Naturals, FiniteSets

CONSTANTS
    Application, \* rows of artist_verifications
    CodeSet,     \* the sets of recovery codes that enrolments will draw
    UserWriter,  \* requests in progress
    MaxTasks     \* bound: requests begun

\* Codes are random: no two enrolments share one.
ASSUME UserRowAssumption ==
    /\ IsFiniteSet(UserWriter)
    /\ \A s, t \in CodeSet : s # t => s \cap t = {}
    /\ MaxTasks \in Nat

VARIABLES
    user, application,
    task,      \* what each request is about to do
    tasks,     \* bound
    drawnSets, \* code sets handed out
    accepted,  \* history: times each code was taken
    holders,   \* history: copies that held a code when it left the row, and
               \* request bodies that brought one which was not in it
    parted     \* history: a badge and the decisions came apart, see BadgeAgrees

vars == <<user, application, task, tasks, drawnSets, accepted, holders, parted>>

Code == UNION CodeSet
User == [verified : BOOLEAN, enabled : BOOLEAN, codes : SUBSET Code]
NoTask == [at |-> "none"]
Task ==
    {NoTask}
    \cup [at : {"saving"}, op : {"edit", "link", "enable", "disable"}, copy : User]
    \cup [at : {"saving"}, op : {"login"}, copy : User, code : Code]
    \cup [at : {"looking", "inserting", "checking", "clearing", "showing"}]
    \cup [at : {"revising"}, of : Application]
    \cup [at : {"deciding"}, of : Application, verdict : {"approved", "rejected"}]

TypeOK ==
    /\ user \in User
    /\ application \in [Application -> {"none", "pending", "approved", "rejected"}]
    /\ task \in [UserWriter -> Task]
    /\ tasks \in 0..MaxTasks /\ drawnSets \subseteq CodeSet
    /\ accepted \in [Code -> Nat] /\ holders \in [Code -> Nat]
    /\ parted \in BOOLEAN

Init ==
    /\ user = [verified |-> FALSE, enabled |-> FALSE, codes |-> {}]
    /\ application = [a \in Application |-> "none"]
    /\ task = [w \in UserWriter |-> NoTask]
    /\ tasks = 0 /\ drawnSets = {}
    /\ accepted = [c \in Code |-> 0] /\ holders = [c \in Code |-> 0]
    /\ parted = FALSE

----------------------------------------------------------------------------
(* Reading and saving the row *)

Go(w, next) == task' = [task EXCEPT ![w] = next]

Begin(w, next) ==
    /\ task[w] = NoTask
    /\ tasks < MaxTasks /\ tasks' = tasks + 1
    /\ Go(w, next)

Copy(op, row) == [at |-> "saving", op |-> op, copy |-> row]

\* Request v has a copy of the row with code c, or is about to take it.
Holds(v, c) ==
    /\ task[v].at = "saving" /\ task[v].op # "disable"
    /\ \/ c \in task[v].copy.codes
       \/ task[v].op = "login" /\ task[v].code = c

\* What save() leaves in the row; undefined hashes are not written.
Written(me) == IF me.op = "disable" THEN [me.copy EXCEPT !.codes = user.codes] ELSE me.copy

\* A login that linked a Privy identity may save the same copy once more.
Rest(me) == IF me.op = "link" THEN {NoTask, [me EXCEPT !.op = "edit"]} ELSE {NoTask}

Save(w) ==
    LET me == task[w]
        row == Written(me)
    IN  /\ me.at = "saving"
        /\ user' = row
        /\ holders' = [c \in Code |-> holders[c] +
             IF c \in user.codes \ row.codes THEN Cardinality({v \in UserWriter \ {w} : Holds(v, c)}) ELSE 0]
        /\ accepted' = IF me.op = "login" THEN [accepted EXCEPT ![me.code] = @ + 1] ELSE accepted
        /\ parted' = (parted \/ row.verified # user.verified)
        /\ \E next \in Rest(me) : Go(w, next)
        /\ UNCHANGED <<application, tasks, drawnSets>>

\* Mutant: the save of the remaining codes is not awaited.
UnawaitedSaveFails(w) ==
    /\ task[w].at = "saving"
    /\ accepted' = IF task[w].op = "login" THEN [accepted EXCEPT ![task[w].code] = @ + 1] ELSE accepted
    /\ Go(w, NoTask)
    /\ UNCHANGED <<user, application, tasks, drawnSets, holders, parted>>

\* The statement is refused and the request fails; a code is then not accepted.
SaveFails(w) ==
    /\ task[w].at = "saving"
    /\ Go(w, NoTask)
    /\ UNCHANGED <<user, application, tasks, drawnSets, accepted, holders, parted>>

\* The process dies, or another statement fails: an approval without its badge.
Die(w) ==
    /\ task[w].at \notin {"none", "saving"}
    /\ parted' = (parted \/ task[w].at = "showing")
    /\ Go(w, NoTask)
    /\ UNCHANGED <<user, application, tasks, drawnSets, accepted, holders>>

----------------------------------------------------------------------------
(* Services that save a copy *)

\* The row is read; other columns are changed.
Edit(w) ==
    /\ Begin(w, Copy("edit", user))
    /\ UNCHANGED <<user, application, drawnSets, accepted, holders, parted>>

\* The row is read, and whatever the body of the request names is assigned to it.
Assign(w) ==
    /\ task[w] = NoTask /\ tasks < MaxTasks
    /\ \E row \in [verified : BOOLEAN, enabled : BOOLEAN, codes : SUBSET UNION drawnSets] :
        /\ Begin(w, Copy("edit", row))
        /\ holders' = [c \in Code |-> holders[c] + IF c \in row.codes \ user.codes THEN 1 ELSE 0]
        /\ UNCHANGED <<user, application, drawnSets, accepted, parted>>

UpdateUser(w) == Assign(w)
UpdateArtistProfile(w) == Assign(w)

\* Profiles and roles.
UpdateProfile(w) == Edit(w)
UpdateAccountProfile(w) == Edit(w)
AssignRole(w) == Edit(w)
SetAccountType(w) == Edit(w)
UpgradeToArtist(w) == Edit(w)

\* Tokens sent by e-mail.
VerifyEmail(w) == Edit(w)
ForgotPassword(w) == Edit(w)
ResetPassword(w) == Edit(w)

\* Accounts elsewhere.
ConnectTwitter(w) == Edit(w)
DisconnectTwitter(w) == Edit(w)
ConnectStellarWallet(w) == Edit(w)
SubmitOnChainSetup(w) == Edit(w)
PrivyLogin(w) == Edit(w)
PrivyUserUpdated(w) == Edit(w)
PrivyUserLinkedAccount(w) == Edit(w)
HandleUserUpdated(w) == Edit(w)
HandleLinkedAccount(w) == Edit(w)

\* privyLogin of an account that autoMergeDuringLogin finds by e-mail or wallet.
LinkPrivy(w) ==
    /\ Begin(w, Copy("link", user))
    /\ UNCHANGED <<user, application, drawnSets, accepted, holders, parted>>

\* Fresh codes, hashed one by one before the save.
EnableTwoFactor(w) ==
    \E codes \in CodeSet \ drawnSets :
        /\ Begin(w, Copy("enable", [user EXCEPT !.enabled = TRUE, !.codes = codes]))
        /\ drawnSets' = drawnSets \cup {codes}
        /\ UNCHANGED <<user, application, accepted, holders, parted>>

DisableTwoFactor(w) ==
    /\ user.enabled
    /\ Begin(w, Copy("disable", [user EXCEPT !.enabled = FALSE]))
    /\ UNCHANGED <<user, application, drawnSets, accepted, holders, parted>>

\* loginWithEmail and verifyAndConsumeRecoveryCode; another code is refused.
LogInWithCode(w, c) ==
    /\ user.enabled /\ c \in user.codes
    /\ Begin(w, [at |-> "saving", op |-> "login", code |-> c,
                 copy |-> [user EXCEPT !.codes = @ \ {c}]])
    /\ UNCHANGED <<user, application, drawnSets, accepted, holders, parted>>

----------------------------------------------------------------------------
(* applyForVerification *)

Approved == {a \in Application : application[a] = "approved"}
Outstanding == {a \in Application : application[a] = "pending"}

Apply(w) ==
    /\ Approved = {}
    /\ Begin(w, [at |-> "looking"])
    /\ UNCHANGED <<user, application, drawnSets, accepted, holders, parted>>

FindPending(w) ==
    /\ task[w].at = "looking"
    /\ IF Outstanding = {} THEN Go(w, [at |-> "inserting"])
       ELSE \E a \in Outstanding : Go(w, [at |-> "revising", of |-> a])
    /\ UNCHANGED <<user, application, tasks, drawnSets, accepted, holders, parted>>

\* A partial unique index admits one pending application per user.
Insert(w) ==
    /\ task[w].at = "inserting"
    /\ Go(w, NoTask)
    /\ IF Outstanding = {}
       THEN \E a \in Application :
              application[a] = "none" /\ application' = [application EXCEPT ![a] = "pending"]
       ELSE UNCHANGED application
    /\ UNCHANGED <<user, tasks, drawnSets, accepted, holders, parted>>

\* The copy says pending: a decision taken meanwhile is undone.
Revise(w) ==
    LET a == task[w].of
    IN  /\ task[w].at = "revising"
        /\ Go(w, NoTask)
        /\ IF Outstanding \subseteq {a}
           THEN /\ application' = [application EXCEPT ![a] = "pending"]
                /\ parted' = (parted \/ application[a] = "approved")
           ELSE UNCHANGED <<application, parted>>
        /\ UNCHANGED <<user, tasks, drawnSets, accepted, holders>>

----------------------------------------------------------------------------
(* approveVerification, rejectVerification *)

Decide(w, a, verdict) ==
    /\ application[a] = "pending"
    /\ Begin(w, [at |-> "deciding", of |-> a, verdict |-> verdict])
    /\ UNCHANGED <<user, application, drawnSets, accepted, holders, parted>>

SaveDecision(w) ==
    LET me == task[w]
    IN  /\ me.at = "deciding"
        /\ application' = [application EXCEPT ![me.of] = me.verdict]
        /\ parted' = (parted \/ (application[me.of] = "approved" /\ me.verdict = "rejected"))
        /\ Go(w, [at |-> IF me.verdict = "approved" THEN "showing" ELSE "checking"])
        /\ UNCHANGED <<user, tasks, drawnSets, accepted, holders>>

\* Whatever became of the approval since.
ShowBadge(w) ==
    /\ task[w].at = "showing"
    /\ user' = [user EXCEPT !.verified = TRUE]
    /\ Go(w, NoTask)
    /\ UNCHANGED <<application, tasks, drawnSets, accepted, holders, parted>>

\* Mutant: every rejection takes the badge away.
CheckNothing(w) ==
    /\ task[w].at = "checking"
    /\ user' = [user EXCEPT !.verified = FALSE]
    /\ Go(w, NoTask)
    /\ UNCHANGED <<application, tasks, drawnSets, accepted, holders, parted>>

CheckOthers(w) ==
    /\ task[w].at = "checking"
    /\ Go(w, IF Approved = {} THEN [at |-> "clearing"] ELSE NoTask)
    /\ UNCHANGED <<user, application, tasks, drawnSets, accepted, holders, parted>>

ClearBadge(w) ==
    /\ task[w].at = "clearing"
    /\ user' = [user EXCEPT !.verified = FALSE]
    /\ parted' = (parted \/ Approved # {})
    /\ Go(w, NoTask)
    /\ UNCHANGED <<application, tasks, drawnSets, accepted, holders>>

OtherColumns(w) ==
    \/ UpdateProfile(w) \/ UpdateAccountProfile(w)
    \/ AssignRole(w) \/ SetAccountType(w) \/ UpgradeToArtist(w)
    \/ VerifyEmail(w) \/ ForgotPassword(w) \/ ResetPassword(w)
    \/ ConnectTwitter(w) \/ DisconnectTwitter(w) \/ ConnectStellarWallet(w) \/ SubmitOnChainSetup(w)
    \/ PrivyLogin(w) \/ PrivyUserUpdated(w) \/ PrivyUserLinkedAccount(w)
    \/ HandleUserUpdated(w) \/ HandleLinkedAccount(w)

Next ==
    \E w \in UserWriter :
        \/ Save(w) \/ SaveFails(w) \/ Die(w)
        \/ UpdateUser(w) \/ UpdateArtistProfile(w)
        \/ OtherColumns(w) \/ LinkPrivy(w) \/ EnableTwoFactor(w) \/ DisableTwoFactor(w)
        \/ \E c \in Code : LogInWithCode(w, c)
        \/ Apply(w) \/ FindPending(w) \/ Insert(w) \/ Revise(w)
        \/ \E a \in Application, verdict \in {"approved", "rejected"} : Decide(w, a, verdict)
        \/ SaveDecision(w) \/ ShowBadge(w) \/ CheckOthers(w) \/ ClearBadge(w)

Spec == Init /\ [][Next]_vars

----------------------------------------------------------------------------
(* Properties *)

\* A recovery code is accepted once, and once more at most for each overlapping
\* request whose copy of the row still had it when it was taken out and for each
\* request (updateUser, updateArtistProfile) whose body brought it back.
CodeUsedOnce == \A c \in Code : accepted[c] <= 1 + holders[c]

\* With no badge about to be shown, it is on the profile exactly when an
\* application is approved, unless one of these happened: a save over the badge,
\* of an older copy of the row or of a body that named isVerified; an approval ended before its badge; a revision
\* or a second decision undid an approval; a rejection looked for approvals
\* before one was saved and took the badge away after.
BadgeAgrees ==
    (\A w \in UserWriter : task[w].at # "showing")
        => parted \/ (user.verified <=> Approved # {})

=============================================================================
