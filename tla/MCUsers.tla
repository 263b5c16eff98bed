------------------------------- MODULE MCUsers -------------------------------
(* What users do that rows of the database remember: the row of users with *)
(* the reviews of its badge, the subscriptions, the comments of a song and *)
(* their reports, its collaborators, who may open a playlist, and the      *)
(* upload of a song; the limiter in front of their requests, and the       *)
(* circuit breaker behind them.  They share no columns, so a behaviour is  *)
(* one of one of them (`part').  What is proved about is extended rather   *)
(* than instantiated, so that the run checks the formulas of the proofs.   *)
EXTENDS UserRow, RateLimits, CircuitBreaker, TLC

CONSTANTS
    Gift, Caller, Period, GiftLife, MaxSubs, MaxCalls, MaxDay,
    Comment, Reporter, Request, MaxDepth, MaxRequests,
    Member, Share, Whole, Editor, MaxEdits,
    N, Finaliser, MaxReceived, MaxMerges, MaxLapses,
    Guest, Visit, MaxVisits, MaxInvited

\* Finitely many requests are in progress, and what is counted is a number.
ASSUME UsersAssumption ==
    /\ N \in Nat \ {0} /\ IsFiniteSet(Finaliser)
    /\ MaxSubs \in Nat /\ Period \in Nat /\ GiftLife \in Nat
    /\ MaxInvited \in Nat
    /\ IsFiniteSet(Member) /\ Share \subseteq Nat /\ Whole \in Nat

\* Two of each of these, which are alike, are swapped all at once.
Permuted == {w @@ c @@ r @@ i @@ v : w \in Permutations(UserWriter), c \in Permutations(Caller),
               r \in Permutations(Request), i \in Permutations(Instance), v \in Permutations(Visit)}
MCSymmetry == {swap \in Permuted : {x \in DOMAIN swap : swap[x] # x} \in {{}, DOMAIN swap}}

VARIABLES
    part,
    day, sub, gift, call, calls, crossed, revived,
    comment, editable, report, request, requests, overwritten,
    share, minted, edit, edits, late,
    folder, merged, writer, stored, finaliser, songs, received, merges, overlaps,
    reply, keyed, protected, lapses,
    playlist, collaborator, follower, visit, visits, rows, wanted, muddled, invited, exposed, barred,
    removal

rowVars == vars
subVars == <<day, sub, gift, call, calls, crossed, revived>>
commentVars == <<comment, editable, report, request, requests, overwritten>>
shareVars == <<share, minted, edit, edits, late>>
uploadVars == <<folder, merged, writer, stored, finaliser, songs, received, merges, overlaps,
                reply, keyed, protected, lapses>>
accessVars == <<playlist, collaborator, follower, visit, visits, rows, wanted, muddled, invited,
                exposed, barred, removal>>

Subs == INSTANCE Subscriptions
Talk == INSTANCE Comments
Split == INSTANCE Collaborators
Session == INSTANCE Uploads
Access == INSTANCE PlaylistAccess

UsersInit ==
    /\ part \in {"row", "subscriptions", "comments", "collaborators", "upload", "access", "limiter",
               "breaker"}
    /\ Init /\ LimiterInit /\ Subs!Init /\ Talk!Init /\ Split!Init /\ Session!Init
    /\ Access!Init /\ BreakerInit
    /\ part # "limiter" => ~inMemory
    /\ part # "access" => playlist.public

UsersNext ==
    /\ UNCHANGED part
    /\ \/ part = "row" /\ Next
          /\ UNCHANGED <<subVars, commentVars, shareVars, uploadVars, accessVars, limiterVars, breakerVars>>
       \/ part = "subscriptions" /\ Subs!Next
          /\ UNCHANGED <<rowVars, commentVars, shareVars, uploadVars, accessVars, limiterVars, breakerVars>>
       \/ part = "comments" /\ Talk!Next
          /\ UNCHANGED <<rowVars, subVars, shareVars, uploadVars, accessVars, limiterVars, breakerVars>>
       \/ part = "collaborators" /\ Split!Next
          /\ UNCHANGED <<rowVars, subVars, commentVars, uploadVars, accessVars, limiterVars, breakerVars>>
       \/ part = "upload" /\ Session!Next
          /\ UNCHANGED <<rowVars, subVars, commentVars, shareVars, accessVars, limiterVars, breakerVars>>
       \/ part = "access" /\ Access!Next
          /\ UNCHANGED <<rowVars, subVars, commentVars, shareVars, uploadVars, limiterVars, breakerVars>>
       \/ part = "limiter" /\ LimiterNext
          /\ UNCHANGED <<rowVars, subVars, commentVars, shareVars, uploadVars, accessVars, breakerVars>>
       \/ part = "breaker" /\ BreakerNext
          /\ UNCHANGED <<rowVars, subVars, commentVars, shareVars, uploadVars, accessVars, limiterVars>>

UsersSpec ==
    UsersInit /\ [][UsersNext]_<<part, rowVars, subVars, commentVars, shareVars, uploadVars, accessVars,
                                limiterVars, breakerVars>>

OneActiveSubscription == Subs!OneActiveSubscription
HiddenAsResolved == Talk!HiddenAsResolved
SharesWithin100 == Split!SharesWithin100
OneWholeSongPerUpload == Session!OneWholeSongPerUpload
AccessAsGranted == Access!AccessAsGranted

=============================================================================
