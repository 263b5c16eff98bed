---------------------------- MODULE Subscriptions ----------------------------
(***************************************************************************)
(* The subscriptions of one user: SubscriptionService, whose every call    *)
(* starts with getUserSubscription, which reads the newest active row and  *)
(* may write it; and the gifts that GiftSubscriptionController turns into  *)
(* subscriptions, on any row of the recipient.                             *)
(*                                                                         *)
(* Tiers are left out.  Rows are numbered in the order of createdAt.       *)
(***************************************************************************)
EXTENDS Integers, FiniteSets

CONSTANTS
    Gift,       \* rows of gift_subscriptions, of different senders
    Caller,     \* requests in progress
    Period,     \* DEFAULT_BILLING_PERIOD_MS, and the length of other terms
    GiftLife,   \* days until expiresAt
    MaxSubs,    \* bound: rows
    MaxCalls,   \* bound: requests begun
    MaxDay      \* bound: clock

VARIABLES
    day,
    sub,      \* rows of subscriptions
    gift,
    call,     \* what each request is about to do
    calls,    \* bound
    crossed,  \* history: writes decided on before another request's write
    revived   \* history: gifts put on an ended row beside an active one

vars == <<day, sub, gift, call, calls, crossed, revived>>

Day == 0..MaxDay + Period + GiftLife
Unset == -1
Row == 1..MaxSubs
Sub == [status : {"active", "cancelled", "expired"}, end : Day \cup {Unset}, trial : Day \cup {Unset}]
NoRow == [status |-> "none"]
GiftRow == [status : {"pending", "accepted", "declined", "expired"}, expires : Day]
NoGift == [status |-> "none"]
Ended == [at |-> "none"]

TypeOK ==
    /\ day \in 0..MaxDay
    /\ sub \in [Row -> Sub \cup {NoRow}]
    /\ gift \in [Gift -> GiftRow \cup {NoGift}]
    /\ call \in [Caller -> {Ended}
         \cup [at : {"expiring", "finalising"}, op : STRING, of : Row, copy : Sub, stale : BOOLEAN]
         \cup [at : {"saving"}, of : Row, copy : Sub, stale : BOOLEAN]
         \cup [at : {"creating"}, copy : Sub, stale : BOOLEAN]
         \cup [at : {"choosing"}, gift : Gift]
         \cup [at : {"granting"}, gift : Gift, of : Row, copy : Sub, stale : BOOLEAN]
         \cup [at : {"granting new"}, gift : Gift, copy : Sub, stale : BOOLEAN]
         \cup [at : {"answering"}, gift : Gift, answer : {"accepted", "declined", "expired"}]]
    /\ calls \in 0..MaxCalls /\ crossed \in Nat /\ revived \in Nat

Init ==
    /\ day = 0 /\ calls = 0 /\ crossed = 0 /\ revived = 0
    /\ sub = [r \in Row |-> NoRow]
    /\ gift = [g \in Gift |-> NoGift]
    /\ call = [c \in Caller |-> Ended]

----------------------------------------------------------------------------
(* Rows *)

Existing == {r \in Row : sub[r] # NoRow}
Free == Row \ Existing
Active == {r \in Row : sub[r].status = "active"}
Newest(rows) == CHOOSE r \in rows : \A s \in rows : s <= r
Oldest(rows) == CHOOSE r \in rows : \A s \in rows : s >= r

New(end, trial) == [status |-> "active", end |-> end, trial |-> trial]

Go(c, next) == call' = [call EXCEPT ![c] = next]

Begin(c, next) ==
    /\ call[c] = Ended
    /\ calls < MaxCalls /\ calls' = calls + 1
    /\ Go(c, next)

\* Row r is written by c, which goes on to next; what others have read is old.
Write(c, r, row, next) ==
    /\ sub' = [sub EXCEPT ![r] = row]
    /\ call' = [d \in Caller |->
         IF d = c THEN next
         ELSE IF call[d].at \in {"none", "choosing", "answering"} THEN call[d]
         ELSE [call[d] EXCEPT !.stale = TRUE]]
    /\ crossed' = crossed + IF call[c].stale /\ row.status = "active" /\ r \notin Active THEN 1 ELSE 0

----------------------------------------------------------------------------
(* SubscriptionService *)

\* What each call does when getUserSubscription returns null, or row r as m.
OnNull(op, stale) ==
    CASE op \in {"look", "cancel"} -> {Ended}
      [] op = "upgrade" -> {[at |-> "creating", copy |-> New(e, Unset), stale |-> stale] : e \in {Unset, day + Period}}
      [] op = "trial" -> {[at |-> "creating", copy |-> New(Unset, day + 1), stale |-> stale]}

\* Mutant: a trial is started whether or not a subscription is active.
OnFoundTrialUnchecked(op, r, m, stale) ==
    CASE op = "look" -> {Ended}
      [] op = "trial" -> {[at |-> "creating", copy |-> New(Unset, day + 1), stale |-> stale]}
      [] op = "upgrade" -> {[at |-> "saving", of |-> r, copy |-> [m EXCEPT !.end = e], stale |-> stale] : e \in {m.end, day + Period}}
      [] op = "cancel" -> {[at |-> "saving", of |-> r, copy |-> [m EXCEPT !.status = "cancelled"], stale |-> stale]}

OnFound(op, r, m, stale) ==
    CASE op \in {"look", "trial"} -> {Ended}
      [] op = "upgrade" -> {[at |-> "saving", of |-> r, copy |-> [m EXCEPT !.end = e], stale |-> stale] : e \in {m.end, day + Period}}
      [] op = "cancel" -> {[at |-> "saving", of |-> r, copy |-> [m EXCEPT !.status = "cancelled"], stale |-> stale]}

\* getUserSubscription, the start of createOrUpgradeSubscription, startTrial,
\* cancelSubscription, hasTierAccess and isInTrial.
Read(c, op) ==
    /\ IF Active = {} THEN \E next \in OnNull(op, FALSE) : Begin(c, next)
       ELSE LET r == Newest(Active)
                m == sub[r]
                old(at, row) == [at |-> at, op |-> op, of |-> r, copy |-> row, stale |-> FALSE]
            IN  IF m.end # Unset /\ day > m.end
                THEN Begin(c, old("expiring", [m EXCEPT !.status = "expired"]))
                ELSE IF m.trial # Unset /\ day >= m.trial
                THEN Begin(c, old("finalising", [m EXCEPT !.end = IF @ = Unset THEN m.trial + Period ELSE @]))
                ELSE \E next \in OnFound(op, r, m, FALSE) : Begin(c, next)
    /\ UNCHANGED <<day, sub, gift, crossed, revived>>

Expire(c) ==
    LET me == call[c]
    IN  /\ me.at = "expiring"
        /\ \E next \in OnNull(me.op, me.stale) : Write(c, me.of, me.copy, next)
        /\ UNCHANGED <<day, gift, calls, revived>>

\* finalizeTrialTransition; trialEndsAt is set to undefined, which save() skips.
FinaliseTrial(c) ==
    LET me == call[c]
    IN  /\ me.at = "finalising"
        /\ \E next \in OnFound(me.op, me.of, me.copy, me.stale) : Write(c, me.of, me.copy, next)
        /\ UNCHANGED <<day, gift, calls, revived>>

SaveCopy(c) ==
    /\ call[c].at = "saving"
    /\ Write(c, call[c].of, call[c].copy, Ended)
    /\ UNCHANGED <<day, gift, calls, revived>>

Create(c) ==
    /\ call[c].at = "creating" /\ Free # {}
    /\ Write(c, Oldest(Free), call[c].copy, Ended)
    /\ UNCHANGED <<day, gift, calls, revived>>

----------------------------------------------------------------------------
(* GiftSubscriptionController *)

SendGift(g) ==
    /\ gift[g] = NoGift
    /\ gift' = [gift EXCEPT ![g] = [status |-> "pending", expires |-> day + GiftLife]]
    /\ UNCHANGED <<day, sub, call, calls, crossed, revived>>

AcceptGift(c, g) ==
    /\ gift[g].status = "pending"
    /\ Begin(c, IF day > gift[g].expires THEN [at |-> "answering", gift |-> g, answer |-> "expired"]
                ELSE [at |-> "choosing", gift |-> g])
    /\ UNCHANGED <<day, sub, gift, crossed, revived>>

DeclineGift(c, g) ==
    /\ gift[g].status = "pending"
    /\ Begin(c, [at |-> "answering", gift |-> g, answer |-> "declined"])
    /\ UNCHANGED <<day, sub, gift, crossed, revived>>

\* findOneBy({ userId }): any row, of any status and age.
ChooseRow(c) ==
    LET g == call[c].gift
    IN  /\ call[c].at = "choosing"
        /\ \/ /\ Existing = {}
              /\ \E e \in {Unset, day + Period} :
                   Go(c, [at |-> "granting new", gift |-> g, copy |-> New(e, Unset), stale |-> FALSE])
              /\ UNCHANGED revived
           \/ \E r \in Existing : \E e \in {sub[r].end, day + Period} :
                /\ Go(c, [at |-> "granting", gift |-> g, of |-> r, stale |-> FALSE,
                          copy |-> [sub[r] EXCEPT !.status = "active", !.end = e]])
                /\ revived' = revived + IF r \notin Active /\ Active # {} THEN 1 ELSE 0
        /\ UNCHANGED <<day, sub, gift, calls, crossed>>

Accepted(c) == [at |-> "answering", gift |-> call[c].gift, answer |-> "accepted"]

Grant(c) ==
    /\ call[c].at = "granting"
    /\ Write(c, call[c].of, call[c].copy, Accepted(c))
    /\ UNCHANGED <<day, gift, calls, revived>>

GrantNew(c) ==
    /\ call[c].at = "granting new" /\ Free # {}
    /\ Write(c, Oldest(Free), call[c].copy, Accepted(c))
    /\ UNCHANGED <<day, gift, calls, revived>>

\* The gift read at the start is saved, whatever was answered since.
Answer(c) ==
    /\ call[c].at = "answering"
    /\ gift' = [gift EXCEPT ![call[c].gift].status = call[c].answer]
    /\ Go(c, Ended)
    /\ UNCHANGED <<day, sub, calls, crossed, revived>>

----------------------------------------------------------------------------

\* A statement fails, or the process dies: what is written stays.
Fail(c) ==
    /\ call[c] # Ended
    /\ Go(c, Ended)
    /\ UNCHANGED <<day, sub, gift, calls, crossed, revived>>

DayPasses ==
    /\ day < MaxDay
    /\ day' = day + 1
    /\ UNCHANGED <<sub, gift, call, calls, crossed, revived>>

Next ==
    \/ DayPasses
    \/ \E g \in Gift : SendGift(g)
    \/ \E c \in Caller :
         \/ \E op \in {"look", "upgrade", "trial", "cancel"} : Read(c, op)
         \/ Expire(c) \/ FinaliseTrial(c) \/ SaveCopy(c) \/ Create(c)
         \/ \E g \in Gift : AcceptGift(c, g) \/ DeclineGift(c, g)
         \/ ChooseRow(c) \/ Grant(c) \/ GrantNew(c) \/ Answer(c) \/ Fail(c)

Spec == Init /\ [][Next]_vars

----------------------------------------------------------------------------
(* Properties *)

\* A user has one active subscription, and one more at most for each request
\* that made a row active on what it read before another request's write, and
\* for each gift put on an ended row beside the active one: an expiry, a trial's
\* end or a cancellation never leaves two.
OneActiveSubscription == Cardinality(Active) <= 1 + crossed + revived

=============================================================================
