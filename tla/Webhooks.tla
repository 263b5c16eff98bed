------------------------------ MODULE Webhooks ------------------------------
(***************************************************************************)
(* WebhookService: subscriptions, deliveries with retries, and the counter *)
(* of consecutive failures that disables a subscription.                   *)
(*                                                                         *)
(* deliver() loads the subscription before its attempts and saves that     *)
(* copy after them, seconds later.  Repository.save() compares the copy    *)
(* with the row of that moment and writes every column that differs; when  *)
(* the row is gone it inserts it.  Endpoints, event types and payloads are *)
(* abstracted: an event may match any set of active subscriptions.         *)
(***************************************************************************)
EXTENDS Naturals, FiniteSets

CONSTANTS
    Sub,            \* webhook subscriptions
    Delivery,       \* names for deliveries in progress
    MaxRetries,     \* maxRetries of deliver()
    MaxConsecutive, \* WEBHOOK_MAX_CONSECUTIVE_FAILURES
    MaxDeliveries   \* bound: deliveries started per subscription

VARIABLES
    sub,       \* rows of webhook_subscriptions
    log,       \* subscriptions with rows in webhook_deliveries
    delivery,  \* deliveries in progress
    started,   \* bound, per subscription
    notified,  \* subscriptions whose owner was told it is disabled
    exhausted, \* history: deliveries that used up their attempts
    outlived   \* history: subscriptions removed under a delivery that had read them

vars == <<sub, log, delivery, started, notified, exhausted, outlived>>

Unregistered == [state |-> "unregistered"]
Removed == [state |-> "removed"]
Row == [state : {"active", "disabled"}, failures : 0..MaxDeliveries]
NoCopy == [state |-> "none"]
Nothing == [stage |-> "none"]

TypeOK ==
    /\ sub \in [Sub -> Row \cup {Unregistered, Removed}]
    /\ log \subseteq Sub /\ notified \subseteq Sub /\ outlived \subseteq Sub
    /\ delivery \in [Delivery -> {Nothing} \cup
         [stage : {"matched", "sending", "saving"}, to : Sub, copy : Row \cup {NoCopy},
          attempt : 0..MaxRetries, ok : BOOLEAN]]
    /\ started \in [Sub -> 0..MaxDeliveries]
    /\ exhausted \in [Sub -> 0..MaxDeliveries]

Init ==
    /\ sub = [s \in Sub |-> Unregistered]
    /\ log = {} /\ notified = {} /\ outlived = {}
    /\ delivery = [d \in Delivery |-> Nothing]
    /\ started = [s \in Sub |-> 0] /\ exhausted = [s \in Sub |-> 0]

Exists(s) == sub[s].state \in {"active", "disabled"}

----------------------------------------------------------------------------
(* Owners *)

Register(s) ==
    /\ sub[s] = Unregistered
    /\ sub' = [sub EXCEPT ![s] = [state |-> "active", failures |-> 0]]
    /\ UNCHANGED <<log, delivery, started, notified, exhausted, outlived>>

\* deleteSubscription: the row goes, its delivery rows cascade.
Remove(s) ==
    /\ Exists(s)
    /\ sub' = [sub EXCEPT ![s] = Removed]
    /\ log' = log \ {s}
    /\ outlived' = IF \E d \in Delivery : delivery[d] # Nothing /\ delivery[d].to = s
                                            /\ delivery[d].copy # NoCopy
                   THEN outlived \cup {s} ELSE outlived
    /\ UNCHANGED <<delivery, started, notified, exhausted>>

----------------------------------------------------------------------------
(* deliver() *)

Begin(d, s) ==
    /\ delivery[d] = Nothing
    /\ started[s] < MaxDeliveries /\ started' = [started EXCEPT ![s] = @ + 1]
    /\ delivery' = [delivery EXCEPT ![d] = [stage |-> "matched", to |-> s, copy |-> NoCopy,
                                            attempt |-> 0, ok |-> FALSE]]
    /\ UNCHANGED <<sub, log, notified, exhausted, outlived>>

\* An event whose query matched s, one of the active subscriptions.
Publish(d, s) == sub[s].state = "active" /\ Begin(d, s)

\* redeliver() of a recorded delivery, or the test delivery of the controller:
\* neither asks whether the subscription is active.
Redeliver(d, s) == s \in log /\ Exists(s) /\ Begin(d, s)
TestDelivery(d, s) == Exists(s) /\ Begin(d, s)

\* Mutant: the row publish() matched is used, without reading it again.
LoadMatched(d) ==
    /\ delivery[d].stage = "matched"
    /\ delivery' = [delivery EXCEPT ![d].stage = "sending", ![d].copy = [state |-> "active", failures |-> 0]]
    /\ UNCHANGED <<sub, log, started, notified, exhausted, outlived>>

\* The subscription is read; without a row the attempts are made all the same.
Load(d) ==
    LET s == delivery[d].to
    IN  /\ delivery[d].stage = "matched"
        /\ delivery' = [delivery EXCEPT ![d].stage = "sending",
                                        ![d].copy = IF Exists(s) THEN sub[s] ELSE NoCopy]
        /\ UNCHANGED <<sub, log, started, notified, exhausted, outlived>>

\* A row in webhook_deliveries, or a foreign key error that is swallowed.
Record(s) == log' = IF Exists(s) THEN log \cup {s} ELSE log

\* Mutant: each failed attempt counts.
FailsCountingAttempts(d) ==
    LET s == delivery[d].to
    IN  /\ delivery[d].stage = "sending" /\ delivery[d].attempt < MaxRetries
        /\ delivery[d].copy # NoCopy /\ delivery[d].copy.failures < MaxDeliveries
        /\ Record(s)
        /\ exhausted' = IF delivery[d].attempt + 1 = MaxRetries
                        THEN [exhausted EXCEPT ![s] = @ + 1] ELSE exhausted
        /\ delivery' = [delivery EXCEPT ![d].attempt = @ + 1, ![d].copy.failures = @ + 1,
                          ![d].stage = IF delivery[d].attempt + 1 = MaxRetries THEN "saving" ELSE @]
        /\ UNCHANGED <<sub, started, notified, outlived>>

\* An attempt fails and is recorded; after a backoff comes the next, or the copy
\* is about to be saved.
AttemptFails(d) ==
    LET s == delivery[d].to
        n == delivery[d].attempt + 1
    IN  /\ delivery[d].stage = "sending"
        /\ Record(s)
        /\ exhausted' = IF n = MaxRetries THEN [exhausted EXCEPT ![s] = @ + 1] ELSE exhausted
        /\ delivery' = [delivery EXCEPT ![d].attempt = n,
                                        ![d].stage = IF n = MaxRetries THEN "saving" ELSE @]
        /\ UNCHANGED <<sub, started, notified, outlived>>

AttemptSucceeds(d) ==
    /\ delivery[d].stage = "sending"
    /\ Record(delivery[d].to)
    /\ delivery' = [delivery EXCEPT ![d].stage = "saving", ![d].ok = TRUE]
    /\ UNCHANGED <<sub, started, notified, exhausted, outlived>>

\* What the copy has become when it is saved.
Updated(d) ==
    LET c == delivery[d].copy
    IN  IF delivery[d].ok THEN [c EXCEPT !.failures = 0]
        ELSE [state |-> IF c.failures + 1 >= MaxConsecutive THEN "disabled" ELSE c.state,
              failures |-> c.failures + 1]

\* This copy turns inactive: the owner hears of it before it is saved.
Disables(d) ==
    /\ delivery[d].stage = "saving" /\ ~delivery[d].ok
    /\ delivery[d].copy.state = "active" /\ Updated(d).state = "disabled"

Notified(d) == IF Disables(d) THEN notified \cup {delivery[d].to} ELSE notified

\* The copy is saved over whatever the row has become.  A success with a clean
\* copy saves nothing.
Save(d) ==
    LET c == delivery[d].copy
    IN  /\ delivery[d].stage = "saving"
        /\ sub' = IF c = NoCopy \/ (delivery[d].ok /\ c.failures = 0) THEN sub
                  ELSE [sub EXCEPT ![delivery[d].to] = Updated(d)]
        /\ notified' = Notified(d)
        /\ delivery' = [delivery EXCEPT ![d] = Nothing]
        /\ UNCHANGED <<log, started, exhausted, outlived>>

\* The notification or the save throws (swallowed), or the process dies: nothing
\* takes the delivery up again.
Abandon(d) ==
    /\ delivery[d] # Nothing
    /\ notified' \in {notified, Notified(d)}
    /\ delivery' = [delivery EXCEPT ![d] = Nothing]
    /\ UNCHANGED <<sub, log, started, exhausted, outlived>>

\* cleanupOldDeliveries.
CleanUp(s) ==
    /\ s \in log
    /\ log' = log \ {s}
    /\ UNCHANGED <<sub, delivery, started, notified, exhausted, outlived>>

Next ==
    \/ \E s \in Sub : Register(s) \/ Remove(s) \/ CleanUp(s)
    \/ \E d \in Delivery :
         \/ \E s \in Sub : Publish(d, s) \/ Redeliver(d, s) \/ TestDelivery(d, s)
         \/ Load(d) \/ AttemptFails(d) \/ AttemptSucceeds(d) \/ Save(d) \/ Abandon(d)

Spec == Init /\ [][Next]_vars

----------------------------------------------------------------------------
(* Properties *)

\* However deliveries overlap, a subscription is disabled, and its owner told so,
\* only after as many deliveries to it were given up as the limit says.
DisabledOnlyByExhaustion ==
    \A s \in Sub : (sub[s].state = "disabled" \/ s \in notified) => exhausted[s] >= MaxConsecutive

\* A removed subscription receives no event again, unless a delivery that had
\* read it before the removal is saved after it (save() inserts it anew).
RemovedStaysRemoved ==
    [][\A s \in Sub : sub[s] = Removed /\ s \notin outlived => sub'[s] = Removed]_vars

=============================================================================
