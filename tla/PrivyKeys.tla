----------------------------- MODULE PrivyKeys -----------------------------
(***************************************************************************)
(* Privy's signing keys as one process caches them (PrivyJwksCache) behind *)
(* a circuit breaker (PrivyResilience).  A token names its key by a kid;   *)
(* the set of keys is fetched when it expires, and when a kid is new, at   *)
(* most once per NegativeTtl.  A kid that was looked up in vain is refused *)
(* without a fetch for as long.                                            *)
(*                                                                         *)
(* The cache is the breaker's one caller and has one fetch in flight, so   *)
(* `half-open' is a call admitted by a breaker whose window is over.  A     *)
(* configuration whose Ttl is below NegativeTtl, where an expired set may  *)
(* not be fetched yet, is left out.                                        *)
(***************************************************************************)
EXTENDS Naturals

CONSTANTS
    Kid,           \* names of keys
    Ttl,           \* jwksTtlMs: a key set is fresh
    StaleTtl,      \* jwksStaleTtlMs: a key set may still be served
    NegativeTtl,   \* jwksNegativeTtlMs
    Threshold,     \* failures in a row that open the breaker
    ResetTimeout,  \* how long it stays open
    MaxTime        \* bound: the clock

VARIABLES
    now,        \* the clock
    published,  \* Privy: since when each key is published; None before and after
    entry,      \* the cached key set and, for the properties, when it was asked for
    unknown,    \* unknownKids: when each kid was looked up in vain
    fetch,      \* inFlight: since when, the document received, the kids callers wait for
    breaker,    \* open or not, failures in a row, when it opened
    failedAt,   \* history: the last refresh that failed
    refusal     \* history: kids refused as unknown at this moment, with this key set

vars == <<now, published, entry, unknown, fetch, breaker, failedAt, refusal>>

Time == 0..MaxTime
None == MaxTime + 1
NoEntry == [keys |-> {}, at |-> None, asked |-> None]
NoFetch == [since |-> None, keys |-> {}, waiting |-> {}]

Latest(a, b) == IF a > b THEN a ELSE b

TypeOK ==
    /\ now \in Time
    /\ published \in [Kid -> Time \cup {None}]
    /\ entry = NoEntry \/ entry \in [keys : SUBSET Kid, at : Time, asked : Time]
    /\ unknown \in [Kid -> Time \cup {None}]
    /\ fetch = NoFetch \/ fetch \in [since : Time, keys : SUBSET Kid, waiting : SUBSET Kid \ {{}}]
    /\ breaker \in [open : BOOLEAN, failures : 0..Threshold, since : Time]
    /\ failedAt \in Time
    /\ refusal \subseteq Kid

\* startsOpen for a standby replica.
Init ==
    /\ now = 0
    /\ published \in [Kid -> {0, None}] /\ \E k \in Kid : published[k] = 0
    /\ entry = NoEntry /\ fetch = NoFetch /\ refusal = {}
    /\ unknown = [k \in Kid |-> None]
    /\ breaker \in [open : BOOLEAN, failures : {0}, since : {0}]
    /\ failedAt = 0

----------------------------------------------------------------------------
(* Privy and the clock *)

Tick ==
    /\ now < MaxTime /\ now' = now + 1
    /\ refusal' = {}
    /\ UNCHANGED <<published, entry, unknown, fetch, breaker, failedAt>>

Publish(k) ==
    /\ published[k] = None
    /\ published' = [published EXCEPT ![k] = now]
    /\ UNCHANGED <<now, entry, unknown, fetch, breaker, failedAt, refusal>>

Retire(k) ==
    /\ published[k] # None /\ \E other \in Kid \ {k} : published[other] # None
    /\ published' = [published EXCEPT ![k] = None]
    /\ UNCHANGED <<now, entry, unknown, fetch, breaker, failedAt, refusal>>

----------------------------------------------------------------------------
(* The cache *)

Fresh == entry # NoEntry /\ now < entry.at + Ttl
Cooling == entry # NoEntry /\ now - entry.at < NegativeTtl
Usable == entry # NoEntry /\ now < entry.at + StaleTtl

\* isUnknownKidCached; an outlived note is dropped by the lookup.
KnownUnknown(k) == unknown[k] # None /\ now - unknown[k] < NegativeTtl

\* noteUnknownKid and PrivyUnknownKeyError.
Refuse(kids) == refusal' = refusal \cup kids
Noting(notes, kids) == [k \in Kid |-> IF k \in kids THEN now ELSE notes[k]]

\* Mutant: a caller told so again renews the note.
RefuseNotedRenewing(k) ==
    /\ KnownUnknown(k)
    /\ unknown' = Noting(unknown, {k})
    /\ Refuse({k})
    /\ UNCHANGED <<now, published, entry, fetch, breaker, failedAt>>

RefuseNoted(k) ==
    /\ KnownUnknown(k)
    /\ Refuse({k})
    /\ UNCHANGED <<now, published, entry, unknown, fetch, breaker, failedAt>>

\* A fresh set without the kid, too young to be fetched again.  (A set that has it
\* answers, which changes nothing.)
RefuseCooling(k) ==
    /\ ~KnownUnknown(k) /\ Fresh /\ k \notin entry.keys /\ Cooling
    /\ unknown' = Noting(unknown, {k})
    /\ Refuse({k})
    /\ UNCHANGED <<now, published, entry, fetch, breaker, failedAt>>

Wanting(k) == ~KnownUnknown(k) /\ ~(Fresh /\ (k \in entry.keys \/ Cooling))

\* staleEntryOrThrow: the set at hand, or PrivyKeyUnavailableError for every caller.
Fallback(kids) ==
    IF Usable THEN unknown' = Noting(unknown, kids \ entry.keys) /\ Refuse(kids \ entry.keys)
              ELSE UNCHANGED <<unknown, refusal>>

Blocked == breaker.open /\ now - breaker.since < ResetTimeout

\* CircuitOpenError: no call is made, and none is counted.
ShortCircuit(k) ==
    /\ Wanting(k) /\ fetch = NoFetch /\ Blocked
    /\ failedAt' = now
    /\ Fallback({k})
    /\ UNCHANGED <<now, published, entry, fetch, breaker>>

Ask(k) ==
    /\ Wanting(k) /\ fetch = NoFetch /\ ~Blocked
    /\ fetch' = [since |-> now, keys |-> {}, waiting |-> {k}]
    /\ UNCHANGED <<now, published, entry, unknown, breaker, failedAt, refusal>>

Join(k) ==
    /\ Wanting(k) /\ fetch # NoFetch
    /\ fetch' = [fetch EXCEPT !.waiting = @ \cup {k}]
    /\ UNCHANGED <<now, published, entry, unknown, breaker, failedAt, refusal>>

\* Privy writes its answer, which may be under way while keys rotate.
Respond ==
    /\ fetch # NoFetch /\ fetch.keys = {}
    /\ fetch' = [fetch EXCEPT !.keys = {k \in Kid : published[k] # None}]
    /\ UNCHANGED <<now, published, entry, unknown, breaker, failedAt, refusal>>

\* recordSuccess.
Reset == [breaker EXCEPT !.open = FALSE, !.failures = 0]

\* The entry, the end of all notes, and every caller that waited.
Store ==
    /\ fetch.keys # {}
    /\ entry' = [keys |-> fetch.keys, at |-> now, asked |-> fetch.since]
    /\ unknown' = [k \in Kid |-> IF k \in fetch.waiting \ fetch.keys THEN now ELSE None]
    /\ refusal' = fetch.waiting \ fetch.keys
    /\ breaker' = Reset
    /\ fetch' = NoFetch
    /\ UNCHANGED <<now, published, failedAt>>

\* recordFailure: a failed probe opens the breaker again at once.
Tripped ==
    LET failures == IF breaker.open THEN Threshold ELSE breaker.failures + 1
    IN  IF failures >= Threshold THEN [open |-> TRUE, failures |-> Threshold, since |-> now]
                                 ELSE [breaker EXCEPT !.failures = failures]

\* Every retry failed.
Fail ==
    /\ fetch # NoFetch
    /\ breaker' = Tripped
    /\ failedAt' = now
    /\ Fallback(fetch.waiting)
    /\ fetch' = NoFetch
    /\ UNCHANGED <<now, published, entry>>

\* The answer holds no usable key: resilientCall has returned, and recordSuccess with
\* it, before fetchAndStore throws.
AnswerUnusable ==
    /\ fetch # NoFetch
    /\ breaker' = Reset
    /\ failedAt' = now
    /\ Fallback(fetch.waiting)
    /\ fetch' = NoFetch
    /\ UNCHANGED <<now, published, entry>>

GetKey(k) == RefuseNoted(k) \/ RefuseCooling(k) \/ ShortCircuit(k) \/ Ask(k) \/ Join(k)

Next ==
    \/ Tick \/ Respond \/ Store \/ Fail \/ AnswerUnusable
    \/ \E k \in Kid : GetKey(k) \/ Publish(k) \/ Retire(k)

Spec == Init /\ [][Next]_vars

----------------------------------------------------------------------------
(* Properties *)

\* When a refused key should have been found: it is published, and no set of before
\* its publication, nor any failed refresh, is younger.
Overdue(k) ==
    Latest(failedAt, IF entry # NoEntry /\ published[k] >= entry.asked
                     THEN Latest(published[k], entry.at) ELSE published[k])

\* As long as Privy answers, a rotated key is looked up in vain for one window at
\* most, the cooldown of the set at hand; after that only the note of such a lookup
\* refuses it, however many callers present the key and whatever else is refreshed
\* meanwhile.  A note lasts one window itself: a lookup at the end of the cooldown
\* makes two of the one that the class comment speaks of.
RotationCatchesOn ==
    \A k \in refusal : published[k] # None => KnownUnknown(k) /\ unknown[k] < Overdue(k) + NegativeTtl

=============================================================================
