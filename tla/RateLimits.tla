------------------------------ MODULE RateLimits ------------------------------
(***************************************************************************)
(* One key of a sliding-window limiter (createSlidingWindowLimiter): a     *)
(* sorted set in Redis of the times of its requests, shared by the         *)
(* instances of the server.  An instance stamps a request with its clock   *)
(* and sends four commands, between which those of another instance may    *)
(* run: drop what has left the window, add the request, count, and renew   *)
(* the key's life.  When Redis fails, the limiter lets the request         *)
(* through, refuses it, or counts in memory.                               *)
(*                                                                         *)
(* Each instance has one request on its way; clocks agree.                 *)
(***************************************************************************)
EXTENDS Integers, FiniteSets

CONSTANTS
    Instance,
    Window,    \* windowMs
    Limit,     \* max
    MaxHits,   \* bound: requests
    MaxClock   \* bound: time

ASSUME RateLimitsAssumption ==
    /\ Window \in Nat \ {0} /\ Limit \in Nat /\ MaxHits \in Nat /\ MaxClock \in Nat
    /\ "redis" \notin Instance  \* who counts: an instance in memory, or Redis

VARIABLES
    inMemory,  \* failureMode is closed, with memoryFallback
    clock,
    hits,      \* the sorted set
    expiry,    \* when the key expires
    asking,    \* the request of each instance
    memory,    \* memoryStore of each instance
    admitted,  \* history: requests let through after they were counted
    reached,   \* history: the latest time the set was trimmed, or expired, at
    asked      \* bound

limiterVars == <<inMemory, clock, hits, expiry, asking, memory, admitted, reached, asked>>

Hit == [nth : 1..MaxHits, now : 0..MaxClock]
NoHit == [at |-> "none"]
Never == -1
Stage == {"sent", "trimmed", "added"}

LimiterTypeOK ==
    /\ inMemory \in BOOLEAN
    /\ clock \in 0..MaxClock /\ reached \in 0..MaxClock
    /\ hits \subseteq Hit
    /\ expiry \in 0..(MaxClock + Window) \cup {Never}
    /\ asking \in [Instance -> [at : Stage, hit : Hit] \cup {NoHit}]
    /\ memory \in [Instance -> SUBSET Hit]
    /\ admitted \subseteq [hit : Hit, by : Instance \cup {"redis"}, late : BOOLEAN]
    /\ asked \in 0..MaxHits

LimiterInit ==
    /\ inMemory \in BOOLEAN
    /\ clock = 0 /\ hits = {} /\ expiry = Never
    /\ asking = [i \in Instance |-> NoHit]
    /\ memory = [i \in Instance |-> {}]
    /\ admitted = {} /\ reached = 0 /\ asked = 0

----------------------------------------------------------------------------

After(requests, t) == {h \in requests : h.now > t}

\* Time passes; a key whose life is over is gone.
Tick ==
    /\ clock < MaxClock /\ clock' = clock + 1
    /\ IF expiry # Never /\ expiry <= clock + 1
       THEN hits' = {} /\ expiry' = Never /\ reached' = clock + 1
       ELSE UNCHANGED <<hits, expiry, reached>>
    /\ UNCHANGED <<inMemory, asking, memory, admitted, asked>>

Ask(i) ==
    /\ asking[i] = NoHit
    /\ asked < MaxHits /\ asked' = asked + 1
    /\ asking' = [asking EXCEPT ![i] = [at |-> "sent", hit |-> [nth |-> asked + 1, now |-> clock]]]
    /\ UNCHANGED <<inMemory, clock, hits, expiry, memory, admitted, reached>>

\* ZREMRANGEBYSCORE; a set with no members is no key.
Trim(i) ==
    LET now == asking[i].hit.now
    IN  /\ asking[i].at = "sent"
        /\ hits' = After(hits, now - Window)
        /\ expiry' = IF hits' = {} THEN Never ELSE expiry
        /\ reached' = IF now > reached THEN now ELSE reached
        /\ asking' = [asking EXCEPT ![i].at = "trimmed"]
        /\ UNCHANGED <<inMemory, clock, memory, admitted, asked>>

\* ZADD: the request counts whether or not it is let through.
Add(i) ==
    /\ asking[i].at = "trimmed"
    /\ hits' = hits \cup {asking[i].hit}
    /\ asking' = [asking EXCEPT ![i].at = "added"]
    /\ UNCHANGED <<inMemory, clock, expiry, memory, admitted, reached, asked>>

\* EXPIRE
Renewed == IF hits = {} THEN Never ELSE clock + Window

Answer(i) == asking' = [asking EXCEPT ![i] = NoHit]

\* Mutant: the requests that were there before this one are counted.
CountOthers(i) ==
    LET me == asking[i].hit
    IN  /\ asking[i].at = "added"
        /\ admitted' = IF Cardinality(hits \ {me}) <= Limit
                       THEN admitted \cup {[hit |-> me, by |-> "redis", late |-> me.now < reached]}
                       ELSE admitted
        /\ expiry' = Renewed
        /\ Answer(i)
        /\ UNCHANGED <<inMemory, clock, hits, memory, reached, asked>>

\* ZCARD and EXPIRE, and the answer.
Count(i) ==
    LET me == asking[i].hit
    IN  /\ asking[i].at = "added"
        /\ admitted' = IF Cardinality(hits) <= Limit
                       THEN admitted \cup {[hit |-> me, by |-> "redis", late |-> me.now < reached]}
                       ELSE admitted
        /\ expiry' = Renewed
        /\ Answer(i)
        /\ UNCHANGED <<inMemory, clock, hits, memory, reached, asked>>

\* A command, or the answer, is lost: the request passes uncounted ("open"), is refused ("closed"),
\* or the instance counts it with those it counted before.
Fallback(i) ==
    LET me == asking[i].hit
        counted == After(memory[i], me.now - Window) \cup {me}
    IN  /\ asking[i] # NoHit
        /\ IF inMemory
           THEN /\ memory' = [memory EXCEPT ![i] = counted]
                /\ admitted' = IF Cardinality(counted) <= Limit
                               THEN admitted \cup {[hit |-> me, by |-> i, late |-> FALSE]}
                               ELSE admitted
           ELSE UNCHANGED <<memory, admitted>>
        /\ expiry' \in {expiry} \cup (IF asking[i].at = "added" THEN {Renewed} ELSE {})
        /\ Answer(i)
        /\ UNCHANGED <<inMemory, clock, hits, reached, asked>>

LimiterNext ==
    \/ Tick
    \/ \E i \in Instance : Ask(i) \/ Trim(i) \/ Add(i) \/ Count(i) \/ Fallback(i)

LimiterSpec == LimiterInit /\ [][LimiterNext]_limiterVars

----------------------------------------------------------------------------
(* Properties *)

InWindow(t, by) ==
    {h \in Hit : t - Window < h.now /\ h.now <= t /\ [hit |-> h, by |-> by, late |-> FALSE] \in admitted}

\* No window holds more than Limit requests that Redis counted, however the
\* commands of the instances interleave and whatever fails, except requests that
\* were overtaken: counted after the set was trimmed, or expired, at a later time
\* than their own.  The same holds of what one instance counts in memory.
WindowHolds ==
    \A t \in 0..MaxClock, by \in Instance \cup {"redis"} : Cardinality(InWindow(t, by)) <= Limit

=============================================================================
