---------------------------- MODULE CircuitBreaker ----------------------------
(***************************************************************************)
(* The circuit breaker in front of Pinata (CircuitBreaker, PinataService). *)
(* An upload to IPFS is attempted several times, with pauses; each attempt *)
(* is a call that the breaker refuses while it is open.  Each opening arms *)
(* a timer that half-opens the breaker, and no timer is ever disarmed:     *)
(* calls that were under way when the breaker opened may open it again.    *)
(*                                                                         *)
(* Health checks are left out: PinataService never starts them.            *)
(***************************************************************************)
EXTENDS Integers, Sequences

CONSTANTS
    Pin,           \* uploads to IPFS
    Threshold,     \* failureThreshold
    MaxAttempts,   \* maxRetries
    ResetTimeout,  \* resetTimeoutMs
    MaxFailures,   \* bound: failures
    MaxTime        \* bound: time

ASSUME CircuitBreakerAssumption ==
    /\ Threshold \in Nat \ {0} /\ MaxAttempts \in Nat \ {0} /\ ResetTimeout \in Nat
    /\ MaxFailures \in Nat /\ MaxTime \in Nat

VARIABLES
    time,
    circuit,    \* state
    failures,   \* failureCount
    openedAt,
    timers,     \* when the reset timers are due; they fire in the order they were armed
    pin,        \* the attempt of each upload
    entangled,  \* history: the breaker was opened while a timer of an earlier opening was armed
    failed      \* bound

breakerVars == <<time, circuit, failures, openedAt, timers, pin, entangled, failed>>

NoPin == [at |-> "none"]
Unopened == -1

BreakerTypeOK ==
    /\ time \in 0..MaxTime
    /\ circuit \in {"CLOSED", "OPEN", "HALF_OPEN"}
    /\ failures \in 0..MaxFailures /\ failed \in 0..MaxFailures
    /\ openedAt \in 0..MaxTime \cup {Unopened}
    /\ timers \in Seq(0..(MaxTime + ResetTimeout))
    /\ pin \in [Pin -> [at : {"calling", "pausing"}, attempt : 1..MaxAttempts] \cup {NoPin}]
    /\ entangled \in BOOLEAN

BreakerInit ==
    /\ time = 0 /\ circuit = "CLOSED" /\ failures = 0 /\ openedAt = Unopened /\ timers = <<>>
    /\ pin = [p \in Pin |-> NoPin]
    /\ entangled = FALSE /\ failed = 0

----------------------------------------------------------------------------

Elapse ==
    /\ time < MaxTime /\ time' = time + 1
    /\ UNCHANGED <<circuit, failures, openedAt, timers, pin, entangled, failed>>

\* uploadFile and uploadJSON: an open breaker fails them at once.
Attempt(p) ==
    /\ pin[p] = NoPin /\ circuit # "OPEN"
    /\ pin' = [pin EXCEPT ![p] = [at |-> "calling", attempt |-> 1]]
    /\ UNCHANGED <<time, circuit, failures, openedAt, timers, entangled, failed>>

\* After the pause, unless the breaker has opened.
Retry(p) ==
    /\ pin[p].at = "pausing"
    /\ pin' = [pin EXCEPT ![p] = IF circuit = "OPEN" THEN NoPin
                                 ELSE [at |-> "calling", attempt |-> @.attempt + 1]]
    /\ UNCHANGED <<time, circuit, failures, openedAt, timers, entangled, failed>>

\* Mutant: every success is recorded, also one that was called before the opening.
CallSucceedsRecorded(p) ==
    /\ pin[p].at = "calling"
    /\ pin' = [pin EXCEPT ![p] = NoPin]
    /\ failures' = 0
    /\ circuit' = IF circuit = "HALF_OPEN" THEN "CLOSED" ELSE circuit
    /\ UNCHANGED <<time, openedAt, timers, entangled, failed>>

\* recordSuccess, of a half-open breaker only.
CallSucceeds(p) ==
    /\ pin[p].at = "calling"
    /\ pin' = [pin EXCEPT ![p] = NoPin]
    /\ IF circuit = "HALF_OPEN" THEN circuit' = "CLOSED" /\ failures' = 0 ELSE UNCHANGED <<circuit, failures>>
    /\ UNCHANGED <<time, openedAt, timers, entangled, failed>>

\* recordFailure, whatever the state.
RecordFailure ==
    /\ failures' = failures + 1
    /\ IF failures + 1 >= Threshold
       THEN /\ circuit' = "OPEN" /\ openedAt' = time
            /\ timers' = Append(timers, time + ResetTimeout)
            /\ entangled' = (timers # <<>>)
       ELSE UNCHANGED <<circuit, openedAt, timers, entangled>>

CallFails(p) ==
    /\ pin[p].at = "calling"
    /\ failed < MaxFailures /\ failed' = failed + 1
    /\ RecordFailure
    /\ pin' = [pin EXCEPT ![p] = IF @.attempt < MaxAttempts THEN [@ EXCEPT !.at = "pausing"] ELSE NoPin]
    /\ UNCHANGED time

\* The timer of an opening, whatever the state.
TimerFires ==
    /\ timers # <<>> /\ Head(timers) <= time
    /\ timers' = Tail(timers)
    /\ circuit' = "HALF_OPEN"
    /\ UNCHANGED <<time, failures, openedAt, pin, entangled, failed>>

BreakerNext ==
    \/ Elapse \/ TimerFires
    \/ \E p \in Pin : Attempt(p) \/ Retry(p) \/ CallSucceeds(p) \/ CallFails(p)

BreakerSpec == BreakerInit /\ [][BreakerNext]_breakerVars

----------------------------------------------------------------------------
(* Properties *)

\* An open breaker always has a timer to half-open it.  It stays open for the whole
\* timeout, and a half-open one opens again at the first failure (its failures are
\* at the threshold), unless it was opened again while a timer was armed: then the
\* earlier timer cuts the rest short, and the later one half-opens a breaker that a
\* success has closed.
BreakerRests ==
    /\ circuit = "OPEN" => timers # <<>>
    /\ circuit # "OPEN" /\ openedAt # Unopened => time >= openedAt + ResetTimeout \/ entangled
    /\ circuit = "HALF_OPEN" => failures >= Threshold \/ entangled

=============================================================================
