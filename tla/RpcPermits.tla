----------------------------- MODULE RpcPermits -----------------------------
(***************************************************************************)
(* The calls of one SorobanService to its RPC node: every call takes one   *)
(* of a few permits (Semaphore), keeps it through the pause after a        *)
(* transient error, gives it back and takes another for the next attempt   *)
(* (withBackoff).  A submission sends a transaction and asks for its       *)
(* result until it is found or the deadline has passed.                    *)
(*                                                                         *)
(* What the calls return is kept as far as it steers the client; the       *)
(* length of the pauses is left out.                                       *)
(***************************************************************************)
EXTENDS Naturals, Sequences

CONSTANTS
    Client,       \* operations begun, each once
    MaxPermits,   \* MAX_CONCURRENT_RPC
    MaxBackoffs   \* BACKOFF_MAX_RETRIES

VARIABLES
    running,  \* Semaphore.running
    waiting,  \* Semaphore.queue
    client,   \* what each operation is doing, in which call and attempt
    expired   \* submissions whose deadline has passed

vars == <<running, waiting, client, expired>>

\* prepareInvocation makes the first two calls, submitSignedTransaction the next two,
\* and getRoyaltyPayoutEvents the last.
RpcCall == {"getAccount", "prepareTransaction", "sendTransaction", "getTransaction", "getEvents"}
Unbegun == [at |-> "unbegun"]
Ended == [at |-> "ended"]

TypeOK ==
    /\ running \in 0..MaxPermits
    /\ waiting \in Seq(Client)
    /\ client \in [Client -> {Unbegun, Ended}
         \cup [at : {"acquiring", "waiting", "calling", "backing off", "pausing"},
               rpc : RpcCall, attempt : 0..MaxBackoffs]]
    /\ expired \subseteq Client

Init ==
    /\ running = 0 /\ waiting = <<>> /\ expired = {}
    /\ client = [c \in Client |-> Unbegun]

----------------------------------------------------------------------------
(* Semaphore *)

\* Client c, which has no permit, is in state me and asks for one.
Acquire(c, me) ==
    IF running < MaxPermits
    THEN /\ running' = running + 1 /\ waiting' = waiting
         /\ client' = [client EXCEPT ![c] = [me EXCEPT !.at = "calling"]]
    ELSE /\ running' = running /\ waiting' = Append(waiting, c)
         /\ client' = [client EXCEPT ![c] = [me EXCEPT !.at = "waiting"]]

\* Mutant: the permit is returned to the pool, and the queue is left to itself.
ReleaseToPool(c, me) ==
    /\ running' = running - 1 /\ waiting' = waiting
    /\ client' = [client EXCEPT ![c] = me]

\* Client c gives its permit to the first who waits, and goes on as me.
Release(c, me) ==
    IF waiting = <<>>
    THEN /\ running' = running - 1 /\ waiting' = waiting
         /\ client' = [client EXCEPT ![c] = me]
    ELSE /\ running' = running /\ waiting' = Tail(waiting)
         /\ client' = [client EXCEPT ![c] = me, ![Head(waiting)].at = "calling"]

----------------------------------------------------------------------------
(* withBackoff and its callers *)

Calling(rpc) == [at |-> "acquiring", rpc |-> rpc, attempt |-> 0]

Begin(c) ==
    /\ client[c] = Unbegun
    /\ \E rpc \in {"getAccount", "sendTransaction", "getEvents"} : Acquire(c, Calling(rpc))
    /\ UNCHANGED expired

\* The next call of an operation.
Proceed(c) ==
    /\ client[c].at = "acquiring"
    /\ Acquire(c, client[c])
    /\ UNCHANGED expired

\* What follows the answer to a call: of getTransaction, NOT_FOUND may be it.
Following(c, rpc) ==
    CASE rpc = "getAccount" -> {Calling("prepareTransaction")}
      [] rpc = "sendTransaction" -> {Calling("getTransaction"), Ended}
      [] rpc = "getTransaction" ->
           {Ended} \cup IF c \in expired THEN {}
                        ELSE {[at |-> "pausing", rpc |-> rpc, attempt |-> 0]}
      [] rpc \in {"prepareTransaction", "getEvents"} -> {Ended}

Answer(c) ==
    /\ client[c].at = "calling"
    /\ \E next \in Following(c, client[c].rpc) : Release(c, next)
    /\ UNCHANGED expired

\* The permit is kept.
TransientError(c) ==
    /\ client[c].at = "calling" /\ client[c].attempt < MaxBackoffs
    /\ client' = [client EXCEPT ![c].at = "backing off"]
    /\ UNCHANGED <<running, waiting, expired>>

\* The permit is released and asked for again at once: who waits goes first.
Retry(c) ==
    LET again(at) == [client[c] EXCEPT !.at = at, !.attempt = @ + 1]
    IN  /\ client[c].at = "backing off"
        /\ IF waiting = <<>>
           THEN client' = [client EXCEPT ![c] = again("calling")] /\ UNCHANGED waiting
           ELSE /\ waiting' = Append(Tail(waiting), c)
                /\ client' = [client EXCEPT ![c] = again("waiting"), ![Head(waiting)].at = "calling"]
        /\ UNCHANGED <<running, expired>>

\* Not retryable, or the last attempt: the operation throws.
Error(c) ==
    /\ client[c].at = "calling"
    /\ Release(c, Ended)
    /\ UNCHANGED expired

\* The pause between two polls is over.
Poll(c) ==
    /\ client[c].at = "pausing"
    /\ Acquire(c, client[c])
    /\ UNCHANGED expired

\* POLL_TIMEOUT_MS after the first answer.
Expire(c) ==
    /\ client[c] \notin {Unbegun, Ended} /\ client[c].rpc = "getTransaction"
    /\ c \notin expired /\ expired' = expired \cup {c}
    /\ UNCHANGED <<running, waiting, client>>

\* What the operation of c does next; of these, one kind is possible at a time.
Step(c) ==
    \/ Proceed(c) \/ Answer(c) \/ TransientError(c) \/ Error(c) \/ Retry(c) \/ Poll(c)

Next == \E c \in Client : Begin(c) \/ Step(c) \/ Expire(c)

\* The node answers, or the connection fails; timers fire, and promises settle.
Fairness == \A c \in Client : WF_vars(Step(c)) /\ WF_vars(Expire(c))

Spec == Init /\ [][Next]_vars /\ Fairness

----------------------------------------------------------------------------
(* Properties *)

\* Every operation that begins ends, though failing calls keep their permits while
\* they pause: no permit is lost, no one waits in the queue for ever, and polling
\* stops at its deadline.
OperationsEnd == \A c \in Client : client[c] # Unbegun ~> client[c] = Ended

=============================================================================
