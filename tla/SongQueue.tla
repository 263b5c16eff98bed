----------------------------- MODULE SongQueue -----------------------------
(***************************************************************************)
(* The song_processing queue: uploads publish to it                        *)
(* (SongService.finalizeUpload), worker processes consume from it          *)
(* (SongProcessorWorker.startSongWorker, handleFailure), and a process that *)
(* is told to stop drains (gracefulShutdown.drainWorkerQueues) while       *)
(* connections and processes may die (config/rabbitmq.ts).                 *)
(*                                                                         *)
(* What processSongMessage does to a song is abstracted to whether it      *)
(* resolves; a slot is a delivery together with the handler it runs, which *)
(* may outlive it.                                                         *)
(***************************************************************************)
EXTENDS Naturals, FiniteSetsExt

CONSTANTS
    Song,          \* uploads
    Worker,        \* consuming processes: API servers
    Prefetch,      \* WORKER_PREFETCH
    MaxAttempts,   \* MAX_ATTEMPTS
    MaxFaults,     \* bound: crashes, lost connections, broker restarts
    MaxShutdowns   \* bound: SIGTERMs

Slot == 1..Prefetch

\* The payload: a first message carries no attempt, which counts as 1.
Message == [song : Song, attempt : 1..MaxAttempts - 1]

VARIABLES
    saved,     \* songs whose row finalizeUpload has written
    ready,     \* copies of each message waiting in the queue
    process,   \* what each process is doing
    slot,      \* its deliveries
    settled,   \* history: how songs were settled, with the cause
    faults, shutdowns

vars == <<saved, ready, process, slot, settled, faults, shutdowns>>

\* up: consuming; deaf: running, but with no consumer on its channel;
\* stopping: draining, the cancel not confirmed; waiting: for pending handlers;
\* requeued: unfinished deliveries nacked, the channel still open.
Process == {"up", "deaf", "stopping", "waiting", "requeued", "down"}

\* active: unacked, its entry active; published: the retry is on the wire, the
\* ack behind it; orphan: the delivery is gone, the handler still runs.
Taken == [stage : {"active", "published", "orphan"}, msg : Message]
Free == [stage |-> "free"]

Outcome == {"acked", "exhausted", "expired", "transient", "unsent"}

TypeOK ==
    /\ saved \subseteq Song
    /\ ready \in [Message -> Nat]
    /\ process \in [Worker -> Process]
    /\ slot \in [Worker -> [Slot -> Taken \cup {Free}]]
    /\ settled \subseteq Song \X Outcome
    /\ faults \in 0..MaxFaults /\ shutdowns \in 0..MaxShutdowns

Init ==
    /\ saved = {} /\ settled = {}
    /\ ready = [m \in Message |-> 0]
    /\ process = [w \in Worker |-> "up"]
    /\ slot = [w \in Worker |-> [i \in Slot |-> Free]]
    /\ faults = 0 /\ shutdowns = 0

----------------------------------------------------------------------------
(* Helpers *)

First(s) == [song |-> s, attempt |-> 1]
Settle(s, outcome) == settled' = settled \cup {<<s, outcome>>}
Put(w, i, d) == slot' = [slot EXCEPT ![w][i] = d]
Enqueue(m) == ready' = [ready EXCEPT ![m] = @ + 1]
Fault == faults < MaxFaults /\ faults' = faults + 1

\* The slots of w whose delivery the broker still holds for it.
Unacked(w) == {i \in Slot : slot[w][i].stage \in {"active", "published"}}

\* The queue once the broker has taken back the deliveries of processes ws.
TakenBack(ws) ==
    [m \in Message |-> ready[m] +
        Cardinality({h \in ws \X Slot : h[2] \in Unacked(h[1]) /\ slot[h[1]][h[2]].msg = m})]

\* The slots of a process that has lost its channel but runs on.
Orphaned(w) ==
    [i \in Slot |-> IF slot[w][i].stage = "active"
                    THEN [slot[w][i] EXCEPT !.stage = "orphan"]
                    ELSE IF slot[w][i].stage = "orphan" THEN slot[w][i] ELSE Free]

----------------------------------------------------------------------------
(* Publishing *)

\* finalizeUpload: the row is saved, then the message sent; getChannel() throws
\* when the connection is down, and nothing sends the message later.
Upload(s) ==
    /\ s \notin saved
    /\ saved' = saved \cup {s}
    /\ \/ Enqueue(First(s)) /\ UNCHANGED <<settled, faults>>
       \/ Fault /\ Settle(s, "unsent") /\ UNCHANGED ready
    /\ UNCHANGED <<process, slot, shutdowns>>

----------------------------------------------------------------------------
(* Consuming *)

\* A delivery arrives.  (While stopping, handle() nacks it back at once, which
\* leaves the queue as it was.)
Deliver(w) ==
    /\ process[w] = "up"
    /\ \E m \in Message, i \in Slot :
         /\ ready[m] > 0 /\ slot[w][i] = Free
         /\ ready' = [ready EXCEPT ![m] = @ - 1]
         /\ Put(w, i, [stage |-> "active", msg |-> m])
    /\ UNCHANGED <<saved, process, settled, faults, shutdowns>>

\* processSongMessage resolves: ack.
HandlerResolves(w, i) ==
    /\ slot[w][i].stage = "active"
    /\ Settle(slot[w][i].msg.song, "acked")
    /\ Put(w, i, Free)
    /\ UNCHANGED <<saved, ready, process, faults, shutdowns>>

\* Mutant: the retry carries the attempt it came with.
HandlerRejectsUncounted(w, i) ==
    /\ slot[w][i].stage = "active"
    /\ Enqueue(slot[w][i].msg)
    /\ Put(w, i, [slot[w][i] EXCEPT !.stage = "published"])
    /\ UNCHANGED <<saved, process, settled, faults, shutdowns>>

\* processSongMessage rejects: handleFailure discards the message after the last
\* attempt (the queue has no dead-letter exchange), or publishes a retry.
HandlerRejects(w, i) ==
    LET m == slot[w][i].msg
    IN  /\ slot[w][i].stage = "active"
        /\ IF m.attempt + 1 >= MaxAttempts
           THEN /\ Settle(m.song, "exhausted")
                /\ Put(w, i, Free)
                /\ UNCHANGED ready
           ELSE /\ Enqueue([m EXCEPT !.attempt = @ + 1])
                /\ Put(w, i, [slot[w][i] EXCEPT !.stage = "published"])
                /\ UNCHANGED settled
        /\ UNCHANGED <<saved, process, faults, shutdowns>>

\* The ack that follows the retry reaches the broker.
AckRetry(w, i) ==
    /\ slot[w][i].stage = "published"
    /\ Put(w, i, Free)
    /\ UNCHANGED <<saved, ready, process, settled, faults, shutdowns>>

\* Mutant: the handler does not ask isActive().
OrphanPublishes(w, i) ==
    /\ slot[w][i].stage = "orphan"
    /\ Put(w, i, Free)
    /\ IF process[w] = "requeued" /\ slot[w][i].msg.attempt + 1 < MaxAttempts
       THEN Enqueue([slot[w][i].msg EXCEPT !.attempt = @ + 1])
       ELSE UNCHANGED ready
    /\ UNCHANGED <<saved, process, settled, faults, shutdowns>>

\* A handler ends whose delivery is gone: isActive() is false after a drain, and
\* the old channel throws after a lost connection.
OrphanEnds(w, i) ==
    /\ slot[w][i].stage = "orphan"
    /\ Put(w, i, Free)
    /\ UNCHANGED <<saved, ready, process, settled, faults, shutdowns>>

----------------------------------------------------------------------------
(* drainWorkerQueues *)

Shutdown(w) ==
    /\ process[w] \in {"up", "deaf"}
    /\ shutdowns < MaxShutdowns /\ shutdowns' = shutdowns + 1
    /\ process' = [process EXCEPT ![w] = "stopping"]
    /\ UNCHANGED <<saved, ready, slot, settled, faults>>

CancelOk(w) ==
    /\ process[w] = "stopping"
    /\ process' = [process EXCEPT ![w] = "waiting"]
    /\ UNCHANGED <<saved, ready, slot, settled, faults, shutdowns>>

\* Every handler has settled, or the drain timeout fires: what is unfinished is
\* nacked with requeue and its entry made inactive.
Requeue(w) ==
    /\ process[w] \in {"stopping", "waiting"}
    /\ \A i \in Slot : slot[w][i].stage # "published"
    /\ ready' = TakenBack({w})
    /\ slot' = [slot EXCEPT ![w] = Orphaned(w)]
    /\ process' = [process EXCEPT ![w] = "requeued"]
    /\ UNCHANGED <<saved, settled, faults, shutdowns>>

\* The channel and the connection close and the process exits.
Exit(w) ==
    /\ process[w] = "requeued"
    /\ process' = [process EXCEPT ![w] = "down"]
    /\ slot' = [slot EXCEPT ![w] = [i \in Slot |-> Free]]
    /\ UNCHANGED <<saved, ready, settled, faults, shutdowns>>

\* A supervisor starts the process again.  When the broker is out of reach,
\* startSongWorker returns false and is not called again: the API server runs
\* on, and its connection is retried, without a consumer.
Start(w) ==
    /\ process[w] = "down"
    /\ \/ process' = [process EXCEPT ![w] = "up"] /\ UNCHANGED faults
       \/ process' = [process EXCEPT ![w] = "deaf"] /\ Fault
    /\ UNCHANGED <<saved, ready, slot, settled, shutdowns>>

----------------------------------------------------------------------------
(* Failures *)

Crash(w) ==
    /\ process[w] # "down" /\ Fault
    /\ ready' = TakenBack({w})
    /\ slot' = [slot EXCEPT ![w] = [i \in Slot |-> Free]]
    /\ process' = [process EXCEPT ![w] = "down"]
    /\ UNCHANGED <<saved, settled, shutdowns>>

\* 'close' of the connection: connect() makes a new channel, on which nobody
\* consumes; a process that is stopping does not reconnect.
LoseConnection(w) ==
    /\ process[w] \in {"up", "stopping", "waiting"} /\ Fault
    /\ ready' = TakenBack({w})
    /\ slot' = [slot EXCEPT ![w] = Orphaned(w)]
    /\ process' = [process EXCEPT ![w] = IF @ = "up" THEN "deaf" ELSE @]
    /\ UNCHANGED <<saved, settled, shutdowns>>

\* A retry waits longer than its `expiration`.
Expire(m) ==
    /\ m.attempt > 1 /\ ready[m] > 0
    /\ ready' = [ready EXCEPT ![m] = @ - 1]
    /\ Settle(m.song, "expired")
    /\ UNCHANGED <<saved, process, slot, faults, shutdowns>>

\* The durable queue survives, but first messages are not sent as persistent.
BrokerRestart ==
    LET all == TakenBack(Worker)
    IN  /\ Fault
        /\ ready' = [m \in Message |-> IF m.attempt = 1 THEN 0 ELSE all[m]]
        /\ settled' = settled \cup
             {<<m.song, "transient">> : m \in {n \in Message : n.attempt = 1 /\ all[n] > 0}}
        /\ slot' = [w \in Worker |-> Orphaned(w)]
        /\ process' = [w \in Worker |-> IF process[w] = "up" THEN "deaf" ELSE process[w]]
        /\ UNCHANGED <<saved, shutdowns>>

HandlerStep(w, i) ==
    HandlerResolves(w, i) \/ HandlerRejects(w, i) \/ AckRetry(w, i) \/ OrphanEnds(w, i)

DrainStep(w) == CancelOk(w) \/ Requeue(w) \/ Exit(w)

Next ==
    \/ \E s \in Song : Upload(s)
    \/ \E w \in Worker :
         \/ Deliver(w) \/ Shutdown(w) \/ DrainStep(w) \/ Start(w)
         \/ Crash(w) \/ LoseConnection(w)
         \/ \E i \in Slot : HandlerStep(w, i)
    \/ \E m \in Message : Expire(m)
    \/ BrokerRestart

Spec == Init /\ [][Next]_vars

\* The broker delivers, handlers end, a drain ends by its timeout at the latest,
\* and a supervisor restarts what has exited.
Fairness ==
    \A w \in Worker :
        /\ WF_vars(Deliver(w)) /\ WF_vars(DrainStep(w)) /\ WF_vars(Start(w))
        /\ \A i \in Slot : WF_vars(HandlerStep(w, i))

FairSpec == Spec /\ Fairness

----------------------------------------------------------------------------
(* Properties *)

\* Copies of s in the queue or with a handler that may still settle them; a
\* delivery whose retry is published is represented by the retry.
Copies(s) ==
    LET held == {h \in Worker \X Slot : LET at == slot[h[1]][h[2]]
                                       IN  at.stage = "active" /\ at.msg.song = s}
    IN  MapThenSumSet(LAMBDA a : ready[[song |-> s, attempt |-> a]], 1..MaxAttempts - 1)
          + Cardinality(held)

Outcomes(s) == {o \in Outcome : <<s, o>> \in settled}

\* A message of s waits in the queue, or a live delivery of one is handled.
Underway(s) ==
    \/ \E m \in Message : m.song = s /\ ready[m] > 0
    \/ \E w \in Worker, i \in Slot : slot[w][i].stage = "active" /\ slot[w][i].msg.song = s

NoneForgotten == \A s \in saved : Underway(s) \/ Outcomes(s) # {}

\* A song whose row exists is never forgotten in silence: until some cause is on
\* record (acked, attempts used up, expired, never sent, sent as transient), a
\* copy of its message is in the queue or in the hands of a live delivery.  And
\* stopping a process, even past its drain deadline with the handler still at
\* work, neither duplicates a message nor settles it twice; each fault adds at most
\* one copy or cause (the retry is out, its ack is lost).
MessagesAccountedFor ==
    /\ NoneForgotten
    /\ \A s \in Song : Copies(s) + Cardinality(Outcomes(s)) <= 1 + faults

\* Once a song is saved, its copies run out, by an ack, the attempt limit or a
\* loss, unless every process is left without a consumer.
SongsAreSettled ==
    \A s \in Song :
        s \in saved ~> (Copies(s) = 0 \/ \A w \in Worker : process[w] = "deaf")
=============================================================================
