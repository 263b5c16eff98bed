------------------------------ MODULE JobQueue ------------------------------
(***************************************************************************)
(* Background jobs: the Redis lists and records of JobQueueService, the    *)
(* worker loop every API process runs (JobQueueWorker), and the generation *)
(* records of the AI jobs (AiGenerationService, AiJobHandlers).            *)
(*                                                                         *)
(* A worker is a process: its timers die with it.  The await points at     *)
(* which Redis may fail are folded: a failing operation has applied none,  *)
(* or all, of its commands.  The per-status counters of jobs:stats are     *)
(* left out.                                                               *)
(***************************************************************************)
EXTENDS Naturals, SequencesExt

CONSTANTS
    Job,           \* the jobs that may be enqueued
    CriticalJob,   \* those of priority "critical"; the others are "low"
    AiJob,         \* those with a generation record
    JobWorker,     \* processes that run startJobQueueWorker
    MaxJobAttempts,\* JOB_MAX_ATTEMPTS
    MaxJobFaults   \* bound: failed Redis operations and processes that end

VARIABLES
    job,       \* jobs:record:<id>
    queue,     \* jobs:queue:<priority>: LPUSH at the left, BRPOP at the right
    dlq,       \* jobs:dlq
    hand,      \* what each worker is doing
    timers,    \* pending setTimeout re-queues: <<worker, job>>
    outcome,   \* status of the generation records
    announced, \* history: the outcomes published as ai.generation.completed
    dropped,   \* history: jobs that a fault took from their only carrier
    jobFaults

vars == <<job, queue, dlq, hand, timers, outcome, announced, dropped, jobFaults>>

Status == {"none", "pending", "processing", "completed", "failed"}
Priority == {"critical", "low"}
PriorityOf(j) == IF j \in CriticalJob THEN "critical" ELSE "low"

Idle == [stage |-> "idle"]
Held == [stage : {"reserved", "running", "succeeded", "threw"}, id : Job, attempts : 0..MaxJobAttempts]

TypeOK ==
    /\ job \in [Job -> [status : Status, attempts : 0..MaxJobAttempts]]
    /\ \A p \in Priority : queue[p] \in Seq(Job)
    /\ dlq \in Seq(Job)
    /\ hand \in [JobWorker -> Held \cup {Idle}]
    /\ timers \subseteq JobWorker \X Job
    /\ outcome \in [AiJob -> {"none", "pending", "completed", "failed"}]
    /\ announced \in [AiJob -> Seq({"completed", "failed"})]
    /\ dropped \subseteq Job /\ jobFaults \in 0..MaxJobFaults

Init ==
    /\ job = [j \in Job |-> [status |-> "none", attempts |-> 0]]
    /\ queue = [p \in Priority |-> <<>>] /\ dlq = <<>>
    /\ hand = [w \in JobWorker |-> Idle] /\ timers = {}
    /\ outcome = [j \in AiJob |-> "none"]
    /\ announced = [j \in AiJob |-> <<>>]
    /\ dropped = {} /\ jobFaults = 0

----------------------------------------------------------------------------
(* Helpers *)

Push(j) == queue' = [queue EXCEPT ![PriorityOf(j)] = <<j>> \o @]
SetStatus(j, s) == job' = [job EXCEPT ![j].status = s]
Hold(w, h) == hand' = [hand EXCEPT ![w] = h]
Stage(w, s) == hand' = [hand EXCEPT ![w].stage = s]
Drop(js) == dropped' = dropped \cup js
JobFault == jobFaults < MaxJobFaults /\ jobFaults' = jobFaults + 1
EndsAs(j, o) == /\ outcome' = [outcome EXCEPT ![j] = o]
                /\ announced' = [announced EXCEPT ![j] = Append(@, o)]

----------------------------------------------------------------------------
(* Producers *)

\* requestGeneration saves a pending record, then enqueue() the job record and
\* its id.  When a command of enqueue() fails the caller gets the error, and
\* what was written stays.
Enqueue(j) ==
    /\ job[j].status = "none"
    /\ SetStatus(j, "pending")
    /\ outcome' = IF j \in AiJob THEN [outcome EXCEPT ![j] = "pending"] ELSE outcome
    /\ \/ Push(j) /\ UNCHANGED <<dropped, jobFaults>>
       \/ JobFault /\ Drop({j}) /\ UNCHANGED queue
    /\ UNCHANGED <<dlq, hand, timers, announced>>

----------------------------------------------------------------------------
(* The worker loop *)

\* BRPOP: the oldest id of the first queue that has one; from here on the id is
\* in no list.
Reserve(w) ==
    /\ hand[w] = Idle
    /\ \E p \in Priority :
         /\ queue[p] # <<>> /\ (p = "low" => queue["critical"] = <<>>)
         /\ Hold(w, [stage |-> "reserved", id |-> Last(queue[p]), attempts |-> job[Last(queue[p])].attempts])
         /\ queue' = [queue EXCEPT ![p] = Front(@)]
    /\ UNCHANGED <<job, dlq, timers, outcome, announced, dropped, jobFaults>>

\* Mutant: the attempt is not counted.
MarkUncounted(w) ==
    /\ hand[w].stage = "reserved"
    /\ job' = [job EXCEPT ![hand[w].id].status = "processing"]
    /\ Stage(w, "running")
    /\ UNCHANGED <<queue, dlq, timers, outcome, announced, dropped, jobFaults>>

\* The rest of reserve(): the attempt is counted and saved.
Mark(w) ==
    LET j == hand[w].id
    IN  /\ hand[w].stage = "reserved"
        /\ job' = [job EXCEPT ![j] = [status |-> "processing", attempts |-> @.attempts + 1]]
        /\ hand' = [hand EXCEPT ![w].stage = "running", ![w].attempts = job[j].attempts + 1]
        /\ UNCHANGED <<queue, dlq, timers, outcome, announced, dropped, jobFaults>>

\* reserve() throws after the pop; the loop logs it and polls again.
MarkFails(w) ==
    LET j == hand[w].id
    IN  /\ hand[w].stage = "reserved" /\ JobFault
        /\ \/ UNCHANGED job
           \/ job' = [job EXCEPT ![j] = [status |-> "processing", attempts |-> @.attempts + 1]]
        /\ Hold(w, Idle) /\ Drop({j})
        /\ UNCHANGED <<queue, dlq, timers, outcome, announced>>

\* The handler resolves; for an AI job generate() has saved and announced a result,
\* or that a transcription without rights or without text failed.
HandlerResolves(w) ==
    LET j == hand[w].id
    IN  /\ hand[w].stage = "running"
        /\ Stage(w, "succeeded")
        /\ IF j \in AiJob THEN EndsAs(j, "completed") \/ EndsAs(j, "failed")
                          ELSE UNCHANGED <<outcome, announced>>
        /\ UNCHANGED <<job, queue, dlq, timers, dropped, jobFaults>>

\* Mutant: every failed attempt marks the generation record failed.
HandlerRejectsMarkingEach(w) ==
    LET j == hand[w].id
    IN  /\ hand[w].stage = "running"
        /\ Stage(w, "threw")
        /\ IF j \in AiJob THEN EndsAs(j, "failed") ELSE UNCHANGED <<outcome, announced>>
        /\ UNCHANGED <<job, queue, dlq, timers, dropped, jobFaults>>

\* The handler rejects; an AI handler marks its record on the last attempt.
HandlerRejects(w) ==
    LET j == hand[w].id
    IN  /\ hand[w].stage = "running"
        /\ Stage(w, "threw")
        /\ IF j \in AiJob /\ hand[w].attempts >= MaxJobAttempts
           THEN EndsAs(j, "failed") ELSE UNCHANGED <<outcome, announced>>
        /\ UNCHANGED <<job, queue, dlq, timers, dropped, jobFaults>>

Complete(w) ==
    /\ hand[w].stage = "succeeded"
    /\ SetStatus(hand[w].id, "completed")
    /\ Hold(w, Idle)
    /\ UNCHANGED <<queue, dlq, timers, outcome, announced, dropped, jobFaults>>

\* complete() throws inside the try of the handler: the catch fails the job.
CompleteFails(w) ==
    /\ hand[w].stage = "succeeded" /\ JobFault
    /\ SetStatus(hand[w].id, "completed") \/ UNCHANGED job
    /\ Stage(w, "threw")
    /\ UNCHANGED <<queue, dlq, timers, outcome, announced, dropped>>

\* Mutant: the backoff timer is not armed.
FailForgetsTimer(w) ==
    LET j == hand[w].id
    IN  /\ hand[w].stage = "threw"
        /\ Hold(w, Idle)
        /\ IF hand[w].attempts < MaxJobAttempts
           THEN SetStatus(j, "pending") /\ UNCHANGED dlq
           ELSE SetStatus(j, "failed") /\ dlq' = <<j>> \o dlq
        /\ UNCHANGED <<queue, timers, outcome, announced, dropped, jobFaults>>

\* fail(): retry after a backoff, or dead-letter.
Fail(w) ==
    LET j == hand[w].id
    IN  /\ hand[w].stage = "threw"
        /\ Hold(w, Idle)
        /\ IF hand[w].attempts < MaxJobAttempts
           THEN SetStatus(j, "pending") /\ timers' = timers \cup {<<w, j>>} /\ UNCHANGED dlq
           ELSE SetStatus(j, "failed") /\ dlq' = <<j>> \o dlq /\ UNCHANGED timers
        /\ UNCHANGED <<queue, outcome, announced, dropped, jobFaults>>

\* A command of fail() throws out of the catch: no timer, no dead letter.
FailFails(w) ==
    LET j == hand[w].id
    IN  /\ hand[w].stage = "threw" /\ JobFault
        /\ \/ UNCHANGED job
           \/ SetStatus(j, IF hand[w].attempts < MaxJobAttempts THEN "pending" ELSE "failed")
        /\ Hold(w, Idle) /\ Drop({j})
        /\ UNCHANGED <<queue, dlq, timers, outcome, announced>>

\* The backoff ends: LPUSH; its failure is only logged.
Requeue(w, j) ==
    /\ <<w, j>> \in timers
    /\ timers' = timers \ {<<w, j>>}
    /\ \/ Push(j) /\ UNCHANGED <<dropped, jobFaults>>
       \/ JobFault /\ Drop({j}) /\ UNCHANGED queue
    /\ UNCHANGED <<job, dlq, hand, outcome, announced>>

\* The process ends, by a crash or by a shutdown: nothing calls
\* stopJobQueueWorker, and the job in hand and the timers are gone.
ProcessEnds(w) ==
    /\ JobFault
    /\ Drop({t[2] : t \in {t \in timers : t[1] = w}} \cup (IF hand[w] = Idle THEN {} ELSE {hand[w].id}))
    /\ timers' = {t \in timers : t[1] # w}
    /\ Hold(w, Idle)
    /\ UNCHANGED <<job, queue, dlq, outcome, announced>>

WorkerStep(w) ==
    \/ Reserve(w) \/ Mark(w) \/ MarkFails(w) \/ HandlerResolves(w) \/ HandlerRejects(w)
    \/ Complete(w) \/ CompleteFails(w) \/ Fail(w) \/ FailFails(w)

Next ==
    \/ \E j \in Job : Enqueue(j)
    \/ \E w \in JobWorker : WorkerStep(w) \/ ProcessEnds(w) \/ \E j \in Job : Requeue(w, j)

Spec == Init /\ [][Next]_vars

\* The loop runs, handlers end, and timers fire, in a process that is up.
Fairness ==
    \A w \in JobWorker : WF_vars(WorkerStep(w)) /\ \A j \in Job : WF_vars(Requeue(w, j))

----------------------------------------------------------------------------
(* Properties *)

\* Where the id of j is: in a worker's hands, behind a timer, or in a list.
Carriers(j) ==
    {<<"hand", w>> : w \in {w \in JobWorker : hand[w] # Idle /\ hand[w].id = j}}
    \cup {<<"timer", t[1]>> : t \in {t \in timers : t[2] = j}}
    \cup UNION {{<<p, i>> : i \in {i \in DOMAIN queue[p] : queue[p][i] = j}} : p \in Priority}

Ended(j) == job[j].status = "completed" \/ j \in ToSet(dlq)

\* A job is never in two places (two workers never run one job at once, and a
\* finished job is not queued again), and it is somewhere until it completed, was
\* dead-lettered, or a fault struck the one carrier it had.
JobsAccountedFor ==
    \A j \in Job :
        /\ \A a, b \in Carriers(j) : a = b
        /\ j \in dropped \cup ToSet(dlq) => Carriers(j) = {}
        /\ (job[j].status # "none" /\ Carriers(j) = {}) => (Ended(j) \/ j \in dropped)

\* An artist is told one outcome of a generation, however many attempts it takes:
\* a repeated or contradicting announcement needs a fault of its own, complete()
\* that failed after the handler had succeeded.
OutcomesAnnouncedOnce == \A j \in AiJob : Len(announced[j]) <= 1 + jobFaults

\* Every job that is enqueued ends, whatever its priority and however often its
\* handler fails, unless a fault drops it.
JobsEnd ==
    \A j \in Job : job[j].status # "none" ~> Ended(j) \/ j \in dropped

=============================================================================
