-------------------------- MODULE MCInfrastructure --------------------------
(* The components that run beside the requests: song queue, job queue,     *)
(* scheduler lock, webhook deliveries, backfill and RPC calls.  They share *)
(* no state, so a behaviour is one of one of them (`part'), and the others *)
(* keep to an initial state.                                               *)
(* The scheduler lock is extended rather than instantiated, so that the    *)
(* run checks the formula InfrastructureProofs is about.                   *)
EXTENDS SchedulerLock, Sequences

CONSTANTS
    Song, Server, Prefetch, MaxAttempts, MaxFaults, MaxShutdowns,
    Job, CriticalJob, AiJob, JobWorker, MaxJobAttempts, MaxJobFaults,
    Sub, Delivery, MaxRetries, MaxConsecutive, MaxDeliveries,
    Histories, Operator, Limit, ScanLimit, Boundary, MaxRuns,
    Client, MaxPermits, MaxBackoffs

\* The limits are numbers (WEBHOOK_MAX_CONSECUTIVE_FAILURES, JOB_MAX_ATTEMPTS,
\* MAX_ATTEMPTS, WORKER_PREFETCH) and the processes finitely many; the RPC looks
\* at more ledgers for a page than the 200 a backfill steps over when it is empty.
ASSUME InfraAssumption ==
    /\ MaxConsecutive \in Nat /\ MaxJobAttempts \in Nat
    /\ MaxAttempts \in Nat \ {0, 1} /\ Prefetch \in Nat /\ IsFiniteSet(Server)
    /\ Histories \subseteq Seq(Nat) /\ Limit \in Nat \ {0} /\ ScanLimit \in Nat /\ Limit <= ScanLimit

VARIABLES
    part,
    saved, ready, process, slot, settled, faults, shutdowns,
    job, queue, dlq, hand, timers, outcome, announced, dropped, jobFaults,
    sub, log, delivery, started, notified, exhausted, outlived,
    history, stored, cursor, backfill, runs, excused, jumped, reindexed,
    running, waiting, client, expired

songVars == <<saved, ready, process, slot, settled, faults, shutdowns>>
jobVars == <<job, queue, dlq, hand, timers, outcome, announced, dropped, jobFaults>>
lockVars == vars
hookVars == <<sub, log, delivery, started, notified, exhausted, outlived>>
backfillVars == <<history, stored, cursor, backfill, runs, excused, jumped, reindexed>>
rpcVars == <<running, waiting, client, expired>>

Songs == INSTANCE SongQueue WITH Worker <- Server
Jobs == INSTANCE JobQueue
Hooks == INSTANCE Webhooks
Fill == INSTANCE Backfill
Rpc == INSTANCE RpcPermits

\* Chains for Backfill: a ledger cut by a page of two, an empty ledger, and a
\* stretch of empty ones long enough to end a run early; with eleven ledgers a run
\* that resumes after ledger 1 still has one to ask for.
MCHistories == {<<1, 2, 1>>, <<0, 2, 1>>, <<1, 0, 0, 0, 0, 0, 0, 1, 0, 0, 1>>}

InfraInit ==
    /\ part \in {"songs", "jobs", "lock", "hooks", "backfill", "rpc"}
    /\ Songs!Init /\ Jobs!Init /\ Init /\ Hooks!Init /\ Fill!Init /\ Rpc!Init
    /\ part # "backfill" => history = <<1, 2, 1>>

InfraNext ==
    /\ UNCHANGED part
    /\ \/ part = "songs" /\ Songs!Next /\ UNCHANGED <<jobVars, lockVars, hookVars, backfillVars, rpcVars>>
       \/ part = "jobs" /\ Jobs!Next /\ UNCHANGED <<songVars, lockVars, hookVars, backfillVars, rpcVars>>
       \/ part = "lock" /\ Next /\ UNCHANGED <<songVars, jobVars, hookVars, backfillVars, rpcVars>>
       \/ part = "hooks" /\ Hooks!Next /\ UNCHANGED <<songVars, jobVars, lockVars, backfillVars, rpcVars>>
       \/ part = "backfill" /\ Fill!Next /\ UNCHANGED <<songVars, jobVars, lockVars, hookVars, rpcVars>>
       \/ part = "rpc" /\ Rpc!Next /\ UNCHANGED <<songVars, jobVars, lockVars, hookVars, backfillVars>>

allVars == <<part, songVars, jobVars, lockVars, hookVars, backfillVars, rpcVars>>

\* In an initial state no fair action of a component is enabled, so its fairness
\* asks nothing of the behaviours of the other parts.
InfraSpec == InfraInit /\ [][InfraNext]_allVars /\ Songs!Fairness /\ Jobs!Fairness /\ Rpc!Fairness

NoneForgotten == Songs!NoneForgotten
MessagesAccountedFor == Songs!MessagesAccountedFor
SongsAreSettled == Songs!SongsAreSettled
JobsAccountedFor == Jobs!JobsAccountedFor
OutcomesAnnouncedOnce == Jobs!OutcomesAnnouncedOnce
JobsEnd == Jobs!JobsEnd
DisabledOnlyByExhaustion == Hooks!DisabledOnlyByExhaustion
RemovedStaysRemoved == Hooks!RemovedStaysRemoved
ClaimsAreHonest == Fill!ClaimsAreHonest
ResumesAtCheckpoint == Fill!ResumesAtCheckpoint
OperationsEnd == Rpc!OperationsEnd

=============================================================================
