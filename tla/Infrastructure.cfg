\* Two of each actor; every component stops at its bound or runs out of work.
SPECIFICATION InfraSpec
CHECK_DEADLOCK FALSE
CONSTANTS
    Song = {s1, s2}
    Server = {w1, w2}
    Prefetch = 1
    MaxAttempts = 3
    MaxFaults = 2
    MaxShutdowns = 1
    Job = {j1, j2}
    CriticalJob = {j1}
    AiJob = {j2}
    JobWorker = {w1, w2}
    MaxJobAttempts = 2
    MaxJobFaults = 2
    SchedulerProc = {p1, p2}
    Run = {1, 2}
    MaxOverruns = 2
    Sub = {s1}
    Delivery = {d1, d2}
    MaxRetries = 3
    MaxConsecutive = 2
    MaxDeliveries = 4
    Histories <- MCHistories
    Operator = {o1}
    Limit = 2
    ScanLimit = 2
    Boundary = {1, 2, 3, 11}
    MaxRuns = 2
    Client = {o1, o2}
    MaxPermits = 1
    MaxBackoffs = 1
INVARIANTS
    MessagesAccountedFor
    JobsAccountedFor
    OutcomesAnnouncedOnce
    OneRunPerOverrun
    DisabledOnlyByExhaustion
    
PROPERTIES
    RemovedStaysRemoved
    JobsEnd
    SongsAreSettled
    OperationsEnd
