--------------------------- MODULE SchedulerLock ---------------------------
(***************************************************************************)
(* workers/scheduler.ts: several scheduler processes start one recurring   *)
(* job on their timers, guarded by a Redis key with a time to live         *)
(* (withLock).  The key's value is the constant '1' and its removal does   *)
(* not look at it; which run set it is history.                            *)
(***************************************************************************)
EXTENDS Naturals, FiniteSets

CONSTANTS
    SchedulerProc, \* scheduler processes
    Run,           \* names for the runs of one process; a slow run leaves its
                   \* process free to start the next
    MaxOverruns    \* bound: locks that expire under a live run

VARIABLES
    key,      \* who set scheduler:lock:<job>: <<process, run>>, or a constant
    run,      \* what each run of each process is doing
    overruns  \* history: runs that outlived the time to live of their lock

vars == <<key, run, overruns>>

Free == <<"free">>
Orphan == <<"orphan">>  \* set by a run that no longer exists

TypeOK ==
    /\ key \in (SchedulerProc \X Run) \cup {Free, Orphan}
    /\ run \in [SchedulerProc \X Run -> {"none", "executing", "releasing"}]
    /\ overruns \in 0..MaxOverruns

Init ==
    /\ key = Free /\ overruns = 0
    /\ run = [r \in SchedulerProc \X Run |-> "none"]

\* Mutant: EXISTS then SET, so that a key in place is overwritten.
StartAnyway(r) ==
    /\ run[r] = "none"
    /\ key' = r
    /\ run' = [run EXCEPT ![r] = "executing"]
    /\ UNCHANGED overruns

\* A timer fires and SET NX wins; a run that loses is skipped.
Start(r) ==
    /\ run[r] = "none" /\ key = Free
    /\ key' = r
    /\ run' = [run EXCEPT ![r] = "executing"]
    /\ UNCHANGED overruns

\* The job resolves or throws.
Finish(r) ==
    /\ run[r] = "executing"
    /\ run' = [run EXCEPT ![r] = "releasing"]
    /\ UNCHANGED <<key, overruns>>

\* finally: DEL, whoever holds the key by now.
Release(r) ==
    /\ run[r] = "releasing"
    /\ key' = Free
    /\ run' = [run EXCEPT ![r] = "none"]
    /\ UNCHANGED overruns

\* PX: the key goes, whether its run has ended or not.
Expire ==
    /\ key # Free
    /\ key' = Free
    /\ IF key = Orphan THEN UNCHANGED overruns
       ELSE overruns < MaxOverruns /\ overruns' = overruns + 1
    /\ UNCHANGED run

\* The process dies: by a crash, a deploy, or the unhandled rejection of a SET or
\* a DEL that failed.
Die(p) ==
    /\ \E n \in Run : run[<<p, n>>] # "none"
    /\ run' = [r \in SchedulerProc \X Run |-> IF r[1] = p THEN "none" ELSE run[r]]
    /\ key' = IF key \in {p} \X Run THEN Orphan ELSE key
    /\ UNCHANGED overruns

Next ==
    \/ \E r \in SchedulerProc \X Run : Start(r) \/ Finish(r) \/ Release(r)
    \/ Expire
    \/ \E p \in SchedulerProc : Die(p)

Spec == Init /\ [][Next]_vars

----------------------------------------------------------------------------
(* Properties *)

\* At most one process executes the job, as the header of scheduler.ts says,
\* unless a run outlived its lock; each such run costs one extra execution, which
\* then lasts, since its DEL frees the key of the next holder, and so on.
OneRunPerOverrun ==
    Cardinality({r \in DOMAIN run : run[r] # "none"}) <= 1 + overruns

=============================================================================
