--------------------------- MODULE EventProjector ---------------------------
(***************************************************************************)
(* One projection of the raw event table: the writers that insert into     *)
(* indexed_events (IndexedEventService.upsertEvent), and the runs of       *)
(* EventProjector that turn its rows into onchain_event_counts, each in a  *)
(* transaction under the projection's advisory lock.                       *)
(*                                                                         *)
(* A row's indexed_at is CURRENT_TIMESTAMP, the start of the inserting     *)
(* transaction; its ingestSeq is drawn from a sequence when the INSERT     *)
(* executes, and neither is visible before the COMMIT.  The projector      *)
(* reads at READ COMMITTED.  Database and projector share one clock.       *)
(***************************************************************************)
EXTENDS Naturals, FiniteSetsExt

CONSTANTS
    Event,      \* on-chain events, by (network, contractId, ledger, eventId)
    Writer,     \* inserters: the pollers, a backfill, the reindex CLI
    Runner,     \* projector runs: the worker's loop, the project CLI
    BatchSize,  \* INDEXER_PROJECTOR_BATCH_SIZE
    Settle,     \* INDEXER_PROJECTOR_SETTLE_MS
    MaxInsert,  \* an inserting transaction is over within this time
    MaxTime,    \* bound: the clock
    MaxSeq,     \* bound: values drawn from the sequence
    MaxFaults   \* bound: runs that fail or whose process dies

ASSUME ProjectorAssumption ==
    /\ IsFiniteSet(Event)
    /\ BatchSize \in Nat \ {0}
    /\ Settle \in Nat /\ MaxInsert \in Nat /\ MaxTime \in Nat
    /\ MaxSeq \in Nat /\ MaxFaults \in Nat

VARIABLES
    now,         \* the clock
    lastSeq,     \* last value drawn from the ingestSeq sequence
    row,         \* the committed row of each event, seq 0 when there is none
    writer,      \* the insert each writer is executing
    checkpoint,  \* the projection's checkpoint row
    counted,     \* how often each event is in onchain_event_counts
    run,         \* the transaction of each runner
    faults       \* failed runs so far

vars == <<now, lastSeq, row, writer, checkpoint, counted, run, faults>>

(***************************************************************************)
(* The counts are per (network, contractType, eventType); the multiplicity *)
(* of each event determines them all.  A run keeps what its transaction    *)
(* will publish: whether the counts were reset, the events applied since,  *)
(* and the checkpoint it advances in place.                                *)
(***************************************************************************)
Checkpoint == [seq : 0..MaxSeq, applied : Nat]
NoRow == [seq |-> 0, at |-> 0]

Run == [pc : {"idle", "lock", "batch", "commit"}, rebuild : BOOLEAN,
        ckpt : Checkpoint, batch : SUBSET Event]
NoRun == [pc |-> "idle", rebuild |-> FALSE,
          ckpt |-> [seq |-> 0, applied |-> 0], batch |-> {}]

Insert == [pc : {"begun", "inserted"}, event : Event, at : 0..MaxTime, seq : 0..MaxSeq]
NoInsert == [pc |-> "out"]

TypeOK ==
    /\ now \in 0..MaxTime
    /\ lastSeq \in 0..MaxSeq
    /\ row \in [Event -> [seq : 0..MaxSeq, at : 0..MaxTime]]
    /\ writer \in [Writer -> Insert \cup {NoInsert}]
    /\ checkpoint \in Checkpoint
    /\ counted \in [Event -> Nat]
    /\ run \in [Runner -> Run]
    /\ faults \in 0..MaxFaults

Init ==
    /\ now = 0 /\ lastSeq = 0 /\ faults = 0
    /\ row = [e \in Event |-> NoRow]
    /\ writer = [w \in Writer |-> NoInsert]
    /\ checkpoint = [seq |-> 0, applied |-> 0]
    /\ counted = [e \in Event |-> 0]
    /\ run = [r \in Runner |-> NoRun]

----------------------------------------------------------------------------
(* upsertEvent *)

\* The event is not in the table, so save() begins a transaction.
BeginInsert(w, e) ==
    /\ writer[w].pc = "out" /\ row[e].seq = 0
    /\ now + Settle + MaxInsert <= MaxTime
    /\ writer' = [writer EXCEPT
         ![w] = [pc |-> "begun", event |-> e, at |-> now, seq |-> 0]]
    /\ UNCHANGED <<now, lastSeq, row, checkpoint, counted, run, faults>>

\* The INSERT draws the row's ingestSeq.
DrawSeq(w) ==
    /\ writer[w].pc = "begun" /\ lastSeq < MaxSeq
    /\ lastSeq' = lastSeq + 1
    /\ writer' = [writer EXCEPT ![w].pc = "inserted", ![w].seq = lastSeq + 1]
    /\ UNCHANGED <<now, row, checkpoint, counted, run, faults>>

\* Another insert of the same event got to the unique index first.
Blocked(w) ==
    \E v \in Writer :
        /\ writer[v].pc = "inserted" /\ writer[v].event = writer[w].event
        /\ writer[v].seq < writer[w].seq

\* The row becomes visible, unless another one was: that is the duplicate error
\* upsertEvent turns into a no-op.
CommitInsert(w) ==
    LET e == writer[w].event
    IN  /\ writer[w].pc = "inserted" /\ ~Blocked(w)
        /\ row' = IF row[e].seq # 0 THEN row
                  ELSE [row EXCEPT ![e] = [seq |-> writer[w].seq, at |-> writer[w].at]]
        /\ writer' = [writer EXCEPT ![w] = NoInsert]
        /\ UNCHANGED <<now, lastSeq, checkpoint, counted, run, faults>>

\* The insert fails or its process dies: no row, and a gap in the sequence.
AbortInsert(w) ==
    /\ writer[w].pc # "out"
    /\ writer' = [writer EXCEPT ![w] = NoInsert]
    /\ UNCHANGED <<now, lastSeq, row, checkpoint, counted, run, faults>>

----------------------------------------------------------------------------
(* catchUpOne and rebuildOne *)

\* A tick of the worker's loop that finds it not running, or the CLI.
StartRun(r) ==
    /\ run[r].pc = "idle"
    /\ \E rebuild \in BOOLEAN :
         run' = [run EXCEPT ![r] = [NoRun EXCEPT !.pc = "lock", !.rebuild = rebuild]]
    /\ UNCHANGED <<now, lastSeq, row, writer, checkpoint, counted, faults>>

\* Mutant: no advisory lock.
Unlocked == FALSE

Locked == \E r \in Runner : run[r].pc \in {"batch", "commit"}

\* Mutant: a rebuild keeps the old checkpoint.
TakeLockKeepsCheckpoint(r) ==
    /\ run[r].pc = "lock" /\ ~Locked
    /\ run' = [run EXCEPT ![r].pc = "batch", ![r].batch = {}, ![r].ckpt = checkpoint]
    /\ UNCHANGED <<now, lastSeq, row, writer, checkpoint, counted, faults>>

\* lock, loadCheckpoint, and for a rebuild the reset of counts and checkpoint.
TakeLock(r) ==
    /\ run[r].pc = "lock" /\ ~Locked
    /\ run' = [run EXCEPT ![r].pc = "batch", ![r].batch = {},
                          ![r].ckpt = IF run[r].rebuild THEN [seq |-> 0, applied |-> 0]
                                      ELSE checkpoint]
    /\ UNCHANGED <<now, lastSeq, row, writer, checkpoint, counted, faults>>

\* Mutants: no settle window; pages by sequence number, so that a gap fills one.
SettledAtOnce(s) == {e \in Event : row[e].seq > s}
NextBatchBySeq(s) ==
    {e \in Event : row[e].seq \in (s + 1)..(s + BatchSize) /\ row[e].at + Settle <= now}

\* The settled rows after seq s, and the first BatchSize of them.
Settled(s) == {e \in Event : row[e].seq > s /\ row[e].at + Settle <= now}
NextBatch(s) ==
    {e \in Settled(s) :
        Cardinality({f \in Settled(s) : row[f].seq < row[e].seq}) < BatchSize}

\* ingestSeq of the last event of a batch read after seq s (s if it is empty)
LastOf(batch, s) == Max({s} \cup {row[e].seq : e \in batch})

\* Mutant: a rebuild, too, commits each batch.
ApplyBatchCommits(r) ==
    LET c == run[r].ckpt
        new == NextBatch(c.seq)
    IN  /\ run[r].pc = "batch"
        /\ run' = [run EXCEPT
             ![r].pc = "commit",
             ![r].batch = @ \cup new,
             ![r].ckpt = [seq |-> LastOf(new, c.seq),
                          applied |-> c.applied + Cardinality(new)]]
        /\ UNCHANGED <<now, lastSeq, row, writer, checkpoint, counted, faults>>

\* applyNextBatch.  A short batch ends a rebuild; a catch-up commits each batch.
ApplyBatch(r) ==
    LET c == run[r].ckpt
        new == NextBatch(c.seq)
    IN  /\ run[r].pc = "batch"
        /\ run' = [run EXCEPT
             ![r].pc = IF run[r].rebuild /\ Cardinality(new) >= BatchSize
                       THEN "batch" ELSE "commit",
             ![r].batch = @ \cup new,
             ![r].ckpt = [seq |-> LastOf(new, c.seq),
                          applied |-> c.applied + Cardinality(new)]]
        /\ UNCHANGED <<now, lastSeq, row, writer, checkpoint, counted, faults>>

\* The transaction commits and releases the lock.  A catch-up goes on after a
\* full batch.
CommitRun(r) ==
    LET t == run[r]
    IN  /\ t.pc = "commit"
        /\ checkpoint' = t.ckpt
        /\ counted' = [e \in Event |->
             (IF t.rebuild THEN 0 ELSE counted[e]) + (IF e \in t.batch THEN 1 ELSE 0)]
        /\ run' = [run EXCEPT ![r] =
             IF ~t.rebuild /\ Cardinality(t.batch) >= BatchSize
             THEN [NoRun EXCEPT !.pc = "lock"] ELSE NoRun]
        /\ UNCHANGED <<now, lastSeq, row, writer, faults>>

\* A query throws or the process dies: the transaction is rolled back.
RunFails(r) ==
    /\ run[r].pc # "idle"
    /\ faults < MaxFaults /\ faults' = faults + 1
    /\ run' = [run EXCEPT ![r] = NoRun]
    /\ UNCHANGED <<now, lastSeq, row, writer, checkpoint, counted>>

\* No insert outlives MaxInsert.
Tick ==
    /\ now < MaxTime
    /\ \A w \in Writer : writer[w].pc # "out" => now < writer[w].at + MaxInsert
    /\ now' = now + 1
    /\ UNCHANGED <<lastSeq, row, writer, checkpoint, counted, run, faults>>

WriterStep(w) ==
    (\E e \in Event : BeginInsert(w, e)) \/ DrawSeq(w) \/ CommitInsert(w) \/ AbortInsert(w)

RunnerStep(r) ==
    StartRun(r) \/ TakeLock(r) \/ ApplyBatch(r) \/ CommitRun(r) \/ RunFails(r)

Next ==
    Tick \/ (\E w \in Writer : WriterStep(w)) \/ (\E r \in Runner : RunnerStep(r))

Spec == Init /\ [][Next]_vars

\* Time passes, inserts end, and the loop keeps starting runs that proceed.  The
\* lock is one that Postgres hands on in the order of its waiters, so a run gets
\* it although others take it in between.
Fairness ==
    /\ WF_vars(Tick)
    /\ \A w \in Writer : WF_vars(CommitInsert(w) \/ AbortInsert(w))
    /\ \A r \in Runner : /\ WF_vars(StartRun(r)) /\ SF_vars(TakeLock(r))
                         /\ WF_vars(ApplyBatch(r)) /\ WF_vars(CommitRun(r))

FairSpec == Spec /\ Fairness

----------------------------------------------------------------------------
(* Properties *)

\* Whatever runs interleave, fail or are rebuilt, no event is in the published
\* counts twice, and only rows at or before the checkpoint are in them
\* (catchUpOne, rebuildOne: one transaction under one lock).
AtMostOnce ==
    \A e \in Event :
        counted[e] <= (IF row[e].seq \in 1..checkpoint.seq THEN 1 ELSE 0)

\* With one writer the settle window is not even needed: rows commit in sequence
\* order, and every row at or before the checkpoint is counted exactly once.
ExactlyOnce ==
    \A e \in Event :
        counted[e] = (IF row[e].seq \in 1..checkpoint.seq THEN 1 ELSE 0)

\* When an insert never outlives the settle window, a row the checkpoint has
\* passed over uncounted is one whose transaction drew its ingestSeq before a row
\* that began no later (applyNextBatch's settled read): nothing else is skipped.
SkipsOnlyOvertaken ==
    MaxInsert <= Settle =>
        \A e \in Event :
            row[e].seq \in 1..checkpoint.seq /\ counted[e] = 0 =>
                \E f \in Event : /\ row[f].seq > row[e].seq
                                 /\ row[f].seq <= checkpoint.seq
                                 /\ row[f].at <= row[e].at

\* Readers never see a half-built model: no published count ever drops and the
\* checkpoint never moves back, across a rebuild included.
NeverLess ==
    [][/\ \A e \in Event : counted'[e] >= counted[e]
       /\ checkpoint'.seq >= checkpoint.seq]_vars

\* The projector gets past every committed row, whatever gaps aborted inserts
\* leave in the sequence.
RowsAreReached ==
    \A e \in Event : row[e].seq # 0 ~> row[e].seq <= checkpoint.seq

\* No insert is in flight and every row has settled.
Quiet == now = MaxTime /\ \A w \in Writer : writer[w].pc = "out"

\* An event a catch-up has passed over is restored by a rebuild once the writers
\* are quiet (rebuildOne replays every raw event).
RebuildHeals ==
    \A r \in Runner :
        Quiet /\ faults = MaxFaults /\ run[r].pc = "lock" /\ run[r].rebuild
            ~> ExactlyOnce

=============================================================================
