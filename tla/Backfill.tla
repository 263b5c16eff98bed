------------------------------ MODULE Backfill ------------------------------
(***************************************************************************)
(* The historical import of one contract's events (BackfillService,        *)
(* SorobanEventReader.fetchAllInRange): pages of events are fetched from   *)
(* the RPC, stored, and then covered by a checkpoint in indexer_cursors,   *)
(* from which a later run resumes.  The live poller (Indexer) moves the    *)
(* same row.  A reindex (cli/reindex.ts) pages by the RPC's own cursor,    *)
(* has no checkpoint, and reports the events that failed.                  *)
(*                                                                         *)
(* Ledgers are numbered from 1; decoding is left out.  No run ever creates *)
(* the backfill_status row (startBackfill has no caller), so the marker of *)
(* completion is never found, nor set.                                     *)
(***************************************************************************)
EXTENDS Naturals, Sequences, FiniteSetsExt

CONSTANTS
    Histories, \* how many events each ledger holds: sequences
    Operator,  \* runs of the command in progress
    Limit,     \* events of a page, ledgers of a step over an empty one
    ScanLimit, \* ledgers the RPC looks at for one page
    Boundary,  \* bound: the ledgers at which the ranges of runs begin and end
    MaxRuns    \* bound: runs begun

VARIABLES
    history,   \* the chain, which does not change
    stored,    \* events in the database
    cursor,    \* lastProcessedLedger of the contract's row
    backfill,  \* what each run is doing
    runs,      \* bound
    excused,   \* history: events the code passes over knowingly or not
    jumped,    \* history: events of its range that a run did not start early enough for
    reindexed  \* history: events of reindexed ranges whose summary has no failure

vars == <<history, stored, cursor, backfill, runs, excused, jumped, reindexed>>

Ledgers == DOMAIN history
Events(first, last) == UNION {{l} \X (1..history[l]) : l \in Ledgers \cap (first..last)}
Before(d, e) == d[1] < e[1] \/ (d[1] = e[1] /\ d[2] < e[2])

Quiet == [at |-> "none"]

TypeOK ==
    /\ history \in Histories
    /\ stored \subseteq Events(1, Len(history))
    /\ excused \subseteq Events(1, Len(history)) /\ jumped \subseteq Events(1, Len(history))
    /\ cursor \in Nat
    /\ \A o \in Operator :
         backfill[o] # Quiet =>
           /\ \/ backfill[o].at \in {"fetching", "storing"} /\ backfill[o].stale \in 0..2
              \/ backfill[o].at \in {"paging", "reindexing"} /\ backfill[o].failed \in BOOLEAN
           /\ backfill[o].todo \subseteq backfill[o].page /\ backfill[o].page \subseteq Events(1, Len(history))
    /\ runs \in 0..MaxRuns

Init ==
    /\ history \in Histories
    /\ stored = {} /\ cursor = 0 /\ runs = 0 /\ excused = {} /\ jumped = {} /\ reindexed = {}
    /\ backfill = [o \in Operator |-> Quiet]

----------------------------------------------------------------------------
(* Paging *)

\* The RPC: the first events of the window, in order.
Fetched(from, end) ==
    LET window == Events(from, Min({end, from + ScanLimit - 1}))
    IN  {e \in window : Cardinality({d \in window : Before(d, e)}) < Limit}

Highest(page, from) == Max({from - 1} \cup {e[1] : e \in page})

\* Mutant: windows of Limit ledgers, whether the page was full or not.
NextWindow(page, from) == from + Limit

\* Past the highest ledger seen; over an empty page, Limit ledgers further.
NextStart(page, from) == IF page # {} THEN Highest(page, from) + 1 ELSE from + Limit

----------------------------------------------------------------------------
(* A run *)

Become(o, state) == backfill' = [backfill EXCEPT ![o] = state]

\* cursor.lastProcessedLedger + 1.  The column is a bigint, which is read back as a
\* string, so a digit 1 is appended to it; Math.max makes a number of that again.
Resumed == 10 * cursor + 1

\* Resume after the checkpoint, or end at once when that is past the range.  Neither
\* the ledgers between the checkpoint and a later start are asked for, nor those
\* between the checkpoint and Resumed, yet the next checkpoint will cover them.
BeginRun(o, start, end) ==
    LET from == Max({start, Resumed})
    IN  /\ backfill[o] = Quiet /\ start <= end
        /\ runs < MaxRuns /\ runs' = runs + 1
        /\ Become(o, IF from > end THEN Quiet
                     ELSE [at |-> "fetching", from |-> from, end |-> end, stale |-> 0, page |-> {}, todo |-> {}])
        /\ excused' = excused \cup Events(cursor + 1, start - 1)
        /\ jumped' = jumped \cup {e \in Events(start, end) : cursor < e[1] /\ e[1] < from}
        /\ UNCHANGED <<history, stored, cursor, reindexed>>

\* A ledger with more events than fit is cut: the rest is not fetched again.
Fetch(o) ==
    LET me == backfill[o]
        page == Fetched(me.from, me.end)
        top == Highest(page, me.from)
    IN  /\ me.at = "fetching"
        /\ Become(o, [me EXCEPT !.at = "storing", !.page = page, !.todo = page])
        /\ excused' = IF Cardinality(page) = Limit THEN excused \cup (Events(top, top) \ page) ELSE excused
        /\ UNCHANGED <<history, stored, cursor, runs, jumped, reindexed>>

\* upsertEvent; one that fails is logged and left behind.
Store(o, e) ==
    /\ backfill[o].at = "storing" /\ e \in backfill[o].todo
    /\ Become(o, [backfill[o] EXCEPT !.todo = @ \ {e}])
    /\ \/ stored' = stored \cup {e} /\ UNCHANGED excused
       \/ excused' = excused \cup {e} /\ UNCHANGED stored
    /\ UNCHANGED <<history, cursor, runs, jumped, reindexed>>

\* recordProgress up to the ledger before the next page, which may lie beyond the
\* end of the range; the third empty page in a row ends the run.  (A save refused,
\* as for eventsProcessed in Indexer, ends the command: Stop.)
Checkpoint(o) ==
    LET me == backfill[o]
        next == NextStart(me.page, me.from)
        stale == IF me.page = {} THEN me.stale + 1 ELSE 0
    IN  /\ me.at = "storing" /\ me.todo = {}
        /\ cursor' = next - 1
        /\ excused' = excused \cup Events(me.end + 1, next - 1)
        /\ Become(o, IF next > me.end \/ stale = 3 THEN Quiet
                     ELSE [me EXCEPT !.at = "fetching", !.from = next, !.stale = stale, !.page = {}])
        /\ UNCHANGED <<history, stored, runs, jumped, reindexed>>

----------------------------------------------------------------------------
(* Reindexing *)

\* The RPC, by cursor: the first events after a position, and the position up to
\* which it looked; at the tip that is where it started.
After(position) ==
    LET window == {e \in Events(position[1], position[1] + ScanLimit - 1) : Before(position, e)}
    IN  {e \in window : Cardinality({d \in window : Before(d, e)}) < Limit}

Reached(position) ==
    IF Cardinality(After(position)) = Limit
    THEN CHOOSE e \in After(position) : \A d \in After(position) : ~Before(e, d)
    ELSE <<Min({position[1] + ScanLimit, Len(history) + 1}), 0>>

BeginReindex(o, first, last) ==
    /\ backfill[o] = Quiet /\ first <= last
    /\ runs < MaxRuns /\ runs' = runs + 1
    /\ Become(o, [at |-> "paging", from |-> first, end |-> last, position |-> <<first, 0>>,
                  page |-> {}, todo |-> {}, failed |-> FALSE])
    /\ UNCHANGED <<history, stored, cursor, excused, jumped, reindexed>>

FetchAfter(o) ==
    LET page == After(backfill[o].position)
    IN  /\ backfill[o].at = "paging"
        /\ Become(o, [backfill[o] EXCEPT !.at = "reindexing", !.page = page,
                                         !.todo = {e \in page : e[1] <= backfill[o].end}])
        /\ UNCHANGED <<history, stored, cursor, runs, excused, jumped, reindexed>>

\* processReindexEvent.
StoreAgain(o, e) ==
    /\ backfill[o].at = "reindexing" /\ e \in backfill[o].todo
    /\ \/ stored' = stored \cup {e} /\ Become(o, [backfill[o] EXCEPT !.todo = @ \ {e}])
       \/ UNCHANGED stored /\ Become(o, [backfill[o] EXCEPT !.todo = @ \ {e}, !.failed = TRUE])
    /\ UNCHANGED <<history, cursor, runs, excused, jumped, reindexed>>

\* Mutant: a page without events is taken for the tip.
EndsAtEmptyPage(me) == me.page = {} \/ \E e \in me.page : e[1] > me.end

\* An event beyond the range, or the tip: no event and a cursor seen before.
EndsAt(me) == (\E e \in me.page : e[1] > me.end) \/ Reached(me.position) = me.position

NextPage(o) ==
    LET me == backfill[o]
    IN  /\ me.at = "reindexing" /\ me.todo = {}
        /\ Become(o, IF EndsAt(me) THEN Quiet
                     ELSE [me EXCEPT !.at = "paging", !.page = {}, !.position = Reached(me.position)])
        /\ reindexed' = IF EndsAt(me) /\ ~me.failed THEN reindexed \cup Events(me.from, me.end) ELSE reindexed
        /\ UNCHANGED <<history, stored, cursor, runs, excused, jumped>>

----------------------------------------------------------------------------

\* An RPC or database error ends the command, as does a signal.
Stop(o) ==
    /\ backfill[o] # Quiet
    /\ Become(o, Quiet)
    /\ UNCHANGED <<history, stored, cursor, runs, excused, jumped, reindexed>>

\* The live poller records the ledger of an event: all before it looks covered.
PollerRecords(l) ==
    /\ history[l] > 0 /\ l > cursor
    /\ cursor' = l
    /\ excused' = excused \cup Events(1, l)
    /\ UNCHANGED <<history, stored, backfill, runs, jumped, reindexed>>

Next ==
    \/ \E o \in Operator :
         \/ Fetch(o) \/ Checkpoint(o) \/ Stop(o)
         \/ FetchAfter(o) \/ NextPage(o)
         \/ \E start, end \in Ledgers \cap Boundary : BeginRun(o, start, end) \/ BeginReindex(o, start, end)
         \/ \E e \in Events(1, Len(history)) : Store(o, e) \/ StoreAgain(o, e)
    \/ \E l \in Ledgers : PollerRecords(l)

Spec == Init /\ [][Next]_vars

----------------------------------------------------------------------------
(* Properties *)

\* What is claimed to be imported is in the database, wherever runs stop, resume or
\* overlap: the range of a reindex without failures, and what the checkpoint covers,
\* except for the ways to lose an event that the backfill has.  Those are an event
\* that failed to persist, the rest of a ledger cut by a full page, ledgers outside
\* the range of the run that passed them, those the poller jumped over, and those
\* between a checkpoint and where a run resumed from it (see ResumesAtCheckpoint).
ClaimsAreHonest ==
    /\ Events(1, cursor) \subseteq stored \cup excused \cup jumped
    /\ reindexed \subseteq stored

\* The run book: a command run again skips the ledgers already processed and
\* continues from the last checkpoint.  So it asks for every event of its range that
\* the checkpoint does not cover.
ResumesAtCheckpoint == jumped = {}

=============================================================================
