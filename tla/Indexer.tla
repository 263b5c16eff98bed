------------------------------ MODULE Indexer ------------------------------
(***************************************************************************)
(* The live poller of one contract: IndexerWorker.pollOnce and everything  *)
(* it awaits (src/src/workers/indexer/IndexerWorker.ts), the reorg guard,  *)
(* the indexer_cursors row kept by IndexerService and the indexed_events   *)
(* table written by IndexedEventService.                                   *)
(*                                                                         *)
(* Contracts do not share state (a cursor row, a guard and a timer each),  *)
(* so one contract is modelled.  Each member of Poll is one invocation of  *)
(* pollOnce that may be in flight: start() calls setInterval without       *)
(* looking whether the previous invocation has returned.                   *)
(*                                                                         *)
(* lastProcessedLedger and eventsProcessed are bigint columns and db.ts    *)
(* sets no parseInt8, so a row read back carries strings: `cursor + 1`     *)
(* concatenates, while `<`, `-` and Math.max convert to numbers.  A ledger *)
(* read from the row is therefore tagged `text`; the entity getCursor      *)
(* itself creates (`fresh`) holds numbers.                                 *)
(***************************************************************************)
EXTENDS Naturals, FiniteSets

CONSTANTS
    NumEvents,      \* the contract's events are 1..NumEvents, in chain order
    LedgerOf,       \* the ledger of each event
    Undecodable,    \* events the contract's decoder answers null for
    Poll,           \* invocations of pollOnce that may be in flight together
    PageSize,       \* INDEXER_PAGE_SIZE
    OverlapWindow,  \* INDEXER_OVERLAP_WINDOW
    GapThreshold,   \* INDEXER_GAP_THRESHOLD
    RpcLag,         \* how far behind the chain the answering RPC node may be
    MaxLedger,      \* bound: ledgers the chain closes
    MaxFaults,      \* bound: rejected calls and process restarts
    CounterDigits   \* decimal digits a bigint column holds (19)

Event == 1..NumEvents
Decodable == Event \ Undecodable

ASSUME IndexerAssumption ==
    /\ NumEvents \in Nat
    /\ MaxLedger \in Nat \ {0}
    /\ LedgerOf \in [Event -> 1..MaxLedger]
    /\ \A e, f \in Event : e <= f => LedgerOf[e] <= LedgerOf[f]
    /\ Undecodable \subseteq Event
    /\ PageSize \in Nat \ {0}
    /\ OverlapWindow \in Nat /\ GapThreshold \in Nat
    /\ RpcLag \in Nat /\ MaxFaults \in Nat /\ CounterDigits \in Nat \ {0}

VARIABLES
    tip,       \* last closed ledger
    stored,    \* rows of indexed_events
    rejected,  \* history: events whose upsert threw and was only logged
    row,       \* the indexer_cursors row: inserted yet, its ledger, the
               \* digits of its counter
    guard,     \* IndexerReorgGuard.cursor, shared by every invocation
    poll,      \* the local state of each invocation
    faults     \* faults used so far

vars == <<tip, stored, rejected, row, guard, poll, faults>>

Row == [made : BOOLEAN, ledger : 0..MaxLedger, digits : 0..CounterDigits]
NoRow == [made |-> FALSE, ledger |-> 0, digits |-> 0]

(***************************************************************************)
(* An invocation.  prev is stored.lastProcessedLedger, fresh when getCursor *)
(* has just inserted the row; the page being persisted is after+1..last,   *)
(* of which next is the next event to upsert; processed counts the upserts *)
(* of the page; seen is seenCursors (an RPC cursor is the position of the  *)
(* last event it returned); highest is highestLedger and snap the entity a *)
(* read-modify-write of the row holds.                                     *)
(***************************************************************************)
Phase == {"idle", "create", "gotCursor", "gotGuard", "persist", "save", "drain",
          "failed", "saveError"}

Invocation ==
    [pc : Phase, fresh : BOOLEAN, prev : 0..MaxLedger, after : 0..NumEvents,
     next : 1..NumEvents + 1, last : 0..NumEvents, processed : Nat,
     seen : SUBSET (0..NumEvents), highest : 0..MaxLedger, snap : Row]

Resting == [pc |-> "idle", fresh |-> FALSE, prev |-> 0, after |-> 0, next |-> 1,
            last |-> 0, processed |-> 0, seen |-> {}, highest |-> 0, snap |-> NoRow]

TypeOK ==
    /\ tip \in 1..MaxLedger
    /\ stored \subseteq Decodable
    /\ rejected \subseteq Decodable
    /\ row \in Row
    /\ guard \in [ledger : 0..MaxLedger, text : BOOLEAN]
    /\ poll \in [Poll -> Invocation]
    /\ faults \in 0..MaxFaults

Init ==
    /\ tip = 1
    /\ stored = {} /\ rejected = {}
    /\ row = NoRow
    /\ guard = [ledger |-> 0, text |-> TRUE]
    /\ poll = [p \in Poll |-> Resting]
    /\ faults = 0

----------------------------------------------------------------------------
(* Helpers *)

Bigger(a, b) == IF a >= b THEN a ELSE b
Floor1(a, b) == IF a > b THEN a - b ELSE 1      \* Math.max(1, a - b)

\* What an RPC node may report as its latest ledger.
RpcView == {l \in 1..tip : tip <= l + RpcLag}

\* getOverlapStart, given the latest ledger.  `===` never holds between a number
\* and the text of a row, so only a cursor set by updateCursor can be up to date.
NothingNew(latest) == ~guard.text /\ latest = guard.ledger

\* Mutant: the gap threshold is never looked at.
RollsBackOnlyBehind(latest) == latest < guard.ledger

\* The node is behind the cursor, or the gap exceeds the threshold.
RollsBack(latest) ==
    latest < guard.ledger \/ latest > guard.ledger + GapThreshold

\* Mutant: the window is counted from the tip.
OverlapStartFromTip(latest) == Floor1(latest, OverlapWindow)

OverlapStart(latest) ==
    IF RollsBack(latest) THEN Floor1(guard.ledger, OverlapWindow)
    ELSE guard.ledger + 1

\* A startLedger beyond the node's tip, or the text `cursor + 1` makes of a
\* cursor read from the row, is an invalid request.
RpcAccepts(latest) ==
    /\ RollsBack(latest) \/ ~guard.text
    /\ OverlapStart(latest) <= latest

\* Events pos+1..to are one full page of the RPC, whose node has seen ledgers up
\* to l: it stops at PageSize events or at the last event it knows.
IsPage(pos, to, l) ==
    /\ pos <= to /\ to <= pos + PageSize
    /\ \A e \in Event : pos < e /\ e <= to => LedgerOf[e] <= l
    /\ \/ to = pos + PageSize
       \/ \A e \in Event : to < e => LedgerOf[e] > l

\* Events 1..pos are those emitted before ledger l.
EndsBefore(pos, l) == \A e \in Event : e <= pos <=> LedgerOf[e] < l

Digits(n) == IF n < 10 THEN 1 ELSE IF n < 100 THEN 2 ELSE 3

\* Digits of the counter after `eventsProcessed += n` on a string.
Concatenated(d, n) ==
    IF d = 0 THEN (IF n = 0 THEN 0 ELSE Digits(n)) ELSE d + Digits(n)

\* guard.updateCursor: only forward, and the value is now a number.
Updated(l) == IF l > guard.ledger THEN [ledger |-> l, text |-> FALSE] ELSE guard

\* Invocation p moves on with local state r.
Become(p, r) == poll' = [poll EXCEPT ![p] = r]

\* Local state i once a page with events after+1..to has been fetched.
Fetched(i, after, to, seen) ==
    [i EXCEPT !.pc = "persist", !.seen = seen, !.after = after,
              !.next = after + 1, !.last = to, !.processed = 0]

Fault == faults < MaxFaults /\ faults' = faults + 1

----------------------------------------------------------------------------
(* pollOnce, one action per awaited call *)

\* The timer (or the first pass) starts an invocation: getCursor() finds the row
\* or not.
ReadCursor(p) ==
    /\ poll[p].pc = "idle"
    /\ Become(p, IF row.made
                 THEN [Resting EXCEPT !.pc = "gotCursor", !.prev = row.ledger]
                 ELSE [Resting EXCEPT !.pc = "create"])
    /\ UNCHANGED <<tip, stored, rejected, row, guard, faults>>

\* getCursor() inserts the row, which the unique index refuses when another
\* invocation has.
CreateCursor(p) ==
    /\ poll[p].pc = "create"
    /\ IF row.made
       THEN Become(p, [poll[p] EXCEPT !.pc = "failed"]) /\ UNCHANGED row
       ELSE /\ row' = [row EXCEPT !.made = TRUE]
            /\ Become(p, [poll[p] EXCEPT !.pc = "gotCursor", !.fresh = TRUE])
    /\ UNCHANGED <<tip, stored, rejected, guard, faults>>

\* guard.setCursor(stored.lastProcessedLedger), then await getLatestLedger().
SetGuard(p) ==
    /\ poll[p].pc = "gotCursor"
    /\ guard' = [ledger |-> poll[p].prev, text |-> ~poll[p].fresh]
    /\ Become(p, [poll[p] EXCEPT !.pc = "gotGuard"])
    /\ UNCHANGED <<tip, stored, rejected, row, faults>>

\* getOverlapStart() and the first page, up to the latest ledger.
PollInitialPage(p) ==
    /\ poll[p].pc = "gotGuard"
    /\ \E latest \in RpcView :
         \/ NothingNew(latest) /\ Become(p, Resting)
         \/ /\ ~NothingNew(latest) /\ ~RpcAccepts(latest)
            /\ Become(p, [poll[p] EXCEPT !.pc = "failed"])
         \/ /\ ~NothingNew(latest) /\ RpcAccepts(latest)
            /\ \E pos, to \in 0..NumEvents :
                 /\ EndsBefore(pos, OverlapStart(latest))
                 /\ IsPage(pos, to, latest)
                 /\ Become(p, Fetched(poll[p], pos, to, {}))
    /\ UNCHANGED <<tip, stored, rejected, row, guard, faults>>

\* persistProgress / flushQueue, one event of the page in order: skipped when
\* the decoder returns null, upserted (a row that exists is left alone), or
\* the upsert throws and flushQueue only counts the error.
PersistEvent(p) ==
    LET e == poll[p].next
    IN  /\ poll[p].pc = "persist" /\ e <= poll[p].last
        /\ \/ /\ e \in Undecodable
              /\ Become(p, [poll[p] EXCEPT !.next = e + 1])
              /\ UNCHANGED <<stored, rejected, faults>>
           \/ /\ e \in Decodable
              /\ stored' = stored \cup {e}
              /\ Become(p, [poll[p] EXCEPT !.next = e + 1,
                                           !.processed = @ + 1])
              /\ UNCHANGED <<rejected, faults>>
           \/ /\ e \in Decodable /\ Fault
              /\ rejected' = rejected \cup {e}
              /\ Become(p, [poll[p] EXCEPT !.next = e + 1])
              /\ UNCHANGED stored
        /\ UNCHANGED <<tip, row, guard>>

\* Mutant: the tip is taken for the highest ledger read.
HighestLedgerTip(p) == Bigger(poll[p].prev, tip)

\* highestLedger of the page just persisted, starting from prevLedger.
HighestLedger(p) ==
    IF poll[p].after < poll[p].last
    THEN Bigger(poll[p].prev, LedgerOf[poll[p].last]) ELSE poll[p].prev

\* The page is flushed.  recordProgress is called if anything was processed or
\* a higher ledger was seen, and reads the row; otherwise draining goes on.
EndPage(p) ==
    /\ poll[p].pc = "persist" /\ poll[p].next > poll[p].last
    /\ IF poll[p].processed > 0 \/ HighestLedger(p) > poll[p].prev
       THEN Become(p, [poll[p] EXCEPT !.pc = "save", !.snap = row,
                                      !.highest = HighestLedger(p)])
       ELSE Become(p, [poll[p] EXCEPT !.pc = "drain"])
    /\ UNCHANGED <<tip, stored, rejected, row, guard, faults>>

\* recordProgress saves the entity it read, with the new ledger and a counter
\* the column may be too narrow for; then guard.updateCursor(highestLedger).
SaveProgress(p) ==
    LET digits == Concatenated(poll[p].snap.digits, poll[p].processed)
    IN  /\ poll[p].pc = "save"
        /\ IF digits <= CounterDigits
           THEN /\ row' = [made |-> TRUE, ledger |-> poll[p].highest, digits |-> digits]
                /\ guard' = Updated(poll[p].highest)
                /\ Become(p, [poll[p] EXCEPT !.pc = "drain"])
           ELSE /\ Become(p, [poll[p] EXCEPT !.pc = "failed"])
                /\ UNCHANGED <<row, guard>>
        /\ UNCHANGED <<tip, stored, rejected, faults>>

\* Mutant: a cursor the RPC repeats does not stop the loop.
DrainPageAlways(p) ==
    /\ poll[p].pc = "drain"
    /\ \E view \in RpcView, to \in 0..NumEvents :
         /\ IsPage(poll[p].last, to, view)
         /\ Become(p, Fetched(poll[p], poll[p].last, to,
                              poll[p].seen \cup {poll[p].last}))
    /\ UNCHANGED <<tip, stored, rejected, row, guard, faults>>

\* drainPages: stop at a cursor already used, else fetch the page after it.
DrainPage(p) ==
    /\ poll[p].pc = "drain" /\ poll[p].last \notin poll[p].seen
    /\ \E view \in RpcView, to \in 0..NumEvents :
         /\ IsPage(poll[p].last, to, view)
         /\ Become(p, Fetched(poll[p], poll[p].last, to,
                              poll[p].seen \cup {poll[p].last}))
    /\ UNCHANGED <<tip, stored, rejected, row, guard, faults>>

EndDrain(p) ==
    /\ poll[p].pc = "drain" /\ poll[p].last \in poll[p].seen
    /\ Become(p, Resting)
    /\ UNCHANGED <<tip, stored, rejected, row, guard, faults>>

\* An awaited RPC or database call rejects; pollOnce goes to its catch.
CallRejects(p) ==
    /\ \/ poll[p].pc \in {"create", "gotCursor", "gotGuard", "save"}
       \/ poll[p].pc = "drain" /\ poll[p].last \notin poll[p].seen
    /\ Fault
    /\ Become(p, [poll[p] EXCEPT !.pc = "failed"])
    /\ UNCHANGED <<tip, stored, rejected, row, guard>>

\* recordError: read the row (getCursor inserts a missing one), then save the
\* whole entity back.  save() writes every column that differs from the row, the
\* ledger read earlier included; its own rejection is swallowed.
ReadForError(p) ==
    /\ poll[p].pc = "failed"
    /\ row' = [row EXCEPT !.made = TRUE]
    /\ Become(p, [poll[p] EXCEPT !.pc = "saveError", !.snap = row'])
    /\ UNCHANGED <<tip, stored, rejected, guard, faults>>

SaveError(p) ==
    /\ poll[p].pc = "saveError"
    /\ \/ row' = poll[p].snap /\ UNCHANGED faults
       \/ Fault /\ UNCHANGED row
    /\ Become(p, Resting)
    /\ UNCHANGED <<tip, stored, rejected, guard>>

PollStep(p) ==
    \/ ReadCursor(p) \/ CreateCursor(p) \/ SetGuard(p) \/ PollInitialPage(p) \/ PersistEvent(p)
    \/ EndPage(p) \/ SaveProgress(p) \/ DrainPage(p) \/ EndDrain(p)
    \/ CallRejects(p) \/ ReadForError(p) \/ SaveError(p)

----------------------------------------------------------------------------
(* Environment *)

\* The chain closes a ledger.
CloseLedger ==
    /\ tip < MaxLedger
    /\ tip' = tip + 1
    /\ UNCHANGED <<stored, rejected, row, guard, poll, faults>>

\* The process dies or is stopped (shutdown() sets `stopped` and exits without
\* awaiting the polls) and starts again: only the tables survive.
Restart ==
    /\ Fault
    /\ poll' = [p \in Poll |-> Resting]
    /\ guard' = [ledger |-> 0, text |-> TRUE]
    /\ UNCHANGED <<tip, stored, rejected, row>>

Next == CloseLedger \/ Restart \/ \E p \in Poll : PollStep(p)

Spec == Init /\ [][Next]_vars

\* The timers keep firing and every awaited call settles; nothing obliges a
\* call to reject, the process to restart or the chain to grow.
Fairness ==
    \A p \in Poll :
        /\ WF_vars(ReadCursor(p)) /\ WF_vars(CreateCursor(p)) /\ WF_vars(SetGuard(p))
        /\ WF_vars(PollInitialPage(p)) /\ WF_vars(PersistEvent(p))
        /\ WF_vars(EndPage(p)) /\ WF_vars(SaveProgress(p))
        /\ WF_vars(DrainPage(p)) /\ WF_vars(EndDrain(p))
        /\ WF_vars(ReadForError(p)) /\ WF_vars(SaveError(p))

FairSpec == Spec /\ Fairness

----------------------------------------------------------------------------
(* Properties *)

\* No invocation outlives the poll interval, so none overlaps another.
OneInvocation == \A p, q \in Poll : p = q

\* Every decodable event below ledger l is stored, or its upsert threw.
Accounted(l) ==
    \A e \in Decodable : LedgerOf[e] < l => e \in stored \cup rejected

\* Whatever crashes, rejected calls and lagging RPC nodes do, the ledger the
\* next poll resumes from has no unread event below it (pollOnce,
\* persistProgress, recordProgress, recordError; one invocation at a time).
CursorSkipsNothing == Accounted(row.ledger)

\* The saved cursor never moves back: neither a short page, nor the rollback
\* window, nor the entity recordError saves back may rewind it.
CursorNeverRewinds == [][row'.ledger >= row.ledger]_vars

\* One invocation at a time, the poller is a log with a resume cursor: events
\* are only ever added, and the cursor advances only over recorded ones.
Log == INSTANCE CursorLog WITH
    Event <- Decodable, Ledger <- 1..MaxLedger,
    log <- stored, gone <- rejected, mark <- row.ledger

ImplementsCursorLog == Log!Spec

\* drainPages always returns: a poll that started is over some time later,
\* because a repeated RPC cursor stops the loop.
PollTerminates ==
    \A p \in Poll : poll[p].pc # "idle" ~> poll[p].pc = "idle"

\* Events the poller has to reach: those the reorg guard's gap rule exposes
\* even when the answering node lags.
OldEvents == {e \in Decodable : LedgerOf[e] + GapThreshold + RpcLag < MaxLedger}

\* Once the chain has moved more than the gap threshold past an event, polling
\* gets to it, unless the event counter has run out of digits.
OldEventsAreReached ==
    tip = MaxLedger ~> \/ OldEvents \subseteq stored \cup rejected
                       \/ row.digits = CounterDigits

\* With invocations that overlap (a poll slower than the interval) the cursor
\* may run ahead of an invocation that is still draining; once none is in
\* flight, nothing below it is missing, as long as no call rejected and the
\* RPC nodes are in step with the chain.
IdleCursorSkipsNothing ==
    (\A p \in Poll : poll[p].pc = "idle") => Accounted(row.ledger)

(* Claims of the repository that the code does not meet *)

\* IndexerWorker.persistProgress: "progress/cursor only advances for durable
\* writes" - yet flushQueue swallows the upsert's error.
CursorOnlyCoversDurable ==
    \A e \in Decodable : LedgerOf[e] < row.ledger => e \in stored

\* IndexerWorker header: "Persists the cursor after each successful batch" -
\* yet the concatenated counter outgrows its column and the save throws.
SuccessfulBatchIsPersisted ==
    [][\A p \in Poll :
          (poll[p].pc = "save" /\ faults' = faults)
              => (poll'[p].pc = "failed" => row'.ledger = poll[p].highest)]_vars

\* IndexerReorgGuard.getOverlapStart: "Normal progression (cursor + 1)" - yet
\* `cursor + 1` on the text read from the row is no ledger the RPC accepts.
NormalProgressionFetches ==
    [][\A p \in Poll :
          (/\ poll[p].pc = "gotGuard" /\ faults' = faults
           /\ guard.ledger + RpcLag < tip /\ tip <= guard.ledger + GapThreshold)
              => poll'[p].pc # "failed"]_vars

=============================================================================
