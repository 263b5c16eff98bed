--------------------------- MODULE IndexerProofs ---------------------------
(***************************************************************************)
(* Proofs about Indexer for every chain, page size, window, threshold, lag *)
(* and number of faults.                                                   *)
(***************************************************************************)
EXTENDS Indexer, TLAPS

USE DEF Phase, Event, Decodable

LEMMA Bounds == NumEvents \in Nat /\ MaxLedger \in Nat /\ MaxLedger >= 1
                /\ CounterDigits \in Nat /\ MaxFaults \in Nat
  BY IndexerAssumption

LEMMA Chain == /\ LedgerOf \in [Event -> 1..MaxLedger]
               /\ \A e, f \in Event : e <= f => LedgerOf[e] <= LedgerOf[f]
  BY IndexerAssumption

LEMMA RestingType == Resting \in Invocation
  BY Bounds DEF Resting, Invocation, Row, NoRow

LEMMA InitTypeOK == Init => TypeOK
  BY Bounds, RestingType DEF Init, TypeOK, Row, NoRow

LEMMA ConcatenatedInNat ==
  ASSUME NEW d \in Nat, NEW n \in Nat
  PROVE  Concatenated(d, n) \in Nat
  BY DEF Concatenated, Digits

LEMMA BecomeType ==
  ASSUME TypeOK, NEW p \in Poll, NEW r \in Invocation, Become(p, r)
  PROVE  poll' \in [Poll -> Invocation]
  BY DEF TypeOK, Become

LEMMA PageType ==
  ASSUME NEW r \in Invocation, NEW pos \in 0..NumEvents, NEW to \in 0..NumEvents,
         NEW seen \in SUBSET (0..NumEvents)
  PROVE  Fetched(r, pos, to, seen) \in Invocation
<1>1. pos + 1 \in 1..NumEvents + 1
  BY Bounds
<1> QED  BY <1>1 DEF Fetched, Invocation

\* Every value the poller stores, in the tables or in an invocation, keeps its
\* type; in particular the counter never holds more digits than its column.
LEMMA NextTypeOK == TypeOK /\ [Next]_vars => TypeOK'
<1> SUFFICES ASSUME TypeOK, [Next]_vars PROVE TypeOK'
  OBVIOUS
<1>1. CASE CloseLedger
  BY <1>1, Bounds DEF CloseLedger, TypeOK
<1>2. CASE Restart
  BY <1>2, Bounds, RestingType DEF Restart, Fault, TypeOK
<1>3. ASSUME NEW p \in Poll, PollStep(p) PROVE TypeOK'
  <2> DEFINE i == poll[p]
             Polls == poll' \in [Poll -> Invocation]
  <2>0. i \in Invocation /\ row \in Row
    BY DEF TypeOK
  <2>f. [i EXCEPT !.pc = "failed"] \in Invocation
    BY <2>0 DEF Invocation
  <2>1. CASE ReadCursor(p)
    <3>1. /\ [Resting EXCEPT !.pc = "gotCursor", !.prev = row.ledger] \in Invocation
          /\ [Resting EXCEPT !.pc = "create"] \in Invocation
      BY <2>0, RestingType DEF Invocation, Row
    <3>2. Polls
      BY <2>1, <3>1, BecomeType DEF ReadCursor
    <3> QED  BY <2>1, <3>2 DEF ReadCursor, TypeOK
  <2>2. CASE SetGuard(p)
    <3>1. [i EXCEPT !.pc = "gotGuard"] \in Invocation
      BY <2>0 DEF Invocation
    <3>2. Polls
      BY <2>2, <3>1, BecomeType DEF SetGuard
    <3>3. guard' \in [ledger : 0..MaxLedger, text : BOOLEAN]
      BY <2>2, <2>0 DEF SetGuard, Invocation
    <3> QED  BY <2>2, <3>2, <3>3 DEF SetGuard, TypeOK
  <2>12. CASE CreateCursor(p)
    <3>1. [i EXCEPT !.pc = "gotCursor", !.fresh = TRUE] \in Invocation
      BY <2>0 DEF Invocation
    <3>2. Polls
      BY <2>12, <2>f, <3>1, BecomeType DEF CreateCursor
    <3>3. row' \in Row
      BY <2>0, <2>12 DEF CreateCursor, Row
    <3> QED  BY <2>12, <3>2, <3>3 DEF CreateCursor, TypeOK
  <2>3. CASE PollInitialPage(p)
    <3>1. \/ Become(p, Resting)
          \/ Become(p, [i EXCEPT !.pc = "failed"])
          \/ \E pos, to \in 0..NumEvents : Become(p, Fetched(i, pos, to, {}))
      BY <2>3 DEF PollInitialPage
    <3>2. ASSUME NEW pos \in 0..NumEvents, NEW to \in 0..NumEvents,
                 Become(p, Fetched(i, pos, to, {}))
          PROVE  Polls
      BY <2>0, <3>2, PageType, BecomeType
    <3>4. Polls
      BY <2>f, <3>1, <3>2, RestingType, BecomeType
    <3> QED  BY <2>3, <3>4 DEF PollInitialPage, TypeOK
  <2>4. CASE PersistEvent(p)
    <3>1. i.next + 1 \in 1..NumEvents + 1 /\ i.processed + 1 \in Nat
      BY <2>0, <2>4, Bounds DEF PersistEvent, Invocation
    <3>2. /\ [i EXCEPT !.next = i.next + 1] \in Invocation
          /\ [i EXCEPT !.next = i.next + 1, !.processed = @ + 1] \in Invocation
      BY <2>0, <3>1 DEF Invocation
    <3>3. Polls
      BY <2>4, <3>2, BecomeType DEF PersistEvent
    <3> QED  BY <2>4, <3>3, Bounds DEF PersistEvent, Fault, TypeOK
  <2>5. CASE EndPage(p)
    <3>1. HighestLedger(p) \in 0..MaxLedger
      BY <2>0, Bounds, Chain DEF HighestLedger, Bigger, Invocation
    <3>2. /\ [i EXCEPT !.pc = "save", !.snap = row,
                       !.highest = HighestLedger(p)] \in Invocation
          /\ [i EXCEPT !.pc = "drain"] \in Invocation
      BY <2>0, <3>1 DEF Invocation
    <3>3. \/ Become(p, [i EXCEPT !.pc = "save", !.snap = row,
                                !.highest = HighestLedger(p)])
          \/ Become(p, [i EXCEPT !.pc = "drain"])
      BY <2>5 DEF EndPage
    <3>4. Polls
      BY <3>2, <3>3, BecomeType
    <3> QED  BY <2>5, <3>4 DEF EndPage, TypeOK
  <2>6. CASE SaveProgress(p)
    <3> DEFINE d == Concatenated(i.snap.digits, i.processed)
    <3>1. d \in Nat
      <4>1. i.snap.digits \in Nat /\ i.processed \in Nat
        BY <2>0, Bounds DEF Invocation, Row
      <4> QED  BY <4>1, ConcatenatedInNat
    <3>2. [i EXCEPT !.pc = "drain"] \in Invocation
      BY <2>0 DEF Invocation
    <3>3. Polls
      BY <2>6, <2>f, <3>2, BecomeType DEF SaveProgress
    <3>4. CASE d <= CounterDigits
      <4>1. i.highest \in 0..MaxLedger
        BY <2>0 DEF Invocation
      <4>2. row' \in Row
        <5>1. d \in 0..CounterDigits
          BY <3>1, <3>4, Bounds
        <5>2. row' = [made |-> TRUE, ledger |-> i.highest, digits |-> d]
          BY <2>6, <3>4 DEF SaveProgress
        <5> HIDE DEF d
        <5> QED  BY <4>1, <5>1, <5>2 DEF Row
      <4>3. guard' \in [ledger : 0..MaxLedger, text : BOOLEAN]
        <5>1. guard' = Updated(i.highest)
          BY <2>6, <3>4 DEF SaveProgress
        <5> QED  BY <4>1, <5>1 DEF Updated, TypeOK
      <4> QED  BY <2>6, <3>3, <4>2, <4>3 DEF SaveProgress, TypeOK
    <3>5. CASE ~(d <= CounterDigits)
      BY <2>6, <3>3, <3>5 DEF SaveProgress, TypeOK
    <3> QED  BY <3>4, <3>5
  <2>7. CASE DrainPage(p)
    <3>1. PICK to \in 0..NumEvents :
            Become(p, Fetched(i, i.last, to, i.seen \cup {i.last}))
      BY <2>7 DEF DrainPage
    <3>2. i.last \in 0..NumEvents /\ i.seen \cup {i.last} \in SUBSET (0..NumEvents)
      BY <2>0 DEF Invocation
    <3>3. Polls
      BY <2>0, <3>1, <3>2, PageType, BecomeType
    <3> QED  BY <2>7, <3>3 DEF DrainPage, TypeOK
  <2>8. CASE EndDrain(p)
    <3>1. Polls
      BY <2>8, RestingType, BecomeType DEF EndDrain
    <3> QED  BY <2>8, <3>1 DEF EndDrain, TypeOK
  <2>9. CASE CallRejects(p)
    <3>1. Polls
      BY <2>9, <2>f, BecomeType DEF CallRejects
    <3> QED  BY <2>9, <3>1, Bounds DEF CallRejects, Fault, TypeOK
  <2>10. CASE ReadForError(p)
    <3>0. row' \in Row
      BY <2>0, <2>10 DEF ReadForError, Row
    <3>1. [i EXCEPT !.pc = "saveError", !.snap = row'] \in Invocation
      BY <2>0, <3>0 DEF Invocation
    <3>2. Polls
      BY <2>10, <3>1, BecomeType DEF ReadForError
    <3> QED  BY <2>10, <3>0, <3>2 DEF ReadForError, TypeOK
  <2>11. CASE SaveError(p)
    <3>1. Polls
      BY <2>11, RestingType, BecomeType DEF SaveError
    <3>2. row' \in Row
      BY <2>0, <2>11 DEF SaveError, Invocation
    <3> QED  BY <2>11, <3>1, <3>2, Bounds DEF SaveError, Fault, TypeOK
  <2> QED
    BY <1>3, <2>1, <2>2, <2>3, <2>4, <2>5, <2>6, <2>7, <2>8, <2>9, <2>10, <2>11,
       <2>12
    DEF PollStep
<1>4. CASE UNCHANGED vars
  BY <1>4 DEF vars, TypeOK
<1> QED
  BY <1>1, <1>2, <1>3, <1>4 DEF Next

\* Type correctness of the poller, for any number of overlapping invocations.
THEOREM IndexerTypeOK == Spec => []TypeOK
  BY InitTypeOK, NextTypeOK, PTL DEF Spec

----------------------------------------------------------------------------
(***************************************************************************)
(* The cursor.  CursorSkipsNothing is not inductive: what the next save    *)
(* writes depends on how far the invocation has read.  The strengthening   *)
(* says that an invocation always has the events up to its place in the    *)
(* chain behind it (ReadUpTo), that it started from the cursor of the row, *)
(* and that the ledger it is about to save is not below the row's.         *)
(***************************************************************************)

ReadUpTo(n) == \A e \in Decodable : e <= n => e \in stored \cup rejected

\* The ledger reached by an invocation that started from ledger prev and has
\* consumed the events up to n.
Reached(prev, n) == IF n \in Event THEN Bigger(prev, LedgerOf[n]) ELSE prev

LocalInv(i) ==
    /\ i.pc # "idle" => i.prev <= row.ledger
    /\ i.pc \in {"create", "gotCursor", "gotGuard"} => i.prev = row.ledger
    /\ i.pc = "gotCursor" /\ i.fresh => i.prev = 0
    /\ i.pc = "gotGuard" => /\ guard.ledger = i.prev
                            /\ guard.text \/ i.prev = 0
    /\ i.pc = "persist" =>
         /\ i.after < i.next /\ i.next <= i.last + 1 /\ i.after <= i.last
         /\ i.processed > 0 => i.after < i.last
         /\ \A e \in Decodable : e < i.next => e \in stored \cup rejected
         /\ row.ledger <= Reached(i.prev, i.after)
    /\ i.pc = "save" =>
         /\ i.after < i.last
         /\ ReadUpTo(i.last)
         /\ i.highest = Reached(i.prev, i.last)
         /\ row.ledger <= i.highest
    /\ i.pc = "drain" =>
         /\ ReadUpTo(i.last)
         /\ row.ledger <= Reached(i.prev, i.last)
    /\ i.pc = "saveError" => i.snap = row

IInv ==
    /\ CursorSkipsNothing
    /\ ~row.made => row.ledger = 0
    /\ \A p \in Poll : LocalInv(poll[p])

LEMMA ReachedMonotone ==
  ASSUME NEW prev \in Nat, NEW m \in 0..NumEvents, NEW n \in 0..NumEvents, m <= n
  PROVE  Reached(prev, m) <= Reached(prev, n) /\ Reached(prev, n) \in Nat
<1>1. \A e \in Event : LedgerOf[e] \in Nat
  BY Chain, Bounds
<1>2. CASE m \in Event
  <2>1. n \in Event /\ LedgerOf[m] <= LedgerOf[n]
    BY <1>2, Chain, Bounds
  <2> QED  BY <1>1, <1>2, <2>1 DEF Reached, Bigger
<1>3. CASE m \notin Event
  BY <1>1, <1>3 DEF Reached, Bigger
<1> QED  BY <1>2, <1>3

\* Whoever has read the chain up to an event, starting from a cursor that
\* skips nothing, may save that event's ledger.
LEMMA AccountedReached ==
  ASSUME TypeOK, CursorSkipsNothing, NEW prev \in Nat, prev <= row.ledger,
         NEW n \in Event, ReadUpTo(n)
  PROVE  Accounted(Reached(prev, n))
<1> SUFFICES ASSUME NEW e \in Decodable, LedgerOf[e] < Reached(prev, n)
             PROVE  e \in stored \cup rejected
  BY DEF Accounted
<1>1. LedgerOf[e] \in Nat /\ LedgerOf[n] \in Nat /\ row.ledger \in Nat
  BY Chain, Bounds DEF TypeOK, Row
<1>2. CASE LedgerOf[e] < prev
  BY <1>1, <1>2 DEF CursorSkipsNothing, Accounted
<1>3. CASE LedgerOf[e] < LedgerOf[n]
  <2>1. e <= n
    BY <1>1, <1>3, Chain, Bounds
  <2> QED  BY <2>1 DEF ReadUpTo
<1> QED  BY <1>1, <1>2, <1>3 DEF Reached, Bigger

LEMMA InitIInv == Init => IInv
<1> SUFFICES ASSUME Init PROVE IInv
  OBVIOUS
<1>0. row.ledger = 0
  BY DEF Init, NoRow
<1>1. CursorSkipsNothing
  BY <1>0, Chain, Bounds DEF CursorSkipsNothing, Accounted
<1>2. \A p \in Poll : poll[p].pc = "idle"
  BY DEF Init, Resting
<1> QED  BY <1>0, <1>1, <1>2 DEF IInv, LocalInv

LEMMA BecomeIs ==
  ASSUME TypeOK, NEW p \in Poll, NEW r, Become(p, r)
  PROVE  poll'[p] = r
  BY DEF TypeOK, Become

HIDE DEF Phase, Event, Decodable

LEMMA Local ==
  ASSUME TypeOK, IInv, NEW p \in Poll
  PROVE  /\ poll[p] \in Invocation /\ LocalInv(poll[p]) /\ CursorSkipsNothing
         /\ row \in Row /\ row.ledger \in Nat /\ poll[p].prev \in Nat
         /\ poll[p].after \in 0..NumEvents /\ poll[p].last \in 0..NumEvents
         /\ poll[p].next \in Nat /\ poll[p].processed \in Nat
  BY Bounds DEF TypeOK, IInv, Row, Invocation

\* A step that leaves the cursor alone and loses no event keeps the cursor's
\* invariant; the rest is the invocation's own.
LEMMA RowUntouched ==
  ASSUME OneInvocation, TypeOK, IInv, NEW p \in Poll,
         stored \subseteq stored', rejected \subseteq rejected',
         row' = row \/ row' = [row EXCEPT !.made = TRUE],
         LocalInv(poll[p])'
  PROVE  IInv' /\ row'.ledger >= row.ledger
<1>0. row'.ledger = row.ledger /\ (~row'.made => ~row.made)
  BY Local DEF Row
<1>1. CursorSkipsNothing'
  BY <1>0 DEF IInv, CursorSkipsNothing, Accounted
<1>2. \A q \in Poll : LocalInv(poll[q])'
  BY DEF OneInvocation
<1>3. row.ledger \in Nat
  BY Local
<1> QED  BY <1>0, <1>1, <1>2, <1>3 DEF IInv

LEMMA RestingInv ==
  ASSUME TypeOK, NEW p \in Poll, Become(p, Resting)
  PROVE  LocalInv(poll[p])'
<1>1. poll'[p].pc = "idle"
  BY BecomeIs DEF Resting
<1> QED  BY <1>1 DEF LocalInv

LEMMA FailedInv ==
  ASSUME TypeOK, IInv, NEW p \in Poll, poll[p].pc # "idle", row' = row,
         Become(p, [poll[p] EXCEPT !.pc = "failed"])
  PROVE  LocalInv(poll[p])'
<1>1. poll'[p] = [poll[p] EXCEPT !.pc = "failed"]
  BY BecomeIs
<1>2. poll'[p].pc = "failed" /\ poll'[p].prev = poll[p].prev
  BY <1>1, Local DEF Invocation
<1>3. poll[p].prev <= row.ledger
  BY Local DEF LocalInv
<1> QED  BY <1>2, <1>3 DEF LocalInv

LEMMA StepReadCursor ==
  ASSUME OneInvocation, TypeOK, IInv, NEW p \in Poll, ReadCursor(p)
  PROVE  IInv' /\ row'.ledger >= row.ledger
<1>1. UNCHANGED <<stored, rejected, row>> /\ row.ledger \in Nat
  BY Local DEF ReadCursor
<1>2. CASE row.made
  <2>1. poll'[p] = [Resting EXCEPT !.pc = "gotCursor", !.prev = row.ledger]
    BY <1>2, BecomeIs DEF ReadCursor
  <2>2. /\ poll'[p].pc = "gotCursor" /\ poll'[p].prev = row.ledger
        /\ poll'[p].fresh = FALSE
    BY <2>1 DEF Resting
  <2>3. LocalInv(poll[p])'
    BY <1>1, <2>2 DEF LocalInv
  <2> QED  BY <1>1, <2>3, RowUntouched
<1>3. CASE ~row.made
  <2>1. poll'[p] = [Resting EXCEPT !.pc = "create"]
    BY <1>3, BecomeIs DEF ReadCursor
  <2>2. poll'[p].pc = "create" /\ poll'[p].prev = 0
    BY <2>1 DEF Resting
  <2>3. row.ledger = 0
    BY <1>3 DEF IInv
  <2>4. LocalInv(poll[p])'
    BY <1>1, <2>2, <2>3 DEF LocalInv
  <2> QED  BY <1>1, <2>4, RowUntouched
<1> QED  BY <1>2, <1>3

LEMMA StepCreateCursor ==
  ASSUME OneInvocation, TypeOK, IInv, NEW p \in Poll, CreateCursor(p)
  PROVE  IInv' /\ row'.ledger >= row.ledger
<1>0. UNCHANGED <<stored, rejected>> /\ poll[p].pc = "create"
      /\ poll[p].prev = row.ledger
  BY Local DEF CreateCursor, LocalInv
<1>1. CASE row.made
  BY <1>0, <1>1, FailedInv, RowUntouched DEF CreateCursor
<1>2. CASE ~row.made
  <2>1. poll'[p] = [poll[p] EXCEPT !.pc = "gotCursor", !.fresh = TRUE]
        /\ row' = [row EXCEPT !.made = TRUE]
    BY <1>2, BecomeIs DEF CreateCursor
  <2>2. poll'[p].pc = "gotCursor" /\ poll'[p].prev = poll[p].prev
    BY <2>1, Local DEF Invocation
  <2>3. row'.ledger = row.ledger /\ row.ledger = 0
    BY <1>2, <2>1, Local DEF IInv, Row
  <2>4. LocalInv(poll[p])'
    BY <1>0, <2>2, <2>3 DEF LocalInv
  <2> QED  BY <1>0, <2>1, <2>4, RowUntouched
<1> QED  BY <1>1, <1>2

LEMMA StepSetGuard ==
  ASSUME OneInvocation, TypeOK, IInv, NEW p \in Poll, SetGuard(p)
  PROVE  IInv' /\ row'.ledger >= row.ledger
<1>1. poll'[p] = [poll[p] EXCEPT !.pc = "gotGuard"]
  BY BecomeIs DEF SetGuard
<1>2. poll'[p].pc = "gotGuard" /\ poll'[p].prev = poll[p].prev
  BY <1>1, Local DEF Invocation
<1>3. /\ UNCHANGED <<stored, rejected, row>>
      /\ guard'.ledger = poll[p].prev /\ guard'.text = ~poll[p].fresh
      /\ poll[p].prev = row.ledger /\ (poll[p].fresh => poll[p].prev = 0)
  BY Local DEF SetGuard, LocalInv
<1>4. guard'.text \/ poll[p].prev = 0
  BY <1>3, Zenon
<1>n. row.ledger \in Nat
  BY Local
<1>5. LocalInv(poll[p])'
  BY <1>2, <1>3, <1>4, <1>n DEF LocalInv
<1> QED  BY <1>3, <1>5, RowUntouched

\* The first page starts at the rollback window or at ledger 1, never beyond the
\* cursor: what precedes it has been accounted for.
LEMMA StepPollInitialPage ==
  ASSUME OneInvocation, TypeOK, IInv, NEW p \in Poll, PollInitialPage(p)
  PROVE  IInv' /\ row'.ledger >= row.ledger
<1> DEFINE i == poll[p]
<1>0. /\ i.pc = "gotGuard" /\ i.prev = row.ledger
      /\ guard.ledger = row.ledger /\ (guard.text \/ row.ledger = 0)
      /\ UNCHANGED <<stored, rejected, row>>
  BY Local DEF PollInitialPage, LocalInv
<1>1. CASE Become(p, Resting)
  BY <1>0, <1>1, RestingInv, RowUntouched
<1>2. CASE Become(p, [i EXCEPT !.pc = "failed"])
  BY <1>0, <1>2, FailedInv, RowUntouched
<1>3. ASSUME NEW latest \in RpcView, RpcAccepts(latest),
             NEW pos \in 0..NumEvents, NEW to \in 0..NumEvents,
             EndsBefore(pos, OverlapStart(latest)), IsPage(pos, to, latest),
             Become(p, Fetched(i, pos, to, {}))
      PROVE  LocalInv(poll[p])'
  <2>1. poll'[p] = Fetched(i, pos, to, {})
    BY <1>3, BecomeIs
  <2>2. /\ poll'[p].pc = "persist" /\ poll'[p].prev = i.prev
        /\ poll'[p].after = pos /\ poll'[p].next = pos + 1
        /\ poll'[p].last = to /\ poll'[p].processed = 0
    BY <2>1, Local DEF Fetched, Invocation
  <2>3. OverlapStart(latest) = 1 \/ OverlapStart(latest) <= row.ledger
    <3>1. \/ OverlapStart(latest) = Floor1(row.ledger, OverlapWindow)
          \/ row.ledger = 0 /\ OverlapStart(latest) = row.ledger + 1
      BY <1>0, <1>3 DEF RpcAccepts, OverlapStart
    <3>2. OverlapWindow \in Nat /\ row.ledger \in Nat
      BY IndexerAssumption, Local
    <3> QED  BY <3>1, <3>2 DEF Floor1
  <2>4. \A e \in Decodable : e < pos + 1 => e \in stored \cup rejected
    <3> SUFFICES ASSUME NEW e \in Decodable, e < pos + 1
                 PROVE  e \in stored \cup rejected
      OBVIOUS
    <3>1. e \in Event /\ e <= pos
      BY Bounds DEF Event, Decodable
    <3>2. LedgerOf[e] \in Nat /\ LedgerOf[e] >= 1
      BY <3>1, Chain, Bounds
    <3>3. LedgerOf[e] < OverlapStart(latest)
      BY <1>3, <3>1 DEF EndsBefore
    <3>4. LedgerOf[e] < row.ledger
      <4>1. row.ledger \in Nat
        BY Local
      <4>2. CASE OverlapStart(latest) = 1
        BY <3>2, <3>3, <4>2
      <4>3. CASE OverlapStart(latest) <= row.ledger /\ OverlapStart(latest) \in Nat
        BY <3>2, <3>3, <4>1, <4>3
      <4>4. OverlapStart(latest) \in Nat
        <5>1. OverlapWindow \in Nat
          BY IndexerAssumption
        <5> QED  BY <1>0, <4>1, <5>1 DEF OverlapStart, Floor1
      <4> QED  BY <2>3, <4>2, <4>3, <4>4
    <3> QED  BY <3>4, Local DEF CursorSkipsNothing, Accounted
  <2>5. row.ledger <= Reached(i.prev, pos)
    <3>1. \A e \in Event : LedgerOf[e] \in Nat
      BY Chain, Bounds
    <3> QED  BY <1>0, <3>1, Local DEF Reached, Bigger
  <2>6. pos <= to
    BY <1>3 DEF IsPage
  <2>7. row.ledger \in Nat /\ pos \in Nat /\ to \in Nat
    BY Local, Bounds
  <2>8. /\ pos < pos + 1 /\ pos + 1 <= to + 1 /\ ~(0 > 0)
        /\ row.ledger <= row.ledger
    BY <2>6, <2>7
  <2>9. row'.ledger <= Reached(poll'[p].prev, poll'[p].after)
    BY <1>0, <2>2, <2>5
  <2>10. \A e \in Decodable :
           e < poll'[p].next => e \in stored' \cup rejected'
    BY <1>0, <2>2, <2>4
  <2> QED
    BY <1>0, <2>2, <2>6, <2>8, <2>9, <2>10 DEF LocalInv, Reached, Bigger
<1>4. \/ Become(p, Resting)
      \/ Become(p, [i EXCEPT !.pc = "failed"])
      \/ LocalInv(poll[p])'
  BY <1>3 DEF PollInitialPage
<1> QED  BY <1>0, <1>1, <1>2, <1>4, RowUntouched

\* An event of the page is consumed only once it is stored, rejected or
\* undecodable.
LEMMA StepPersistEvent ==
  ASSUME OneInvocation, TypeOK, IInv, NEW p \in Poll, PersistEvent(p)
  PROVE  IInv' /\ row'.ledger >= row.ledger
<1> DEFINE i == poll[p]
<1>0. /\ i.pc = "persist" /\ i.next <= i.last
      /\ i.after < i.next /\ row.ledger <= Reached(i.prev, i.after)
      /\ i.prev <= row.ledger
      /\ \A e \in Decodable : e < i.next => e \in stored \cup rejected
  BY Local DEF PersistEvent, LocalInv
<1>n. i.next \in Nat /\ i.last \in Nat /\ i.after \in Nat /\ i.processed \in Nat
  BY Local, Bounds
<1>1. /\ stored \subseteq stored' /\ rejected \subseteq rejected' /\ row' = row
      /\ i.next \in Decodable => i.next \in stored' \cup rejected'
  BY DEF PersistEvent, Decodable
<1>2. /\ poll'[p].pc = "persist" /\ poll'[p].prev = i.prev
      /\ poll'[p].after = i.after /\ poll'[p].last = i.last
      /\ poll'[p].next = i.next + 1
  <2>1. \/ Become(p, [i EXCEPT !.next = i.next + 1])
        \/ Become(p, [i EXCEPT !.next = i.next + 1, !.processed = @ + 1])
    BY DEF PersistEvent
  <2>2. \/ poll'[p] = [i EXCEPT !.next = i.next + 1]
        \/ poll'[p] = [i EXCEPT !.next = i.next + 1, !.processed = @ + 1]
    BY <2>1, BecomeIs
  <2> QED  BY <1>0, <2>2, Local DEF Invocation
<1>3. \A e \in Decodable : e < i.next + 1 => e \in stored' \cup rejected'
  <2> SUFFICES ASSUME NEW e \in Decodable, e < i.next + 1
               PROVE  e \in stored' \cup rejected'
    OBVIOUS
  <2>1. e \in Nat
    BY Bounds DEF Decodable, Event
  <2>2. e < i.next \/ e = i.next
    BY <2>1, <1>n
  <2> QED  BY <1>0, <1>1, <2>2
<1>4. /\ i.after < i.next + 1 /\ i.next + 1 <= i.last + 1
      /\ i.after < i.last /\ i.after <= i.last
  BY <1>0, <1>n
<1>5. LocalInv(poll[p])'
  BY <1>0, <1>1, <1>2, <1>3, <1>4 DEF LocalInv, Reached, Bigger
<1> QED  BY <1>1, <1>5, RowUntouched

\* Where the page ends, highestLedger is what the cursor may become; when
\* nothing is saved, it was not above the cursor anyway.
LEMMA StepEndPage ==
  ASSUME OneInvocation, TypeOK, IInv, NEW p \in Poll, EndPage(p)
  PROVE  IInv' /\ row'.ledger >= row.ledger
<1> DEFINE i == poll[p]
           h == HighestLedger(p)
<1>0. /\ i.pc = "persist" /\ i.next > i.last
      /\ i.after < i.next /\ i.next <= i.last + 1 /\ i.after <= i.last
      /\ i.processed > 0 => i.after < i.last
      /\ row.ledger <= Reached(i.prev, i.after) /\ i.prev <= row.ledger
      /\ \A e \in Decodable : e < i.next => e \in stored \cup rejected
      /\ UNCHANGED <<stored, rejected, row>>
  BY Local DEF EndPage, LocalInv
<1>n. /\ i.next \in Nat /\ i.last \in 0..NumEvents /\ i.after \in 0..NumEvents
      /\ i.processed \in Nat /\ i.prev \in Nat /\ row.ledger \in Nat
  BY Local
<1>1. ReadUpTo(i.last)
  <2> SUFFICES ASSUME NEW e \in Decodable, e <= i.last
               PROVE  e \in stored \cup rejected
    BY DEF ReadUpTo
  <2>1. e \in Nat /\ i.last \in Nat
    BY <1>n, Bounds DEF Decodable, Event
  <2>2. e < i.next
    BY <1>0, <1>n, <2>1
  <2> QED  BY <1>0, <2>2
<1>2. row.ledger <= Reached(i.prev, i.last)
  <2>1. /\ Reached(i.prev, i.after) <= Reached(i.prev, i.last)
        /\ Reached(i.prev, i.last) \in Nat
    BY <1>0, <1>n, ReachedMonotone
  <2>2. Reached(i.prev, i.after) \in Nat
    BY <1>n, Bounds, ReachedMonotone
  <2> QED  BY <1>0, <1>n, <2>1, <2>2
<1>3. CASE poll'[p] = [i EXCEPT !.pc = "save", !.snap = row, !.highest = h]
           /\ (i.processed > 0 \/ h > i.prev)
  <2>1. i.after < i.last
    BY <1>0, <1>3, <1>n, Bounds DEF HighestLedger
  <2>2. h = Reached(i.prev, i.last)
    BY <1>n, <2>1, Bounds DEF HighestLedger, Reached, Event
  <2>3. /\ poll'[p].pc = "save" /\ poll'[p].prev = i.prev
        /\ poll'[p].after = i.after /\ poll'[p].last = i.last
        /\ poll'[p].highest = h
    BY <1>3, Local DEF Invocation
  <2>4. LocalInv(poll[p])'
    BY <1>0, <1>1, <1>2, <2>1, <2>2, <2>3 DEF LocalInv, ReadUpTo, Reached, Bigger
  <2> QED  BY <1>0, <2>4, RowUntouched
<1>4. CASE poll'[p] = [i EXCEPT !.pc = "drain"]
  <2>3. /\ poll'[p].pc = "drain" /\ poll'[p].prev = i.prev
        /\ poll'[p].last = i.last
    BY <1>4, Local DEF Invocation
  <2>4. LocalInv(poll[p])'
    BY <1>0, <1>1, <1>2, <2>3 DEF LocalInv, ReadUpTo, Reached, Bigger
  <2> QED  BY <1>0, <2>4, RowUntouched
<1>5. \/ /\ Become(p, [i EXCEPT !.pc = "save", !.snap = row, !.highest = h])
         /\ i.processed > 0 \/ h > i.prev
      \/ Become(p, [i EXCEPT !.pc = "drain"])
  BY DEF EndPage
<1> QED  BY <1>3, <1>4, <1>5, BecomeIs

\* The one step that moves the cursor: by AccountedReached it may.
LEMMA StepSaveProgress ==
  ASSUME OneInvocation, TypeOK, IInv, NEW p \in Poll, SaveProgress(p)
  PROVE  IInv' /\ row'.ledger >= row.ledger
<1> DEFINE i == poll[p]
<1>0. /\ i.pc = "save" /\ i.after < i.last /\ ReadUpTo(i.last)
      /\ i.highest = Reached(i.prev, i.last) /\ row.ledger <= i.highest
      /\ i.prev <= row.ledger /\ UNCHANGED <<stored, rejected>>
  BY Local DEF SaveProgress, LocalInv
<1>n. /\ i.last \in 0..NumEvents /\ i.after \in 0..NumEvents
      /\ i.prev \in Nat /\ row.ledger \in Nat
  BY Local
<1>1. CASE /\ row'.ledger = i.highest /\ row'.made
           /\ Become(p, [i EXCEPT !.pc = "drain"])
  <2>1. poll'[p] = [i EXCEPT !.pc = "drain"]
    BY <1>1, BecomeIs
  <2>2. /\ poll'[p].pc = "drain" /\ poll'[p].prev = i.prev
        /\ poll'[p].last = i.last
    BY <2>1, Local DEF Invocation
  <2>3. i.last \in Event /\ i.highest \in Nat
    BY <1>0, <1>n, Bounds, ReachedMonotone DEF Event
  <2>4. Accounted(i.highest)
    <3>1. CursorSkipsNothing
      BY Local
    <3>2. Accounted(Reached(i.prev, i.last))
      BY <1>0, <1>n, <2>3, <3>1, AccountedReached
    <3> QED  BY <1>0, <3>2
  <2>5. CursorSkipsNothing'
    BY <1>0, <1>1, <2>4 DEF CursorSkipsNothing, Accounted
  <2>6. i.prev <= row'.ledger /\ row'.ledger <= Reached(i.prev, i.last)
    BY <1>0, <1>1, <1>n, <2>3
  <2>7. LocalInv(poll[p])'
    BY <1>0, <2>2, <2>6 DEF LocalInv, ReadUpTo, Reached, Bigger
  <2>8. \A q \in Poll : LocalInv(poll[q])'
    BY <2>7 DEF OneInvocation
  <2>9. row'.ledger >= row.ledger
    BY <1>0, <1>1, <1>n, <2>3
  <2>10. row'.made
    BY <1>1
  <2> QED  BY <2>5, <2>8, <2>9, <2>10 DEF IInv
<1>2. CASE row' = row /\ Become(p, [i EXCEPT !.pc = "failed"])
  BY <1>0, <1>2, FailedInv, RowUntouched
<1>3. \/ /\ row'.ledger = i.highest /\ row'.made
         /\ Become(p, [i EXCEPT !.pc = "drain"])
      \/ row' = row /\ Become(p, [i EXCEPT !.pc = "failed"])
  BY DEF SaveProgress
<1> QED  BY <1>1, <1>2, <1>3

LEMMA StepDrainPage ==
  ASSUME OneInvocation, TypeOK, IInv, NEW p \in Poll, DrainPage(p)
  PROVE  IInv' /\ row'.ledger >= row.ledger
<1> DEFINE i == poll[p]
<1>0. /\ i.pc = "drain" /\ ReadUpTo(i.last)
      /\ row.ledger <= Reached(i.prev, i.last) /\ i.prev <= row.ledger
      /\ UNCHANGED <<stored, rejected, row>>
  BY Local DEF DrainPage, LocalInv
<1>1. PICK to \in 0..NumEvents :
        /\ i.last <= to
        /\ Become(p, Fetched(i, i.last, to, i.seen \cup {i.last}))
  BY DEF DrainPage, IsPage
<1>2. poll'[p] = Fetched(i, i.last, to, i.seen \cup {i.last})
  BY <1>1, BecomeIs
<1>3. /\ poll'[p].pc = "persist" /\ poll'[p].prev = i.prev
      /\ poll'[p].after = i.last /\ poll'[p].next = i.last + 1
      /\ poll'[p].last = to /\ poll'[p].processed = 0
  BY <1>2, Local DEF Fetched, Invocation
<1>n. i.last \in Nat /\ to \in Nat
  BY Local, Bounds
<1>4. \A e \in Decodable : e < i.last + 1 => e \in stored \cup rejected
  <2> SUFFICES ASSUME NEW e \in Decodable, e < i.last + 1
               PROVE  e \in stored \cup rejected
    OBVIOUS
  <2>1. e <= i.last
    BY <1>n, Bounds DEF Decodable, Event
  <2> QED  BY <1>0, <2>1 DEF ReadUpTo
<1>5. i.last < i.last + 1 /\ i.last + 1 <= to + 1 /\ i.last <= to /\ ~(0 > 0)
  BY <1>1, <1>n
<1>6. LocalInv(poll[p])'
  BY <1>0, <1>3, <1>4, <1>5 DEF LocalInv, Reached, Bigger
<1> QED  BY <1>0, <1>6, RowUntouched

\* The error path saves back the row it read, which nobody else has changed.
LEMMA StepErrorPath ==
  ASSUME OneInvocation, TypeOK, IInv, NEW p \in Poll,
         CallRejects(p) \/ ReadForError(p) \/ SaveError(p) \/ EndDrain(p)
  PROVE  IInv' /\ row'.ledger >= row.ledger
<1> DEFINE i == poll[p]
<1>1. CASE CallRejects(p)
  <2>1. /\ i.pc # "idle" /\ UNCHANGED <<stored, rejected, row>>
        /\ Become(p, [i EXCEPT !.pc = "failed"])
    BY <1>1 DEF CallRejects
  <2> QED  BY <2>1, FailedInv, RowUntouched
<1>2. CASE ReadForError(p)
  <2>1. /\ poll'[p] = [i EXCEPT !.pc = "saveError", !.snap = row']
        /\ row' = [row EXCEPT !.made = TRUE] /\ UNCHANGED <<stored, rejected>>
        /\ i.pc # "idle"
    BY <1>2, BecomeIs DEF ReadForError
  <2>2. /\ poll'[p].pc = "saveError" /\ poll'[p].snap = row'
        /\ poll'[p].prev = i.prev
    BY <2>1, Local DEF Invocation
  <2>3. i.prev <= row'.ledger
    BY <2>1, Local DEF LocalInv, Row
  <2>4. LocalInv(poll[p])'
    BY <2>2, <2>3 DEF LocalInv
  <2> QED  BY <2>1, <2>4, RowUntouched
<1>3. CASE SaveError(p)
  <2>1. row' = row /\ UNCHANGED <<stored, rejected>> /\ Become(p, Resting)
    BY <1>3, Local DEF SaveError, LocalInv
  <2> QED  BY <2>1, RestingInv, RowUntouched
<1>4. CASE EndDrain(p)
  <2>1. UNCHANGED <<stored, rejected, row>> /\ Become(p, Resting)
    BY <1>4 DEF EndDrain
  <2> QED  BY <2>1, RestingInv, RowUntouched
<1> QED  BY <1>1, <1>2, <1>3, <1>4

LEMMA NextIInv ==
  ASSUME OneInvocation, TypeOK, IInv, [Next]_vars
  PROVE  IInv' /\ row'.ledger >= row.ledger
<1>0. row.ledger \in Nat
  BY Bounds DEF TypeOK, Row
<1>1. CASE CloseLedger
  <2>1. UNCHANGED <<stored, rejected, row, guard, poll>>
    BY <1>1 DEF CloseLedger
  <2>2. CursorSkipsNothing'
    BY <2>1 DEF IInv, CursorSkipsNothing, Accounted
  <2>3. \A q \in Poll : LocalInv(poll[q])'
    BY <2>1 DEF IInv, LocalInv, ReadUpTo, Reached, Bigger
  <2> QED  BY <1>0, <2>1, <2>2, <2>3 DEF IInv
<1>2. CASE Restart
  <2>1. UNCHANGED <<stored, rejected, row>>
    BY <1>2 DEF Restart
  <2>2. CursorSkipsNothing'
    BY <2>1 DEF IInv, CursorSkipsNothing, Accounted
  <2>3. \A q \in Poll : poll'[q].pc = "idle"
    BY <1>2 DEF Restart, Resting
  <2>4. \A q \in Poll : LocalInv(poll[q])'
    BY <2>3 DEF LocalInv
  <2> QED  BY <1>0, <2>1, <2>2, <2>4 DEF IInv
<1>3. ASSUME NEW p \in Poll, PollStep(p)
      PROVE  IInv' /\ row'.ledger >= row.ledger
  BY <1>3, StepReadCursor, StepCreateCursor, StepSetGuard, StepPollInitialPage, StepPersistEvent,
     StepEndPage, StepSaveProgress, StepDrainPage, StepErrorPath DEF PollStep
<1>4. CASE UNCHANGED vars
  <2>1. UNCHANGED <<stored, rejected, row, guard, poll>>
    BY <1>4 DEF vars
  <2>2. CursorSkipsNothing'
    BY <2>1 DEF IInv, CursorSkipsNothing, Accounted
  <2>3. \A q \in Poll : LocalInv(poll[q])'
    BY <2>1 DEF IInv, LocalInv, ReadUpTo, Reached, Bigger
  <2> QED  BY <1>0, <2>1, <2>2, <2>3 DEF IInv
<1> QED  BY <1>1, <1>2, <1>3, <1>4 DEF Next

\* The saved cursor has no unread event below it, however many faults the one
\* invocation in flight meets.
THEOREM IndexerCursorSkipsNothing ==
  ASSUME OneInvocation PROVE Spec => []CursorSkipsNothing
<1>1. IInv => CursorSkipsNothing
  BY DEF IInv
<1>2. TypeOK /\ IInv /\ [Next]_vars => IInv'
  BY NextIInv
<1> QED  BY <1>1, <1>2, InitIInv, IndexerTypeOK, PTL DEF Spec

\* And no step of the specification moves it back.
THEOREM IndexerCursorNeverRewinds ==
  ASSUME OneInvocation PROVE Spec => CursorNeverRewinds
<1>1. TypeOK /\ IInv /\ [Next]_vars => IInv' /\ [row'.ledger >= row.ledger]_vars
  BY NextIInv
<1> QED  BY <1>1, InitIInv, IndexerTypeOK, PTL DEF Spec, CursorNeverRewinds

----------------------------------------------------------------------------
(* Refinement of CursorLog *)

LEMMA LogStep ==
  ASSUME OneInvocation, TypeOK, IInv, TypeOK', IInv', NEW p \in Poll, PollStep(p)
  PROVE  Log!Next \/ UNCHANGED <<stored, rejected, row.ledger>>
<1>1. CASE PersistEvent(p)
  <2>1. UNCHANGED row
    BY <1>1 DEF PersistEvent
  <2>2. \/ UNCHANGED <<stored, rejected>>
        \/ \E e \in Decodable : stored' = stored \cup {e} /\ UNCHANGED rejected
        \/ \E e \in Decodable : rejected' = rejected \cup {e} /\ UNCHANGED stored
    BY <1>1 DEF PersistEvent
  <2> QED  BY <2>1, <2>2 DEF Log!Next, Log!Record, Log!GiveUp
<1>2. CASE SaveProgress(p)
  <2>1. UNCHANGED <<stored, rejected>>
    BY <1>2 DEF SaveProgress
  <2>2. row'.ledger \in 0..MaxLedger /\ row.ledger \in 0..MaxLedger
    BY DEF TypeOK, Row
  <2>3. row'.ledger >= row.ledger
    BY <1>2, StepSaveProgress
  <2>4. CASE row'.ledger = row.ledger
    BY <2>1, <2>4
  <2>5. CASE row'.ledger # row.ledger
    <3>1. row.ledger < row'.ledger /\ row'.ledger \in 1..MaxLedger
      BY <2>2, <2>3, <2>5, Bounds
    <3>2. Accounted(row'.ledger)
      BY <2>1 DEF IInv, CursorSkipsNothing, Accounted
    <3>3. Log!Advance(row'.ledger)
      BY <2>1, <3>1, <3>2 DEF Log!Advance, Accounted
    <3> QED  BY <3>1, <3>3 DEF Log!Next
  <2> QED  BY <2>4, <2>5
<1>3. CASE SaveError(p)
  <2>1. poll[p].pc = "saveError" => poll[p].snap = row
    BY Local DEF LocalInv
  <2> QED  BY <1>3, <2>1 DEF SaveError
<1>4. CASE \/ ReadCursor(p) \/ SetGuard(p) \/ PollInitialPage(p) \/ EndPage(p)
           \/ DrainPage(p) \/ EndDrain(p) \/ CallRejects(p)
  BY <1>4 DEF ReadCursor, SetGuard, PollInitialPage, EndPage, DrainPage, EndDrain,
              CallRejects
<1>5. CASE CreateCursor(p) \/ ReadForError(p)
  <2>1. UNCHANGED <<stored, rejected>>
    BY <1>5 DEF CreateCursor, ReadForError
  <2>2. row' = row \/ row' = [row EXCEPT !.made = TRUE]
    BY <1>5 DEF CreateCursor, ReadForError
  <2>3. row'.ledger = row.ledger
    BY <2>2, Local DEF Row
  <2> QED  BY <2>1, <2>3
<1> QED  BY <1>1, <1>2, <1>3, <1>4, <1>5 DEF PollStep

\* The poller is a log with a resume cursor: every step records an event, gives
\* one up, moves the cursor over accounted events, or changes none of these.
THEOREM IndexerImplementsCursorLog ==
  ASSUME OneInvocation PROVE Spec => ImplementsCursorLog
<1>1. Init => Log!Init
  BY DEF Init, NoRow, Log!Init
<1>2. TypeOK /\ IInv /\ TypeOK' /\ IInv' /\ [Next]_vars
        => [Log!Next]_<<stored, rejected, row.ledger>>
  <2> SUFFICES ASSUME TypeOK, IInv, TypeOK', IInv', [Next]_vars
               PROVE  Log!Next \/ UNCHANGED <<stored, rejected, row.ledger>>
    OBVIOUS
  <2>1. CASE CloseLedger
    BY <2>1 DEF CloseLedger
  <2>2. CASE Restart
    BY <2>2 DEF Restart
  <2>3. CASE UNCHANGED vars
    BY <2>3 DEF vars
  <2>4. ASSUME NEW p \in Poll, PollStep(p)
        PROVE  Log!Next \/ UNCHANGED <<stored, rejected, row.ledger>>
    BY <2>4, LogStep
  <2> QED  BY <2>1, <2>2, <2>3, <2>4 DEF Next
<1>3. TypeOK /\ IInv /\ [Next]_vars => IInv'
  BY NextIInv
<1> QED
  BY <1>1, <1>2, <1>3, InitIInv, IndexerTypeOK, PTL
  DEF Spec, ImplementsCursorLog, Log!Spec

----------------------------------------------------------------------------
(***************************************************************************)
(* Overlapping invocations.  The cursor may stand before events that are   *)
(* not recorded, but then an invocation in flight still has them ahead of  *)
(* it: they are due.  Whatever becomes the cursor, the guard or a saved    *)
(* entity has only due events before it.  An invocation stops covering     *)
(* events when the RPC answers an empty page, and then they are younger    *)
(* than the tip, so nothing that was read or saved can reach them.         *)
(***************************************************************************)

\* No awaited call rejects, the counter's column is wide enough, and the
\* process is not restarted.
CallSucceeds ==
    /\ faults' = faults
    /\ \A p \in Poll : poll[p].pc = "save" => poll'[p].pc # "failed"
CallsSucceed == [][CallSucceeds]_vars

Fetching(i) == i.pc \in {"persist", "save", "drain"}

\* Invocation i will come to event e, unless the chain ends before it.
Covers(i, e) == Fetching(i) /\ i.next <= e /\ i.last \notin i.seen

Due(e) == e \in stored \cup rejected \/ \E p \in Poll : Covers(poll[p], e)
DueBelow(l) == \A e \in Decodable : LedgerOf[e] < l => Due(e)

\* Where an invocation stands, and that it has seen nothing beyond the tip.
Place(i) ==
    /\ i.prev <= tip
    /\ i.pc = "create" => i.prev = 0 /\ ~i.fresh
    /\ i.fresh => i.prev = 0
    /\ i.pc = "saveError" => i.snap.ledger <= tip
    /\ i.pc = "save" => i.after < i.last /\ i.highest <= tip
    /\ i.pc \in {"save", "drain"} => i.next = i.last + 1
    /\ Fetching(i) =>
         /\ i.after <= i.last /\ i.after < i.next /\ i.next <= i.last + 1
         /\ i.processed > 0 => i.after < i.last
         /\ \A x \in i.seen : x <= i.after
         /\ i.last \in Event => LedgerOf[i.last] <= tip

\* What an invocation has left behind is due.
Claims(i) ==
    /\ i.pc = "gotCursor" => DueBelow(i.prev)
    /\ i.pc = "saveError" => DueBelow(i.snap.ledger)
    /\ Fetching(i) => \A e \in Decodable : e < i.next => Due(e)

Behind(g) == IF g.text THEN g.ledger ELSE g.ledger + 1

OverInv ==
    /\ row.ledger <= tip /\ DueBelow(row.ledger)
    /\ guard.ledger <= tip /\ DueBelow(Behind(guard))
    /\ \A p \in Poll : Place(poll[p]) /\ Claims(poll[p])

LEMMA Linked ==
  ASSUME TypeOK, NEW p \in Poll
  PROVE  /\ poll[p] \in Invocation /\ row \in Row /\ tip \in Nat /\ row.ledger \in Nat
         /\ guard \in [ledger : 0..MaxLedger, text : BOOLEAN] /\ guard.ledger \in Nat
         /\ poll[p].prev \in Nat /\ poll[p].highest \in Nat /\ poll[p].snap.ledger \in Nat
         /\ poll[p].after \in 0..NumEvents /\ poll[p].last \in 0..NumEvents
         /\ poll[p].after \in Nat /\ poll[p].last \in Nat
         /\ poll[p].next \in Nat /\ poll[p].processed \in Nat
         /\ poll[p].seen \subseteq Nat
  BY Bounds DEF TypeOK, Row, Invocation

LEMMA EventNumbers ==
  ASSUME NEW e \in Decodable
  PROVE  e \in Event /\ e \in Nat /\ LedgerOf[e] \in Nat /\ LedgerOf[e] >= 1
  BY Chain, Bounds DEF Decodable, Event

\* An event is no younger than those after it.
LEMMA EarlierIsOlder ==
  ASSUME TypeOK, NEW n \in 0..NumEvents, n \in Event => LedgerOf[n] <= tip,
         NEW e \in Event, e <= n
  PROVE  LedgerOf[e] <= tip
<1>1. n \in Event /\ tip \in Nat
  BY Bounds DEF Event, TypeOK
<1>2. LedgerOf[e] <= LedgerOf[n] /\ LedgerOf[e] \in Nat /\ LedgerOf[n] \in Nat
  BY <1>1, Chain, Bounds
<1> QED  BY <1>1, <1>2

\* While one invocation moves, an event no younger than the tip stays due.
LEMMA DueKept ==
  ASSUME TypeOK, NEW p \in Poll, NEW r, Become(p, r),
         stored \subseteq stored', rejected \subseteq rejected',
         \A e \in Decodable : LedgerOf[e] <= tip /\ Covers(poll[p], e) =>
           Covers(r, e) \/ e \in stored'
  PROVE  \A e \in Decodable : LedgerOf[e] <= tip /\ Due(e) => Due(e)'
<1> SUFFICES ASSUME NEW e \in Decodable, LedgerOf[e] <= tip, Due(e) PROVE Due(e)'
  OBVIOUS
<1>1. poll'[p] = r /\ \A q \in Poll : q # p => poll'[q] = poll[q]
  BY DEF Become, TypeOK
<1>2. CASE e \in stored \cup rejected
  BY <1>2 DEF Due
<1>3. CASE \E q \in Poll : Covers(poll[q], e)
  <2>1. PICK q \in Poll : Covers(poll[q], e)
    BY <1>3
  <2>2. CASE q = p
    <3>1. Covers(r, e) \/ e \in stored'
      BY <2>1, <2>2
    <3>2. Covers(r, e) => Covers(poll'[p], e)
      BY <1>1
    <3> QED  BY <3>1, <3>2 DEF Due, Covers, Fetching
  <2>3. CASE q # p
    <3>1. Covers(poll'[q], e)
      BY <1>1, <2>1, <2>3
    <3> QED  BY <3>1 DEF Due, Covers, Fetching
  <2> QED  BY <2>2, <2>3
<1> QED  BY <1>2, <1>3 DEF Due

LEMMA DueBelowKept ==
  ASSUME TypeOK, NEW l \in Nat, l <= tip + 1, DueBelow(l),
         \A e \in Decodable : LedgerOf[e] <= tip /\ Due(e) => Due(e)'
  PROVE  \A e \in Decodable : LedgerOf[e] < l => Due(e)'
<1> SUFFICES ASSUME NEW e \in Decodable, LedgerOf[e] < l PROVE Due(e)'
  OBVIOUS
<1>1. tip \in Nat
  BY Bounds DEF TypeOK
<1>2. LedgerOf[e] <= tip
  BY <1>1, EventNumbers
<1> QED  BY <1>2 DEF DueBelow

\* An invocation that does not move keeps its place and its claims.
LEMMA BystanderKept ==
  ASSUME TypeOK, OverInv, NEW q \in Poll, poll'[q] = poll[q], tip' \in Nat, tip <= tip',
         \A e \in Decodable : LedgerOf[e] <= tip /\ Due(e) => Due(e)'
  PROVE  Place(poll[q])' /\ Claims(poll[q])'
<1>1. PICK i : i = poll[q] /\ i = poll'[q]
  OBVIOUS
<1>2. /\ tip \in Nat /\ i.prev \in Nat /\ i.highest \in Nat /\ i.snap.ledger \in Nat
      /\ i.next \in Nat /\ i.last \in 0..NumEvents /\ i.last \in Nat
  BY <1>1, Linked
<1>3. Place(i) /\ Claims(i)
  BY <1>1 DEF OverInv
<1>4. \A e \in Event : LedgerOf[e] \in Nat
  BY Chain, Bounds
<1>5. Place(i)'
  <2>1. i.prev <= tip'
    BY <1>2, <1>3 DEF Place
  <2>2. i.pc = "saveError" => i.snap.ledger <= tip'
    BY <1>2, <1>3 DEF Place
  <2>3. i.pc = "save" => i.after < i.last /\ i.highest <= tip'
    BY <1>2, <1>3 DEF Place
  <2>4. Fetching(i) => (i.last \in Event => LedgerOf[i.last] <= tip')
    BY <1>2, <1>3, <1>4 DEF Place
  <2> QED  BY <1>3, <2>1, <2>2, <2>3, <2>4 DEF Place
<1>6. i.pc = "gotCursor" => \A e \in Decodable : LedgerOf[e] < i.prev => Due(e)'
  <2>1. i.prev <= tip + 1
    BY <1>2, <1>3 DEF Place
  <2> QED  BY <1>2, <1>3, <2>1, DueBelowKept DEF Claims
<1>7. i.pc = "saveError" => \A e \in Decodable : LedgerOf[e] < i.snap.ledger => Due(e)'
  <2>1. i.pc = "saveError" => i.snap.ledger <= tip + 1
    BY <1>2, <1>3 DEF Place
  <2> QED  BY <1>2, <1>3, <2>1, DueBelowKept DEF Claims
<1>8. ASSUME Fetching(i), NEW e \in Decodable, e < i.next PROVE Due(e)'
  <2>1. Due(e)
    BY <1>3, <1>8 DEF Claims
  <2>2. e \in Event /\ e \in Nat /\ LedgerOf[e] \in Nat
    BY EventNumbers
  <2>3. e <= i.last
    BY <1>2, <1>3, <1>8, <2>2 DEF Place
  <2>4. LedgerOf[e] <= tip
    BY <1>2, <1>3, <1>8, <2>2, <2>3, EarlierIsOlder DEF Place
  <2> QED  BY <2>1, <2>4
<1>9. Claims(i)'
  BY <1>6, <1>7, <1>8 DEF Claims, DueBelow
<1> QED  BY <1>1, <1>5, <1>9 DEF Place, Claims, Fetching

\* What a step of invocation p has to establish.
LEMMA StepKeeps ==
  ASSUME TypeOK, OverInv, NEW p \in Poll, NEW r, Become(p, r), tip' = tip,
         stored \subseteq stored', rejected \subseteq rejected',
         \A e \in Decodable : LedgerOf[e] <= tip /\ Covers(poll[p], e) =>
           Covers(r, e) \/ e \in stored',
         row'.ledger = row.ledger \/ (row'.ledger <= tip /\ DueBelow(row.ledger)'),
         guard' = guard \/ (guard'.ledger <= tip /\ DueBelow(Behind(guard))'),
         Place(poll[p])', Claims(poll[p])'
  PROVE  OverInv'
<1>1. \A e \in Decodable : LedgerOf[e] <= tip /\ Due(e) => Due(e)'
  BY DueKept
<1>2. /\ tip \in Nat /\ row.ledger \in Nat /\ guard.ledger \in Nat /\ Behind(guard) \in Nat
      /\ row.ledger <= tip /\ guard.ledger <= tip /\ Behind(guard) <= tip + 1
      /\ row.ledger <= tip + 1
  BY Linked DEF OverInv, Behind
<1>3. row'.ledger <= tip /\ DueBelow(row.ledger)'
  <2>1. \A e \in Decodable : LedgerOf[e] < row.ledger => Due(e)'
    BY <1>1, <1>2, DueBelowKept DEF OverInv
  <2> QED  BY <1>2, <2>1 DEF DueBelow
<1>4. guard'.ledger <= tip /\ DueBelow(Behind(guard))'
  <2>1. \A e \in Decodable : LedgerOf[e] < Behind(guard) => Due(e)'
    BY <1>1, <1>2, DueBelowKept DEF OverInv
  <2> QED  BY <1>2, <2>1 DEF DueBelow, Behind
<1>5. ASSUME NEW q \in Poll PROVE Place(poll[q])' /\ Claims(poll[q])'
  <2>1. CASE q = p
    BY <2>1
  <2>2. CASE q # p
    <3>1. poll'[q] = poll[q] /\ tip' \in Nat /\ tip <= tip'
      BY <1>2, <2>2 DEF Become, TypeOK
    <3> QED  BY <1>1, <3>1, BystanderKept
  <2> QED  BY <2>1, <2>2
<1> QED  BY <1>3, <1>4, <1>5 DEF OverInv

LEMMA RestingClaims ==
  ASSUME TypeOK, NEW p \in Poll, Become(p, Resting), tip' = tip
  PROVE  Place(poll[p])' /\ Claims(poll[p])'
<1>1. poll'[p].pc = "idle" /\ poll'[p].prev = 0
  BY BecomeIs DEF Resting
<1>2. 0 <= tip
  BY Linked
<1> QED  BY <1>1, <1>2 DEF Place, Claims, Fetching

LEMMA FailedClaims ==
  ASSUME TypeOK, OverInv, NEW p \in Poll, tip' = tip,
         Become(p, [poll[p] EXCEPT !.pc = "failed"])
  PROVE  Place(poll[p])' /\ Claims(poll[p])'
<1>1. poll'[p] = [poll[p] EXCEPT !.pc = "failed"]
  BY BecomeIs
<1>2. /\ poll'[p].pc = "failed" /\ poll'[p].prev = poll[p].prev
      /\ poll'[p].fresh = poll[p].fresh
  BY <1>1, Linked DEF Invocation
<1>3. poll[p].prev <= tip /\ (poll[p].fresh => poll[p].prev = 0)
  BY DEF OverInv, Place
<1> QED  BY <1>2, <1>3 DEF Place, Claims, Fetching

\* What is read from the row is due, for the events before the row's cursor are.
LEMMA OverReadCursor ==
  ASSUME TypeOK, OverInv, NEW p \in Poll, ReadCursor(p)
  PROVE  OverInv'
<1>1. /\ UNCHANGED <<tip, stored, rejected, row, guard>> /\ ~Fetching(poll[p])
      /\ row.ledger <= tip /\ DueBelow(row.ledger) /\ 0 <= tip
  BY Linked DEF ReadCursor, OverInv, Fetching
<1>2. CASE row.made
  <2>1. PICK r : r = [Resting EXCEPT !.pc = "gotCursor", !.prev = row.ledger] /\ Become(p, r)
    BY <1>2 DEF ReadCursor
  <2>2. r.pc = "gotCursor" /\ r.prev = row.ledger /\ ~r.fresh /\ poll'[p] = r
    BY <2>1, BecomeIs DEF Resting
  <2>3. Place(poll[p])'
    BY <1>1, <2>2 DEF Place, Fetching
  <2>4. \A e \in Decodable : LedgerOf[e] <= tip /\ Due(e) => Due(e)'
    BY <1>1, <2>1, DueKept DEF Covers
  <2>5. \A e \in Decodable : LedgerOf[e] < row.ledger => Due(e)'
    BY <1>1, <2>4, Linked, DueBelowKept DEF OverInv
  <2>6. Claims(poll[p])'
    BY <2>2, <2>5 DEF Claims, Fetching, DueBelow
  <2> QED  BY <1>1, <2>1, <2>3, <2>6, StepKeeps DEF Covers
<1>3. CASE ~row.made
  <2>1. PICK r : r = [Resting EXCEPT !.pc = "create"] /\ Become(p, r)
    BY <1>3 DEF ReadCursor
  <2>2. r.pc = "create" /\ r.prev = 0 /\ ~r.fresh /\ poll'[p] = r
    BY <2>1, BecomeIs DEF Resting
  <2>3. Place(poll[p])' /\ Claims(poll[p])'
    BY <1>1, <2>2 DEF Place, Claims, Fetching
  <2> QED  BY <1>1, <2>1, <2>3, StepKeeps DEF Covers
<1> QED  BY <1>2, <1>3

LEMMA OverCreateCursor ==
  ASSUME TypeOK, OverInv, NEW p \in Poll, CreateCursor(p)
  PROVE  OverInv'
<1> DEFINE i == poll[p]
<1>1. /\ UNCHANGED <<tip, stored, rejected, guard>> /\ ~Fetching(i)
      /\ i.pc = "create" /\ 0 <= tip
  BY Linked DEF CreateCursor, Fetching
<1>2. CASE row' = row /\ Become(p, [i EXCEPT !.pc = "failed"])
  BY <1>1, <1>2, FailedClaims, StepKeeps DEF Covers
<1>3. CASE row' = [row EXCEPT !.made = TRUE]
           /\ Become(p, [i EXCEPT !.pc = "gotCursor", !.fresh = TRUE])
  <2>1. PICK r : r = [i EXCEPT !.pc = "gotCursor", !.fresh = TRUE] /\ Become(p, r)
    BY <1>3
  <2>2. r.pc = "gotCursor" /\ r.prev = i.prev /\ poll'[p] = r
    BY <2>1, BecomeIs, Linked DEF Invocation
  <2>3. i.prev = 0
    BY <1>1 DEF OverInv, Place
  <2>4. Place(poll[p])'
    BY <1>1, <2>2, <2>3 DEF Place, Fetching
  <2>5. \A e \in Decodable : ~(LedgerOf[e] < 0)
    BY EventNumbers
  <2>6. Claims(poll[p])'
    BY <2>2, <2>3, <2>5 DEF Claims, Fetching, DueBelow
  <2>7. row'.ledger = row.ledger
    BY <1>3, Linked DEF Row
  <2> QED  BY <1>1, <2>1, <2>4, <2>6, <2>7, StepKeeps DEF Covers
<1> QED  BY <1>2, <1>3 DEF CreateCursor

\* The guard takes the ledger read from the row; what was read stays due.
LEMMA OverSetGuard ==
  ASSUME TypeOK, OverInv, NEW p \in Poll, SetGuard(p)
  PROVE  OverInv'
<1> DEFINE i == poll[p]
<1>1. /\ UNCHANGED <<tip, stored, rejected, row>> /\ ~Fetching(i)
      /\ i.prev <= tip /\ (i.fresh => i.prev = 0) /\ DueBelow(i.prev)
      /\ guard' = [ledger |-> i.prev, text |-> ~i.fresh]
  BY DEF SetGuard, OverInv, Place, Claims, Fetching
<1>2. PICK r : r = [i EXCEPT !.pc = "gotGuard"] /\ Become(p, r)
  BY DEF SetGuard
<1>3. r.pc = "gotGuard" /\ r.prev = i.prev /\ r.fresh = i.fresh /\ poll'[p] = r
  BY <1>2, BecomeIs, Linked DEF Invocation
<1>4. Place(poll[p])' /\ Claims(poll[p])'
  BY <1>1, <1>3 DEF Place, Claims, Fetching
<1>5. \A e \in Decodable : LedgerOf[e] <= tip /\ Due(e) => Due(e)'
  BY <1>1, <1>2, DueKept DEF Covers
<1>6. guard'.ledger <= tip /\ DueBelow(Behind(guard))'
  <2>1. \A e \in Decodable : LedgerOf[e] < i.prev => Due(e)'
    <3>1. i.prev \in Nat /\ i.prev <= tip + 1
      BY <1>1, Linked
    <3> QED  BY <1>1, <1>5, <3>1, DueBelowKept
  <2>2. \A e \in Decodable : ~(LedgerOf[e] < 0 + 1)
    BY EventNumbers
  <2> QED  BY <1>1, <2>1, <2>2 DEF DueBelow, Behind
<1> QED  BY <1>1, <1>2, <1>4, <1>6, StepKeeps DEF Covers

LEMMA OverErrorPath ==
  ASSUME TypeOK, OverInv, NEW p \in Poll, ReadForError(p) \/ (SaveError(p) /\ faults' = faults)
  PROVE  OverInv'
<1> DEFINE i == poll[p]
<1>1. CASE ReadForError(p)
  <2>1. /\ UNCHANGED <<tip, stored, rejected, guard>> /\ ~Fetching(i)
        /\ row' = [row EXCEPT !.made = TRUE]
    BY <1>1 DEF ReadForError, Fetching
  <2>2. PICK r : r = [i EXCEPT !.pc = "saveError", !.snap = row'] /\ Become(p, r)
    BY <1>1 DEF ReadForError
  <2>3. row'.ledger = row.ledger
    BY <2>1, Linked DEF Row
  <2>4. /\ r.pc = "saveError" /\ r.snap.ledger = row.ledger /\ r.prev = i.prev
        /\ r.fresh = i.fresh /\ poll'[p] = r
    BY <2>2, <2>3, BecomeIs, Linked DEF Invocation
  <2>5. /\ row.ledger <= tip /\ i.prev <= tip /\ (i.fresh => i.prev = 0)
        /\ DueBelow(row.ledger)
    BY DEF OverInv, Place
  <2>6. Place(poll[p])'
    BY <2>1, <2>4, <2>5 DEF Place, Fetching
  <2>7. \A e \in Decodable : LedgerOf[e] <= tip /\ Due(e) => Due(e)'
    BY <2>1, <2>2, DueKept DEF Covers
  <2>8. \A e \in Decodable : LedgerOf[e] < row.ledger => Due(e)'
    BY <2>5, <2>7, Linked, DueBelowKept
  <2>9. Claims(poll[p])'
    BY <2>4, <2>8 DEF Claims, Fetching, DueBelow
  <2> QED  BY <2>1, <2>2, <2>3, <2>6, <2>9, StepKeeps DEF Covers
<1>2. CASE SaveError(p) /\ faults' = faults
  <2>1. /\ UNCHANGED <<tip, stored, rejected, guard>> /\ ~Fetching(i)
        /\ Become(p, Resting) /\ i.pc = "saveError"
    BY <1>2 DEF SaveError, Fetching
  <2>2. row' = i.snap
    BY <1>2 DEF SaveError, Fault, TypeOK
  <2>3. i.snap.ledger <= tip /\ DueBelow(i.snap.ledger)
    BY <2>1 DEF OverInv, Place, Claims
  <2>4. \A e \in Decodable : LedgerOf[e] <= tip /\ Due(e) => Due(e)'
    BY <2>1, DueKept DEF Covers
  <2>5. \A e \in Decodable : LedgerOf[e] < i.snap.ledger => Due(e)'
    <3>1. i.snap.ledger \in Nat /\ i.snap.ledger <= tip + 1
      BY <2>3, Linked
    <3> QED  BY <2>3, <2>4, <3>1, DueBelowKept
  <2>6. row'.ledger <= tip /\ DueBelow(row.ledger)'
    BY <2>2, <2>3, <2>5 DEF DueBelow
  <2> QED  BY <2>1, <2>6, RestingClaims, StepKeeps DEF Covers
<1> QED  BY <1>1, <1>2

\* Where the first page begins, only due events are left out: getOverlapStart does
\* not go beyond the guard's ledger, or one beyond it when the guard is a number.
LEMMA StartIsDue ==
  ASSUME TypeOK, OverInv, RpcAccepts(tip), NEW e \in Decodable,
         LedgerOf[e] < OverlapStart(tip)
  PROVE  Due(e)
<1>1. /\ guard.ledger \in Nat /\ OverlapWindow \in Nat /\ DueBelow(Behind(guard))
      /\ LedgerOf[e] \in Nat /\ LedgerOf[e] >= 1
  BY EventNumbers, IndexerAssumption, Bounds DEF OverInv, TypeOK
<1>2. CASE RollsBack(tip)
  <2>1. LedgerOf[e] < guard.ledger
    BY <1>1, <1>2 DEF OverlapStart, Floor1
  <2>2. LedgerOf[e] < Behind(guard)
    BY <1>1, <2>1 DEF Behind
  <2> QED  BY <1>1, <2>2 DEF DueBelow
<1>3. CASE ~RollsBack(tip)
  <2>1. Behind(guard) = guard.ledger + 1 /\ OverlapStart(tip) = guard.ledger + 1
    BY <1>3 DEF RpcAccepts, Behind, OverlapStart
  <2> QED  BY <1>1, <2>1 DEF DueBelow
<1> QED  BY <1>2, <1>3

\* A node in step with the chain: the first page leaves nothing behind it, and the
\* invocation has all that follows ahead of it.
LEMMA OverInitialPage ==
  ASSUME RpcLag = 0, TypeOK, OverInv, NEW p \in Poll, PollInitialPage(p)
  PROVE  OverInv'
<1> DEFINE i == poll[p]
<1>1. /\ UNCHANGED <<tip, stored, rejected, row, guard>> /\ ~Fetching(i) /\ tip \in Nat
  BY Linked DEF PollInitialPage, Fetching
<1>2. \A latest \in RpcView : latest = tip
  BY <1>1 DEF RpcView
<1>3. CASE Become(p, Resting)
  BY <1>1, <1>3, RestingClaims, StepKeeps DEF Covers
<1>4. CASE Become(p, [i EXCEPT !.pc = "failed"])
  BY <1>1, <1>4, FailedClaims, StepKeeps DEF Covers
<1>5. ASSUME NEW pos \in 0..NumEvents, NEW to \in 0..NumEvents, RpcAccepts(tip),
             EndsBefore(pos, OverlapStart(tip)), IsPage(pos, to, tip),
             Become(p, Fetched(i, pos, to, {}))
      PROVE  OverInv'
  <2>1. PICK r : r = Fetched(i, pos, to, {}) /\ Become(p, r)
    BY <1>5
  <2>2. /\ r.pc = "persist" /\ r.prev = i.prev /\ r.fresh = i.fresh /\ r.seen = {}
        /\ r.after = pos /\ r.next = pos + 1 /\ r.last = to /\ r.processed = 0
        /\ poll'[p] = r
    BY <2>1, BecomeIs, Linked DEF Fetched, Invocation
  <2>3. /\ i.prev <= tip /\ (i.fresh => i.prev = 0)
        /\ pos \in Nat /\ to \in Nat /\ pos <= to
    BY <1>5, Bounds DEF OverInv, Place, IsPage
  <2>4. to \in Event => LedgerOf[to] <= tip
    <3> SUFFICES ASSUME to \in Event PROVE LedgerOf[to] <= tip
      OBVIOUS
    <3>1. LedgerOf[to] \in Nat
      BY Chain, Bounds
    <3>2. CASE pos < to
      BY <1>5, <3>2 DEF IsPage
    <3>3. CASE pos = to
      <4>1. LedgerOf[to] < OverlapStart(tip) /\ OverlapStart(tip) <= tip
        BY <1>5, <2>3, <3>3 DEF EndsBefore, RpcAccepts
      <4>2. OverlapStart(tip) \in Nat
        BY Linked, IndexerAssumption DEF OverlapStart, Floor1, TypeOK
      <4> QED  BY <1>1, <3>1, <4>1, <4>2
    <3> QED  BY <2>3, <3>2, <3>3
  <2>5. r.after <= r.last /\ r.after < r.next /\ r.next <= r.last + 1 /\ ~(r.processed > 0)
    BY <2>2, <2>3
  <2>6. Place(poll[p])'
    BY <1>1, <2>2, <2>3, <2>4, <2>5 DEF Place, Fetching
  <2>7. ASSUME NEW e \in Decodable, e < r.next PROVE Due(e)'
    <3>1. e \in Event /\ e \in Nat /\ LedgerOf[e] \in Nat
      BY EventNumbers
    <3>2. e <= pos
      BY <2>2, <2>3, <2>7, <3>1
    <3>3. LedgerOf[e] < OverlapStart(tip)
      BY <1>5, <3>1, <3>2 DEF EndsBefore
    <3>4. Due(e)
      BY <1>5, <3>3, StartIsDue
    <3>5. LedgerOf[e] <= tip
      <4>1. OverlapStart(tip) \in Nat /\ OverlapStart(tip) <= tip
        BY <1>5, Linked, IndexerAssumption DEF OverlapStart, Floor1, TypeOK, RpcAccepts
      <4> QED  BY <1>1, <3>1, <3>3, <4>1
    <3> QED  BY <1>1, <2>1, <3>4, <3>5, DueKept DEF Covers
  <2>8. Claims(poll[p])'
    BY <2>2, <2>7 DEF Claims, Fetching
  <2> QED  BY <1>1, <2>1, <2>6, <2>8, StepKeeps DEF Covers
<1>6. \/ Become(p, Resting)
      \/ Become(p, [i EXCEPT !.pc = "failed"])
      \/ \E pos, to \in 0..NumEvents :
           /\ RpcAccepts(tip) /\ EndsBefore(pos, OverlapStart(tip)) /\ IsPage(pos, to, tip)
           /\ Become(p, Fetched(i, pos, to, {}))
  BY <1>2 DEF PollInitialPage
<1> QED  BY <1>3, <1>4, <1>5, <1>6

\* No upsert throws, so the event left behind is stored or undecodable.
LEMMA OverPersistEvent ==
  ASSUME TypeOK, OverInv, NEW p \in Poll, PersistEvent(p), faults' = faults
  PROVE  OverInv'
<1> DEFINE i == poll[p]
<1>1. /\ UNCHANGED <<tip, row, guard, rejected>> /\ stored \subseteq stored'
      /\ i.pc = "persist" /\ i.next <= i.last
      /\ i.next \in Decodable => i.next \in stored'
  BY DEF PersistEvent, Fault, TypeOK, Decodable
<1>2. PICK r : /\ Become(p, r)
               /\ \/ r = [i EXCEPT !.next = i.next + 1]
                  \/ r = [i EXCEPT !.next = i.next + 1, !.processed = @ + 1]
  BY DEF PersistEvent
<1>3. /\ r.pc = "persist" /\ r.prev = i.prev /\ r.fresh = i.fresh /\ r.seen = i.seen
      /\ r.after = i.after /\ r.next = i.next + 1 /\ r.last = i.last
      /\ poll'[p] = r
  BY <1>1, <1>2, BecomeIs, Linked DEF Invocation
<1>5. /\ i.prev <= tip /\ (i.fresh => i.prev = 0) /\ i.after <= i.last
      /\ \A x \in i.seen : x <= i.after
      /\ i.last \in Event => LedgerOf[i.last] <= tip
      /\ \A e \in Decodable : e < i.next => Due(e)
  BY <1>1 DEF OverInv, Place, Claims, Fetching
<1>6. i.next \in Nat /\ i.last \in Nat /\ i.after \in Nat
  BY Linked
<1>7. Place(poll[p])'
  <2>1. i.after < i.next /\ i.next <= i.last
    BY <1>1 DEF OverInv, Place, Fetching
  <2>2. i.after < i.last /\ i.after < r.next /\ r.next <= r.last + 1
    BY <1>3, <1>6, <2>1
  <2> QED  BY <1>1, <1>3, <1>5, <2>2 DEF Place, Fetching
<1>8. \A e \in Decodable : LedgerOf[e] <= tip /\ Covers(i, e) => Covers(r, e) \/ e \in stored'
  <2> SUFFICES ASSUME NEW e \in Decodable, Covers(i, e) PROVE Covers(r, e) \/ e \in stored'
    OBVIOUS
  <2>1. e \in Nat /\ (e = i.next \/ i.next + 1 <= e)
    BY <1>6, EventNumbers DEF Covers
  <2> QED  BY <1>1, <1>3, <2>1 DEF Covers, Fetching
<1>9. ASSUME NEW e \in Decodable, e < i.next + 1 PROVE Due(e)'
  <2>1. e \in Nat /\ (e < i.next \/ e = i.next)
    BY <1>6, <1>9, EventNumbers
  <2>2. CASE e = i.next
    BY <1>1, <2>2 DEF Due
  <2>3. CASE e < i.next
    <3>1. Due(e) /\ e \in Event /\ LedgerOf[e] \in Nat
      BY <1>5, <2>3, EventNumbers
    <3>2. e <= i.last
      BY <1>1, <1>6, <2>1, <2>3
    <3>4. LedgerOf[e] <= tip
      BY <1>5, <3>1, <3>2, Linked, EarlierIsOlder
    <3> QED  BY <1>1, <1>2, <1>8, <3>1, <3>4, DueKept
  <2> QED  BY <2>1, <2>2, <2>3
<1>10. Claims(poll[p])'
  BY <1>3, <1>9 DEF Claims, Fetching
<1> QED  BY <1>1, <1>2, <1>7, <1>8, <1>10, StepKeeps

LEMMA OverEndPage ==
  ASSUME TypeOK, OverInv, NEW p \in Poll, EndPage(p)
  PROVE  OverInv'
<1> DEFINE i == poll[p]
           h == HighestLedger(p)
<1>1. /\ UNCHANGED <<tip, stored, rejected, row, guard>>
      /\ i.pc = "persist" /\ i.next > i.last
  BY DEF EndPage
<1>2. /\ i.prev <= tip /\ (i.fresh => i.prev = 0) /\ i.after <= i.last
      /\ i.after < i.next /\ i.next <= i.last + 1
      /\ (i.processed > 0 => i.after < i.last)
      /\ (\A x \in i.seen : x <= i.after)
      /\ (i.last \in Event => LedgerOf[i.last] <= tip)
      /\ \A e \in Decodable : e < i.next => Due(e)
  BY <1>1 DEF OverInv, Place, Claims, Fetching
<1>3. /\ i.next \in Nat /\ i.last \in Nat /\ i.after \in Nat /\ i.prev \in Nat
      /\ i.last \in 0..NumEvents
  BY Linked
<1>4. i.next = i.last + 1
  BY <1>1, <1>2, <1>3
<1>5. ASSUME h > i.prev PROVE i.after < i.last
  BY <1>3, <1>5 DEF HighestLedger
<1>6. i.after < i.last => h <= tip
  <2> SUFFICES ASSUME i.after < i.last PROVE h <= tip
    OBVIOUS
  <2>1. i.last \in Event
    BY <1>3 DEF Event
  <2>2. h = i.prev \/ h = LedgerOf[i.last]
    BY DEF HighestLedger, Bigger
  <2> QED  BY <1>2, <2>1, <2>2
<1>7. PICK r : /\ Become(p, r)
               /\ \/ /\ r = [i EXCEPT !.pc = "save", !.snap = row, !.highest = h]
                     /\ i.processed > 0 \/ h > i.prev
                  \/ r = [i EXCEPT !.pc = "drain"]
  BY DEF EndPage
<1>8. /\ r.prev = i.prev /\ r.fresh = i.fresh /\ r.seen = i.seen /\ r.after = i.after
      /\ r.next = i.next /\ r.last = i.last /\ r.processed = i.processed
      /\ poll'[p] = r
  BY <1>7, BecomeIs, Linked DEF Invocation
<1>9. \/ r.pc = "save" /\ r.highest = h /\ i.after < i.last
      \/ r.pc = "drain"
  <2> HIDE DEF h
  <2> QED  BY <1>2, <1>5, <1>7, Linked DEF Invocation
<1>10. Place(poll[p])'
  <2> HIDE DEF h
  <2> QED  BY <1>1, <1>2, <1>4, <1>6, <1>8, <1>9 DEF Place, Fetching
<1>11. \A e \in Decodable : LedgerOf[e] <= tip /\ Covers(i, e) => Covers(r, e)
  BY <1>8, <1>9 DEF Covers, Fetching
<1>12. ASSUME NEW e \in Decodable, e < i.next PROVE Due(e)'
  <2>1. Due(e) /\ e \in Event /\ e \in Nat /\ LedgerOf[e] \in Nat
    BY <1>2, <1>12, EventNumbers
  <2>2. e <= i.last
    BY <1>3, <1>4, <1>12, <2>1
  <2>4. LedgerOf[e] <= tip
    BY <1>2, <1>3, <2>1, <2>2, EarlierIsOlder
  <2> QED  BY <1>1, <1>7, <1>11, <2>1, <2>4, DueKept
<1>13. Claims(poll[p])'
  BY <1>8, <1>9, <1>12 DEF Claims, Fetching
<1> QED  BY <1>1, <1>7, <1>10, <1>11, <1>13, StepKeeps

\* After a save every event is due: the saver has the rest of the chain ahead of it.
LEMMA OverSaveProgress ==
  ASSUME TypeOK, OverInv, NEW p \in Poll, SaveProgress(p), poll'[p].pc # "failed"
  PROVE  OverInv'
<1> DEFINE i == poll[p]
<1>1. UNCHANGED <<tip, stored, rejected>> /\ i.pc = "save"
  BY DEF SaveProgress
<1>2. ~Become(p, [i EXCEPT !.pc = "failed"])
  <2> SUFFICES ASSUME Become(p, [i EXCEPT !.pc = "failed"]) PROVE FALSE
    OBVIOUS
  <2>1. poll'[p] = [i EXCEPT !.pc = "failed"]
    BY BecomeIs
  <2> QED  BY <2>1, Linked DEF Invocation
<1>3. row'.ledger = i.highest /\ guard' = Updated(i.highest)
  BY <1>2 DEF SaveProgress
<1>4. PICK r : r = [i EXCEPT !.pc = "drain"] /\ Become(p, r)
  BY <1>2 DEF SaveProgress
<1>5. /\ r.prev = i.prev /\ r.fresh = i.fresh /\ r.seen = i.seen /\ r.after = i.after
      /\ r.next = i.next /\ r.last = i.last /\ r.processed = i.processed
      /\ r.pc = "drain" /\ poll'[p] = r
  BY <1>4, BecomeIs, Linked DEF Invocation
<1>6. /\ i.prev <= tip /\ (i.fresh => i.prev = 0) /\ i.after < i.last /\ i.highest <= tip
      /\ i.next = i.last + 1 /\ i.after <= i.last /\ i.after < i.next /\ i.next <= i.last + 1
      /\ (i.processed > 0 => i.after < i.last)
      /\ (\A x \in i.seen : x <= i.after)
      /\ (i.last \in Event => LedgerOf[i.last] <= tip)
      /\ \A e \in Decodable : e < i.next => Due(e)
  BY <1>1 DEF OverInv, Place, Claims, Fetching
<1>7. Place(poll[p])'
  BY <1>1, <1>5, <1>6 DEF Place, Fetching
<1>8. i.last \in Nat /\ i.after \in Nat /\ i.next \in Nat /\ i.seen \subseteq Nat
  BY Linked
<1>9. i.last \notin i.seen
  BY <1>6, <1>8
<1>10. \A e : Covers(i, e) => Covers(r, e)
  BY <1>5 DEF Covers, Fetching
<1>11. ASSUME NEW e \in Decodable PROVE Due(e)'
  <2>1. e \in Event /\ e \in Nat /\ LedgerOf[e] \in Nat
    BY EventNumbers
  <2>2. CASE e < i.next
    <3>1. e <= i.last
      BY <1>6, <1>8, <2>1, <2>2
    <3>3. LedgerOf[e] <= tip /\ Due(e)
      BY <1>6, <2>1, <2>2, <3>1, Linked, EarlierIsOlder
    <3> QED  BY <1>1, <1>4, <1>10, <3>3, DueKept
  <2>3. CASE i.next <= e
    <3>1. Covers(r, e)
      BY <1>5, <1>9, <2>3 DEF Covers, Fetching
    <3> QED  BY <1>5, <3>1 DEF Due, Covers, Fetching
  <2> QED  BY <1>8, <2>1, <2>2, <2>3
<1>12. Claims(poll[p])'
  BY <1>5, <1>11 DEF Claims, Fetching
<1>13. row'.ledger <= tip /\ DueBelow(row.ledger)'
  BY <1>3, <1>6, <1>11 DEF DueBelow
<1>14. guard'.ledger <= tip /\ DueBelow(Behind(guard))'
  BY <1>3, <1>6, <1>11 DEF DueBelow, Updated, OverInv
<1> QED  BY <1>1, <1>4, <1>7, <1>10, <1>12, <1>13, <1>14, StepKeeps

\* An empty page ends the drain, but then what follows is younger than the tip.
LEMMA OverDrainPage ==
  ASSUME RpcLag = 0, TypeOK, OverInv, NEW p \in Poll, DrainPage(p)
  PROVE  OverInv'
<1> DEFINE i == poll[p]
<1>1. /\ UNCHANGED <<tip, stored, rejected, row, guard>>
      /\ i.pc = "drain" /\ i.last \notin i.seen /\ tip \in Nat
  BY Linked DEF DrainPage
<1>2. \A view \in RpcView : view = tip
  BY <1>1 DEF RpcView
<1>3. PICK to \in 0..NumEvents :
        /\ IsPage(i.last, to, tip)
        /\ Become(p, Fetched(i, i.last, to, i.seen \cup {i.last}))
  BY <1>2 DEF DrainPage
<1>4. PICK r : r = Fetched(i, i.last, to, i.seen \cup {i.last}) /\ Become(p, r)
  BY <1>3
<1>5. /\ r.pc = "persist" /\ r.prev = i.prev /\ r.fresh = i.fresh
      /\ r.seen = i.seen \cup {i.last} /\ r.after = i.last /\ r.next = i.last + 1
      /\ r.last = to /\ r.processed = 0 /\ poll'[p] = r
  BY <1>4, BecomeIs, Linked DEF Fetched, Invocation
<1>6. /\ i.prev <= tip /\ (i.fresh => i.prev = 0) /\ i.after <= i.last
      /\ i.next = i.last + 1
      /\ (\A x \in i.seen : x <= i.after)
      /\ (i.last \in Event => LedgerOf[i.last] <= tip)
      /\ \A e \in Decodable : e < i.next => Due(e)
  BY <1>1 DEF OverInv, Place, Claims, Fetching
<1>7. /\ i.last \in Nat /\ i.after \in Nat /\ i.seen \subseteq Nat /\ to \in Nat
      /\ i.last <= to /\ i.last \in 0..NumEvents
  BY <1>3, Linked, Bounds DEF IsPage
<1>8. to \in Event => LedgerOf[to] <= tip
  <2>1. CASE i.last < to
    BY <1>3, <2>1 DEF IsPage
  <2>2. CASE i.last = to
    BY <1>6, <2>2
  <2> QED  BY <1>7, <2>1, <2>2
<1>9. \A x \in r.seen : x <= i.last
  BY <1>5, <1>6, <1>7
<1>10. r.after <= r.last /\ r.after < r.next /\ r.next <= r.last + 1 /\ ~(r.processed > 0)
  BY <1>5, <1>7
<1>11. Place(poll[p])'
  BY <1>1, <1>5, <1>6, <1>8, <1>9, <1>10 DEF Place, Fetching
<1>12. ASSUME NEW e \in Decodable, LedgerOf[e] <= tip, Covers(i, e) PROVE Covers(r, e)
  <2>1. e \in Event /\ e \in Nat /\ LedgerOf[e] \in Nat /\ i.last + 1 <= e
    BY <1>6, <1>12, EventNumbers DEF Covers
  <2>2. CASE to = i.last
    <3>1. to # i.last + PageSize
      BY <1>7, <2>2, IndexerAssumption
    <3>2. LedgerOf[e] > tip
      BY <1>3, <1>7, <2>1, <2>2, <3>1 DEF IsPage
    <3> QED  BY <1>1, <1>12, <2>1, <3>2
  <2>3. CASE i.last < to
    <3>1. to \notin r.seen
      BY <1>5, <1>7, <1>9, <2>3
    <3> QED  BY <1>5, <2>1, <3>1 DEF Covers, Fetching
  <2> QED  BY <1>7, <2>2, <2>3
<1>13. ASSUME NEW e \in Decodable, e < i.last + 1 PROVE Due(e)'
  <2>1. e \in Event /\ e \in Nat /\ Due(e)
    BY <1>6, <1>13, EventNumbers
  <2>2. e <= i.last
    BY <1>7, <1>13, <2>1
  <2>3. LedgerOf[e] <= tip
    BY <1>6, <1>7, <2>1, <2>2, EarlierIsOlder
  <2> QED  BY <1>1, <1>4, <1>12, <2>1, <2>3, DueKept
<1>14. Claims(poll[p])'
  BY <1>5, <1>13 DEF Claims, Fetching
<1> QED  BY <1>1, <1>4, <1>11, <1>12, <1>14, StepKeeps

LEMMA OverEndDrain ==
  ASSUME TypeOK, OverInv, NEW p \in Poll, EndDrain(p)
  PROVE  OverInv'
<1>1. /\ UNCHANGED <<tip, stored, rejected, row, guard>> /\ Become(p, Resting)
      /\ poll[p].last \in poll[p].seen
  BY DEF EndDrain
<1> QED  BY <1>1, RestingClaims, StepKeeps DEF Covers

LEMMA InitOverInv == Init => OverInv
<1> SUFFICES ASSUME Init PROVE OverInv
  OBVIOUS
<1>1. row.ledger = 0 /\ guard.ledger = 0 /\ guard.text /\ tip = 1
  BY DEF Init, NoRow
<1>2. \A p \in Poll : poll[p].pc = "idle" /\ poll[p].prev = 0
  BY DEF Init, Resting
<1>3. \A e \in Decodable : ~(LedgerOf[e] < 0)
  BY EventNumbers
<1> QED  BY <1>1, <1>2, <1>3 DEF OverInv, DueBelow, Behind, Place, Claims, Fetching

LEMMA NextOverInv ==
  ASSUME RpcLag = 0, TypeOK, OverInv, [Next]_vars, [CallSucceeds]_vars
  PROVE  OverInv'
<1>1. CASE CloseLedger \/ UNCHANGED vars
  <2>1. /\ UNCHANGED <<stored, rejected, row, guard, poll>>
        /\ tip \in Nat /\ tip' \in Nat /\ tip <= tip'
    BY <1>1, Bounds DEF CloseLedger, TypeOK, vars
  <2>2. \A e \in Decodable : Due(e) => Due(e)'
    BY <2>1 DEF Due, Covers, Fetching
  <2>3. \A p \in Poll : Place(poll[p])' /\ Claims(poll[p])'
    BY <2>1, <2>2, BystanderKept
  <2>4. row'.ledger <= tip' /\ guard'.ledger <= tip'
    BY <2>1, Bounds DEF OverInv, TypeOK, Row
  <2>5. DueBelow(row.ledger)' /\ DueBelow(Behind(guard))'
    BY <2>1, <2>2 DEF OverInv, DueBelow, Behind
  <2> QED  BY <2>3, <2>4, <2>5 DEF OverInv
<1>2. CASE ~UNCHANGED vars /\ Restart
  BY <1>2 DEF CallSucceeds, Restart, Fault, TypeOK
<1>3. ASSUME NEW p \in Poll, PollStep(p), ~UNCHANGED vars PROVE OverInv'
  <2>1. faults' = faults /\ (poll[p].pc = "save" => poll'[p].pc # "failed")
    BY <1>3 DEF CallSucceeds
  <2>2. ~CallRejects(p)
    BY <2>1 DEF CallRejects, Fault, TypeOK
  <2>3. SaveProgress(p) => poll[p].pc = "save"
    BY DEF SaveProgress
  <2> QED
    BY <1>3, <2>1, <2>2, <2>3, OverReadCursor, OverCreateCursor, OverSetGuard,
       OverInitialPage, OverPersistEvent, OverEndPage, OverSaveProgress, OverDrainPage,
       OverEndDrain, OverErrorPath
    DEF PollStep
<1> QED  BY <1>1, <1>2, <1>3 DEF Next

\* However many invocations overlap, once none is in flight nothing below the saved
\* cursor is missing: when the node is in step with the chain and no call has
\* rejected, no counter has overflowed and the process was not restarted (pollOnce,
\* drainPages, recordProgress, setCursor and updateCursor of the shared guard).
THEOREM IndexerIdleCursorSkipsNothing ==
  ASSUME RpcLag = 0 PROVE Spec /\ CallsSucceed => []IdleCursorSkipsNothing
<1>1. OverInv => IdleCursorSkipsNothing
  <2> SUFFICES ASSUME OverInv, \A p \in Poll : poll[p].pc = "idle",
                      NEW e \in Decodable, LedgerOf[e] < row.ledger
               PROVE  e \in stored \cup rejected
    BY DEF IdleCursorSkipsNothing, Accounted
  <2>1. Due(e)
    BY DEF OverInv, DueBelow
  <2>2. \A p \in Poll : ~Covers(poll[p], e)
    BY DEF Covers, Fetching
  <2> QED  BY <2>1, <2>2 DEF Due
<1>2. TypeOK /\ OverInv /\ [Next]_vars /\ [CallSucceeds]_vars => OverInv'
  BY NextOverInv
<1> QED
  BY <1>1, <1>2, InitOverInv, IndexerTypeOK, PTL DEF Spec, CallsSucceed

=============================================================================
