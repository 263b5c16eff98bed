------------------------ MODULE EventProjectorProofs ------------------------
(***************************************************************************)
(* Proofs about EventProjector for any number of events, writers, runners  *)
(* and faults, any batch size and any settle time.                         *)
(***************************************************************************)
EXTENDS EventProjector, FiniteSetTheorems, WellFoundedInduction, TLAPS

LEMMA Parameters ==
  /\ IsFiniteSet(Event) /\ MaxSeq \in Nat /\ MaxTime \in Nat /\ MaxFaults \in Nat
  /\ BatchSize \in Nat /\ BatchSize > 0 /\ Settle \in Nat /\ MaxInsert \in Nat
  BY ProjectorAssumption

\* A nonempty set of bounded naturals has a maximum, and Max finds it.
LEMMA MaxOfBounded ==
  ASSUME NEW n \in Nat, NEW S, S \subseteq 0..n, S # {}
  PROVE  Max(S) \in S /\ \A x \in S : x <= Max(S)
<1> DEFINE T == {n - x : x \in S}
<1>1. T \subseteq Nat /\ T # {}
  OBVIOUS
<1>2. PICK t \in T : \A y \in T : ~(<<y, t>> \in OpToRel(<, Nat))
  BY <1>1, NatLessThanWellFounded, WFMin, Zenon
<1>3. \A y \in T : ~(y < t)
  BY <1>1, <1>2 DEF OpToRel
<1>4. PICK m \in S : t = n - m
  OBVIOUS
<1>5. \A x \in S : m >= x
  <2> SUFFICES ASSUME NEW x \in S PROVE m >= x
    OBVIOUS
  <2>1. n - x \in T /\ ~(n - x < n - m)
    BY <1>3, <1>4
  <2> QED  BY <2>1
<1>6. \E x \in S : \A y \in S : x >= y
  BY <1>5
<1> QED  BY <1>6 DEF Max

\* The last event of a batch read after seq s: at or after s, and after every
\* event of the batch.
LEMMA LastOfIsLast ==
  ASSUME TypeOK, NEW batch \in SUBSET Event, NEW s \in 0..MaxSeq
  PROVE  /\ LastOf(batch, s) \in 0..MaxSeq /\ s <= LastOf(batch, s)
         /\ \A e \in batch : row[e].seq <= LastOf(batch, s)
         /\ LastOf(batch, s) = s \/ \E e \in batch : LastOf(batch, s) = row[e].seq
<1> DEFINE S == {s} \cup {row[e].seq : e \in batch}
<1>1. S \subseteq 0..MaxSeq /\ S # {}
  BY DEF TypeOK
<1>2. Max(S) \in S /\ \A x \in S : x <= Max(S)
  BY <1>1, Parameters, MaxOfBounded
<1>3. LastOf(batch, s) = Max(S)
  BY DEF LastOf
<1> HIDE DEF S
<1>4. s \in S /\ \A e \in batch : row[e].seq \in S
  BY DEF S
<1>5. Max(S) = s \/ \E e \in batch : Max(S) = row[e].seq
  BY <1>2 DEF S
<1> QED  BY <1>1, <1>2, <1>3, <1>4, <1>5

LEMMA NextBatchType == \A s : NextBatch(s) \in SUBSET Event
  BY DEF NextBatch, Settled

LEMMA BatchSizeOf ==
  ASSUME NEW batch \in SUBSET Event
  PROVE  Cardinality(batch) \in Nat
  BY Parameters, FS_Subset, FS_CardinalityType

LEMMA NoRunType == NoRun \in Run /\ [NoRun EXCEPT !.pc = "lock"] \in Run
<1>1. [seq |-> 0, applied |-> 0] \in Checkpoint
  BY Parameters DEF Checkpoint
<1>2. NoRun \in Run
  BY <1>1 DEF NoRun, Run
<1> QED  BY <1>2 DEF Run

LEMMA InitTypeOK == Init => TypeOK
<1> SUFFICES ASSUME Init PROVE TypeOK
  OBVIOUS
<1>1. row \in [Event -> [seq : 0..MaxSeq, at : 0..MaxTime]]
  BY Parameters DEF Init, NoRow
<1>2. checkpoint \in Checkpoint /\ counted \in [Event -> Nat]
  BY Parameters DEF Init, Checkpoint
<1>3. writer \in [Writer -> Insert \cup {NoInsert}]
  BY DEF Init
<1>4. run \in [Runner -> Run]
  BY NoRunType DEF Init
<1> QED  BY <1>1, <1>2, <1>3, <1>4, Parameters DEF Init, TypeOK

LEMMA WriterTypeOK ==
  ASSUME TypeOK, NEW w \in Writer, WriterStep(w) PROVE TypeOK'
<1>1. ASSUME NEW e \in Event, BeginInsert(w, e) PROVE TypeOK'
  <2>1. [pc |-> "begun", event |-> e, at |-> now, seq |-> 0] \in Insert
    BY Parameters DEF Insert, TypeOK
  <2> QED  BY <1>1, <2>1 DEF BeginInsert, TypeOK
<1>2. CASE DrawSeq(w)
  <2>1. writer[w] \in Insert
    BY <1>2 DEF DrawSeq, TypeOK, NoInsert
  <2>2. lastSeq + 1 \in 0..MaxSeq
    BY <1>2, Parameters DEF DrawSeq, TypeOK
  <2>3. [writer[w] EXCEPT !.pc = "inserted", !.seq = lastSeq + 1] \in Insert
    BY <2>1, <2>2 DEF Insert
  <2>4. writer' = [writer EXCEPT
           ![w] = [writer[w] EXCEPT !.pc = "inserted", !.seq = lastSeq + 1]]
    BY <1>2 DEF DrawSeq, TypeOK
  <2> QED  BY <1>2, <2>2, <2>3, <2>4 DEF DrawSeq, TypeOK
<1>3. CASE CommitInsert(w)
  <2>1. writer[w] \in Insert
    BY <1>3 DEF CommitInsert, TypeOK, NoInsert
  <2>2. [seq |-> writer[w].seq, at |-> writer[w].at] \in [seq : 0..MaxSeq, at : 0..MaxTime]
    BY <2>1 DEF Insert
  <2>3. row' \in [Event -> [seq : 0..MaxSeq, at : 0..MaxTime]]
    BY <1>3, <2>2 DEF CommitInsert, TypeOK
  <2> QED  BY <1>3, <2>3 DEF CommitInsert, TypeOK
<1>4. CASE AbortInsert(w)
  BY <1>4 DEF AbortInsert, TypeOK
<1> QED  BY <1>1, <1>2, <1>3, <1>4 DEF WriterStep

LEMMA RunnerTypeOK ==
  ASSUME TypeOK, NEW r \in Runner, RunnerStep(r) PROVE TypeOK'
<1>0. run[r] \in Run /\ run[r].ckpt \in Checkpoint /\ run[r].batch \in SUBSET Event
      /\ checkpoint \in Checkpoint
  BY DEF TypeOK, Run
<1>1. CASE StartRun(r)
  <2>1. \A b \in BOOLEAN : [NoRun EXCEPT !.pc = "lock", !.rebuild = b] \in Run
    BY NoRunType DEF Run
  <2> QED  BY <1>1, <2>1 DEF StartRun, TypeOK
<1>2. CASE TakeLock(r)
  <2> DEFINE c == IF run[r].rebuild THEN [seq |-> 0, applied |-> 0] ELSE checkpoint
  <2>1. c \in Checkpoint
    BY <1>0, Parameters DEF Checkpoint
  <2> HIDE DEF c
  <2>2. [run[r] EXCEPT !.pc = "batch", !.batch = {}, !.ckpt = c] \in Run
    BY <1>0, <2>1 DEF Run
  <2>3. run' = [run EXCEPT ![r] = [run[r] EXCEPT !.pc = "batch", !.batch = {}, !.ckpt = c]]
    BY <1>2 DEF TakeLock, TypeOK, c
  <2> QED  BY <1>2, <2>2, <2>3 DEF TakeLock, TypeOK
<1>3. CASE ApplyBatch(r)
  <2> DEFINE new == NextBatch(run[r].ckpt.seq)
             c == [seq |-> LastOf(new, run[r].ckpt.seq),
                   applied |-> run[r].ckpt.applied + Cardinality(new)]
             pc == IF run[r].rebuild /\ Cardinality(new) >= BatchSize
                   THEN "batch" ELSE "commit"
  <2>1. new \in SUBSET Event
    BY NextBatchType
  <2>2. c \in Checkpoint
    <3>1. run[r].ckpt.seq \in 0..MaxSeq /\ run[r].ckpt.applied \in Nat
      BY <1>0 DEF Checkpoint
    <3>2. LastOf(new, run[r].ckpt.seq) \in 0..MaxSeq
      BY <2>1, <3>1, LastOfIsLast
    <3>3. Cardinality(new) \in Nat
      BY <2>1, BatchSizeOf
    <3> QED  BY <3>1, <3>2, <3>3 DEF Checkpoint
  <2>3. run' = [run EXCEPT ![r] =
           [run[r] EXCEPT !.pc = pc, !.batch = run[r].batch \cup new, !.ckpt = c]]
    BY <1>3 DEF ApplyBatch, TypeOK
  <2>4. pc \in {"batch", "commit"} /\ run[r].batch \cup new \in SUBSET Event
    BY <1>0, <2>1
  <2> HIDE DEF new, c, pc
  <2>5. [run[r] EXCEPT !.pc = pc, !.batch = run[r].batch \cup new, !.ckpt = c] \in Run
    BY <1>0, <2>2, <2>4 DEF Run
  <2> QED  BY <1>3, <2>3, <2>5, ZenonT(60) DEF ApplyBatch, TypeOK
<1>4. CASE CommitRun(r)
  <2>1. counted' \in [Event -> Nat]
    BY <1>4 DEF CommitRun, TypeOK
  <2>2. run' \in [Runner -> Run]
    BY <1>4, NoRunType DEF CommitRun, TypeOK
  <2> QED  BY <1>0, <1>4, <2>1, <2>2 DEF CommitRun, TypeOK
<1>5. CASE RunFails(r)
  BY <1>5, NoRunType, Parameters DEF RunFails, TypeOK
<1> QED  BY <1>1, <1>2, <1>3, <1>4, <1>5 DEF RunnerStep

LEMMA NextTypeOK == TypeOK /\ [Next]_vars => TypeOK'
<1> SUFFICES ASSUME TypeOK, [Next]_vars PROVE TypeOK'
  OBVIOUS
<1>1. CASE Tick
  BY <1>1, Parameters DEF Tick, TypeOK
<1>2. CASE UNCHANGED vars
  BY <1>2 DEF vars, TypeOK
<1> QED  BY <1>1, <1>2, WriterTypeOK, RunnerTypeOK DEF Next

\* Type correctness, for any writers and runners.
THEOREM ProjectorTypeOK == Spec => []TypeOK
  BY InitTypeOK, NextTypeOK, PTL DEF Spec

----------------------------------------------------------------------------
(***************************************************************************)
(* At most once.  A run that holds the lock has only applied rows beyond   *)
(* the published checkpoint (beyond 0 for a rebuild) and at or before its  *)
(* own; and one run at most holds the lock.                                *)
(***************************************************************************)

Holds(t) == t.pc \in {"batch", "commit"}

RunInv(t) ==
    Holds(t) =>
      /\ ~t.rebuild => checkpoint.seq <= t.ckpt.seq
      /\ \A e \in t.batch : /\ row[e].seq \in 1..t.ckpt.seq
                            /\ ~t.rebuild => row[e].seq > checkpoint.seq

OneHolder == \A r, q \in Runner : Holds(run[r]) /\ Holds(run[q]) => r = q

LockInv == AtMostOnce /\ OneHolder /\ \A r \in Runner : RunInv(run[r])

LEMMA Numbers ==
  ASSUME TypeOK
  PROVE  /\ checkpoint.seq \in Nat
         /\ \A e \in Event : /\ row[e].seq \in Nat /\ row[e].at \in Nat
                             /\ counted[e] \in Nat
         /\ \A r \in Runner : /\ run[r].ckpt.seq \in 0..MaxSeq
                              /\ run[r].ckpt.seq \in Nat
                              /\ run[r].batch \in SUBSET Event
         /\ now \in Nat /\ lastSeq \in Nat
  BY Parameters DEF TypeOK, Checkpoint, Run

LEMMA InitLockInv == Init => LockInv
  BY Parameters DEF Init, LockInv, AtMostOnce, OneHolder, RunInv, Holds, NoRun, NoRow

\* Where the runs and the published state stay, and a row is only ever added.
LEMMA RowsOnlyAdded ==
  ASSUME TypeOK, LockInv, UNCHANGED <<checkpoint, counted, run>>,
         \A e \in Event : row[e].seq # 0 => row'[e] = row[e]
  PROVE  LockInv'
<1>1. AtMostOnce'
  <2> SUFFICES ASSUME NEW e \in Event
               PROVE  counted[e] <= (IF row'[e].seq \in 1..checkpoint.seq THEN 1 ELSE 0)
    BY DEF AtMostOnce
  <2>1. /\ counted[e] <= (IF row[e].seq \in 1..checkpoint.seq THEN 1 ELSE 0)
        /\ counted[e] \in Nat /\ checkpoint.seq \in Nat /\ row[e].seq \in Nat
    BY Numbers DEF LockInv, AtMostOnce
  <2>2. CASE row[e].seq = 0
    <3>1. counted[e] = 0
      BY <2>1, <2>2
    <3> QED  BY <3>1
  <2>3. CASE row[e].seq # 0
    BY <2>1, <2>3
  <2> QED  BY <2>2, <2>3
<1>2. OneHolder'
  BY DEF LockInv, OneHolder
<1>3. \A r \in Runner : RunInv(run[r])'
  <2> SUFFICES ASSUME NEW r \in Runner, Holds(run[r]) PROVE RunInv(run[r])'
    BY DEF RunInv
  <2>1. RunInv(run[r]) /\ run[r].batch \subseteq Event
    BY Numbers DEF LockInv
  <2>2. \A e \in run[r].batch : row'[e] = row[e]
    <3> SUFFICES ASSUME NEW e \in run[r].batch PROVE row'[e] = row[e]
      OBVIOUS
    <3>1. row[e].seq \in 1..run[r].ckpt.seq
      BY <2>1 DEF RunInv
    <3>2. run[r].ckpt.seq \in Nat
      BY Numbers
    <3>3. row[e].seq # 0
      BY <3>1, <3>2
    <3> QED  BY <2>1, <3>3
  <2> QED  BY <2>1, <2>2 DEF RunInv
<1> QED  BY <1>1, <1>2, <1>3 DEF LockInv

LEMMA CommitAddsRow ==
  ASSUME TypeOK, NEW w \in Writer, CommitInsert(w)
  PROVE  \A e \in Event : row[e].seq # 0 => row'[e] = row[e]
  BY DEF CommitInsert, TypeOK

LEMMA WriterLockInv ==
  ASSUME TypeOK, LockInv, NEW w \in Writer, WriterStep(w)
  PROVE  LockInv'
<1>1. CASE CommitInsert(w)
  BY <1>1, CommitAddsRow, RowsOnlyAdded DEF CommitInsert
<1>2. CASE (\E e \in Event : BeginInsert(w, e)) \/ DrawSeq(w) \/ AbortInsert(w)
  BY <1>2, RowsOnlyAdded DEF BeginInsert, DrawSeq, AbortInsert
<1> QED  BY <1>1, <1>2 DEF WriterStep

\* A run goes on, or lets go of the lock, without publishing.
LEMMA RunMoves ==
  ASSUME TypeOK, LockInv, NEW r \in Runner, NEW t,
         run' = [run EXCEPT ![r] = t], UNCHANGED <<row, checkpoint, counted>>,
         Holds(t) => \A q \in Runner : Holds(run[q]) => q = r,
         RunInv(t)
  PROVE  LockInv'
<1>1. \A q \in Runner : run'[q] = IF q = r THEN t ELSE run[q]
  BY DEF TypeOK
<1>2. AtMostOnce'
  BY DEF LockInv, AtMostOnce
<1>3. OneHolder'
  BY <1>1 DEF LockInv, OneHolder
<1>4. \A q \in Runner : RunInv(run[q])'
  BY <1>1 DEF LockInv, RunInv
<1> QED  BY <1>2, <1>3, <1>4 DEF LockInv

LEMMA RunnerLockInv ==
  ASSUME TypeOK, LockInv, NEW r \in Runner, RunnerStep(r)
  PROVE  LockInv'
<1>0. run[r] \in Run /\ RunInv(run[r]) /\ run[r].ckpt.seq \in Nat
      /\ run[r].ckpt.seq \in 0..MaxSeq
  BY Numbers DEF TypeOK, LockInv
<1>1. CASE StartRun(r)
  <2>1. PICK b \in BOOLEAN :
          run' = [run EXCEPT ![r] = [NoRun EXCEPT !.pc = "lock", !.rebuild = b]]
    BY <1>1 DEF StartRun
  <2>2. ~Holds([NoRun EXCEPT !.pc = "lock", !.rebuild = b])
    BY DEF Holds, NoRun
  <2> QED  BY <1>1, <2>1, <2>2, RunMoves DEF StartRun, RunInv
<1>2. CASE TakeLock(r)
  <2> DEFINE c == IF run[r].rebuild THEN [seq |-> 0, applied |-> 0] ELSE checkpoint
             t == [run[r] EXCEPT !.pc = "batch", !.batch = {}, !.ckpt = c]
  <2>1. run' = [run EXCEPT ![r] = t]
    BY <1>2 DEF TakeLock, TypeOK
  <2>2. t.batch = {} /\ t.ckpt = c /\ t.rebuild = run[r].rebuild
    BY <1>0 DEF Run
  <2>3. RunInv(t)
    BY <2>2, Numbers DEF RunInv
  <2>4. \A q \in Runner : Holds(run[q]) => q = r
    BY <1>2 DEF TakeLock, Locked, Holds
  <2> HIDE DEF t
  <2> QED  BY <1>2, <2>1, <2>3, <2>4, RunMoves DEF TakeLock
<1>3. CASE ApplyBatch(r)
  <2> DEFINE s == run[r].ckpt.seq
             new == NextBatch(s)
             pc == IF run[r].rebuild /\ Cardinality(new) >= BatchSize
                   THEN "batch" ELSE "commit"
             c == [seq |-> LastOf(new, s),
                   applied |-> run[r].ckpt.applied + Cardinality(new)]
             t == [run[r] EXCEPT !.pc = pc, !.batch = run[r].batch \cup new, !.ckpt = c]
  <2>1. run' = [run EXCEPT ![r] = t]
    BY <1>3 DEF ApplyBatch, TypeOK
  <2>2. t.batch = run[r].batch \cup new /\ t.ckpt.seq = LastOf(new, s)
        /\ t.rebuild = run[r].rebuild
    BY <1>0 DEF Run
  <2>3. Holds(run[r])
    BY <1>3 DEF ApplyBatch, Holds
  <2>4. LastOf(new, s) \in Nat /\ s <= LastOf(new, s)
        /\ \A e \in new : row[e].seq <= LastOf(new, s)
    BY <1>0, NextBatchType, LastOfIsLast, Parameters
  <2>5. \A e \in new : e \in Event /\ row[e].seq > s
    BY DEF NextBatch, Settled
  <2>6. /\ ~run[r].rebuild => checkpoint.seq <= s
        /\ \A e \in run[r].batch : /\ row[e].seq \in 1..s
                                   /\ ~run[r].rebuild => row[e].seq > checkpoint.seq
    BY <1>0, <2>3 DEF RunInv
  <2> HIDE DEF s, new, t
  <2>7. s \in Nat /\ run[r].batch \subseteq Event
    BY <1>0 DEF s, Run
  <2>8. ~t.rebuild => checkpoint.seq <= t.ckpt.seq
    BY <2>2, <2>4, <2>6, <2>7, Numbers
  <2>9. ASSUME NEW e \in t.batch
        PROVE  /\ row[e].seq \in 1..t.ckpt.seq
               /\ ~t.rebuild => row[e].seq > checkpoint.seq
    <3>1. CASE e \in new
      BY <2>2, <2>4, <2>5, <2>6, <2>7, <3>1, Numbers
    <3>2. CASE e \in run[r].batch
      <4>1. /\ row[e].seq \in 1..s
            /\ ~run[r].rebuild => row[e].seq > checkpoint.seq
        BY <2>6, <3>2
      <4>2. row[e].seq \in 1..LastOf(new, s)
        BY <2>4, <2>7, <4>1
      <4> QED  BY <2>2, <4>1, <4>2
    <3>3. e \in new \/ e \in run[r].batch
      BY <2>2, <2>9
    <3> QED  BY <3>1, <3>2, <3>3
  <2>10. RunInv(t)
    BY <2>8, <2>9 DEF RunInv
  <2>11. \A q \in Runner : Holds(run[q]) => q = r
    BY <2>3 DEF LockInv, OneHolder
  <2> QED  BY <1>3, <2>1, <2>10, <2>11, RunMoves DEF ApplyBatch
<1>4. CASE CommitRun(r)
  <2> DEFINE t == run[r]
  <2>1. Holds(t)
    BY <1>4 DEF CommitRun, Holds
  <2>2. \A q \in Runner : Holds(run[q]) => q = r
    BY <2>1 DEF LockInv, OneHolder
  <2>3. /\ checkpoint' = t.ckpt /\ row' = row
        /\ counted' = [e \in Event |->
             (IF t.rebuild THEN 0 ELSE counted[e]) + (IF e \in t.batch THEN 1 ELSE 0)]
    BY <1>4 DEF CommitRun
  <2>4. AtMostOnce'
    <3> SUFFICES ASSUME NEW e \in Event
                 PROVE  counted'[e] <= (IF row[e].seq \in 1..t.ckpt.seq THEN 1 ELSE 0)
      BY <2>3 DEF AtMostOnce
    <3>1. counted'[e] =
            (IF t.rebuild THEN 0 ELSE counted[e]) + (IF e \in t.batch THEN 1 ELSE 0)
      BY <2>3
    <3>2. /\ counted[e] <= (IF row[e].seq \in 1..checkpoint.seq THEN 1 ELSE 0)
          /\ counted[e] \in Nat /\ row[e].seq \in Nat /\ checkpoint.seq \in Nat
          /\ t.ckpt.seq \in Nat
      BY Numbers DEF LockInv, AtMostOnce
    <3>0. RunInv(t)
      BY <1>0
    <3> HIDE DEF t
    <3>3. /\ ~t.rebuild => checkpoint.seq <= t.ckpt.seq
          /\ e \in t.batch => /\ row[e].seq \in 1..t.ckpt.seq
                              /\ ~t.rebuild => row[e].seq > checkpoint.seq
      BY <2>1, <3>0 DEF RunInv
    <3>4. CASE e \in t.batch
      <4>1. row[e].seq \in 1..t.ckpt.seq
        BY <3>3, <3>4
      <4>2. t.rebuild \/ counted[e] = 0
        BY <3>2, <3>3, <3>4
      <4> QED  BY <3>1, <3>4, <4>1, <4>2
    <3>5. CASE e \notin t.batch
      <4>1. CASE t.rebuild
        BY <3>1, <3>5, <4>1
      <4>2. CASE ~t.rebuild
        BY <3>1, <3>2, <3>3, <3>5, <4>2
      <4> QED  BY <4>1, <4>2
    <3> QED  BY <3>4, <3>5
  <2>5. \A q \in Runner : ~Holds(run'[q])
    <3>1. \A q \in Runner : q # r => run'[q] = run[q]
      BY <1>4 DEF CommitRun, TypeOK
    <3>2. run'[r] \in {NoRun, [NoRun EXCEPT !.pc = "lock"]}
      BY <1>4 DEF CommitRun, TypeOK
    <3>3. ~Holds(run'[r])
      BY <3>2 DEF Holds, NoRun
    <3> QED  BY <2>2, <3>1, <3>3
  <2> QED  BY <2>4, <2>5 DEF LockInv, OneHolder, RunInv, Holds
<1>5. CASE RunFails(r)
  <2>1. ~Holds(NoRun)
    BY DEF Holds, NoRun
  <2> QED  BY <1>5, <2>1, RunMoves DEF RunFails, RunInv
<1> QED  BY <1>1, <1>2, <1>3, <1>4, <1>5 DEF RunnerStep

LEMMA NextLockInv == TypeOK /\ LockInv /\ [Next]_vars => LockInv'
<1> SUFFICES ASSUME TypeOK, LockInv, [Next]_vars PROVE LockInv'
  OBVIOUS
<1>1. CASE Tick
  BY <1>1, RowsOnlyAdded DEF Tick
<1>2. CASE UNCHANGED vars
  BY <1>2, RowsOnlyAdded DEF vars
<1> QED  BY <1>1, <1>2, WriterLockInv, RunnerLockInv DEF Next

\* No interleaving of catch-ups, rebuilds, failures and concurrent inserts counts
\* an event twice, or counts one the checkpoint does not cover.
THEOREM ProjectorAtMostOnce == Spec => []AtMostOnce
<1>1. LockInv => AtMostOnce
  BY DEF LockInv
<1> QED  BY <1>1, NextLockInv, InitLockInv, ProjectorTypeOK, PTL DEF Spec

----------------------------------------------------------------------------
(***************************************************************************)
(* Exactly once, with one writer.  Then a row commits after every row with *)
(* a lower ingestSeq (Behind: nothing already seen will be overtaken) and  *)
(* never has an earlier indexed_at (TimeOrder), so a settled row has no    *)
(* unsettled one before it and a batch leaves no gap (AppliedAll).         *)
(***************************************************************************)

OneWriter == \A v, w \in Writer : v = w

Inserted(w) == writer[w].pc = "inserted"
Behind(n) == n <= lastSeq /\ \A w \in Writer : Inserted(w) => n < writer[w].seq

SeqOrder ==
    /\ Behind(checkpoint.seq)
    /\ \A r \in Runner : Behind(run[r].ckpt.seq)
    /\ \A e \in Event : Behind(row[e].seq)
    /\ \A w \in Writer : Inserted(w) => writer[w].seq <= lastSeq

TimeOrder ==
    /\ \A e, f \in Event :
         row[e].seq # 0 /\ row[e].seq <= row[f].seq => row[e].at <= row[f].at
    /\ \A w \in Writer, e \in Event :
         writer[w].pc # "out" /\ row[e].seq # 0 => row[e].at <= writer[w].at
    /\ \A e \in Event : row[e].at <= now
    /\ \A w \in Writer : writer[w].pc # "out" => writer[w].at <= now

CountedAll == \A e \in Event : row[e].seq \in 1..checkpoint.seq => counted[e] >= 1

AppliedAll(t) ==
    Holds(t) =>
      \A e \in Event :
        /\ row[e].seq \in 1..t.ckpt.seq
        /\ ~t.rebuild => row[e].seq > checkpoint.seq
        => e \in t.batch

OnceInv == SeqOrder /\ TimeOrder /\ CountedAll /\ \A r \in Runner : AppliedAll(run[r])

LEMMA InitOnceInv == Init => OnceInv
<1> SUFFICES ASSUME Init PROVE OnceInv
  OBVIOUS
<1>1. /\ \A e \in Event : row[e].seq = 0 /\ row[e].at = 0
      /\ \A w \in Writer : writer[w].pc = "out"
      /\ \A r \in Runner : run[r].ckpt.seq = 0 /\ run[r].pc = "idle"
      /\ checkpoint.seq = 0 /\ lastSeq = 0 /\ now = 0
  BY DEF Init, NoRow, NoInsert, NoRun
<1> QED
  BY <1>1 DEF OnceInv, SeqOrder, TimeOrder, CountedAll, AppliedAll, Behind, Inserted, Holds

LEMMA WriterNumbers ==
  ASSUME TypeOK, NEW w \in Writer, writer[w].pc # "out"
  PROVE  /\ writer[w] \in Insert /\ writer[w].seq \in Nat /\ writer[w].at \in Nat
         /\ writer[w].event \in Event
<1>1. writer[w] \in Insert
  BY DEF TypeOK, NoInsert
<1> QED  BY <1>1, Parameters DEF Insert

\* The published state and the runs stay: only the order has to be shown.
LEMMA OrderSuffices ==
  ASSUME UNCHANGED <<row, checkpoint, counted, run>>, OnceInv, SeqOrder', TimeOrder'
  PROVE  OnceInv'
  BY DEF OnceInv, CountedAll, AppliedAll

LEMMA WriterMovesOnce ==
  ASSUME OneWriter, TypeOK, OnceInv, NEW w \in Writer,
         (\E e \in Event : BeginInsert(w, e)) \/ DrawSeq(w) \/ AbortInsert(w)
  PROVE  OnceInv'
<1>0. /\ lastSeq \in Nat /\ now \in Nat /\ checkpoint.seq \in Nat
      /\ \A e \in Event : row[e].seq \in Nat /\ row[e].at \in Nat
      /\ \A r \in Runner : run[r].ckpt.seq \in Nat
  BY Numbers
<1>1. \A v \in Writer : v = w
  BY DEF OneWriter
<1>2. ASSUME NEW e \in Event, BeginInsert(w, e) PROVE OnceInv'
  <2>1. writer'[w] = [pc |-> "begun", event |-> e, at |-> now, seq |-> 0]
        /\ UNCHANGED <<now, lastSeq, row, checkpoint, counted, run>>
    BY <1>2 DEF BeginInsert, TypeOK
  <2>2. writer'[w].pc = "begun" /\ writer'[w].at = now
    BY <2>1
  <2>3. SeqOrder'
    BY <1>1, <2>1, <2>2 DEF OnceInv, SeqOrder, Behind, Inserted
  <2>4. TimeOrder'
    BY <1>0, <1>1, <2>1, <2>2 DEF OnceInv, TimeOrder
  <2> QED  BY <2>1, <2>3, <2>4, OrderSuffices
<1>3. CASE DrawSeq(w)
  <2>1. /\ writer'[w] = [writer[w] EXCEPT !.pc = "inserted", !.seq = lastSeq + 1]
        /\ lastSeq' = lastSeq + 1 /\ writer[w].pc # "out"
        /\ UNCHANGED <<now, row, checkpoint, counted, run>>
    BY <1>3 DEF DrawSeq, TypeOK
  <2>2. /\ writer'[w].pc = "inserted" /\ writer'[w].seq = lastSeq + 1
        /\ writer'[w].at = writer[w].at
    BY <2>1, WriterNumbers DEF Insert
  <2>n. lastSeq \in Nat /\ lastSeq' = lastSeq + 1
        /\ \A v \in Writer : writer'[v].seq = lastSeq + 1
    BY <1>0, <1>1, <2>1, <2>2
  <2>3. \A n \in Nat : n <= lastSeq => Behind(n)'
    BY <2>n DEF Behind
  <2>4. SeqOrder'
    <3>1. checkpoint.seq <= lastSeq /\ (\A r \in Runner : run[r].ckpt.seq <= lastSeq)
          /\ (\A e \in Event : row[e].seq <= lastSeq)
      BY DEF OnceInv, SeqOrder, Behind
    <3>2. \A v \in Writer : Inserted(v)' => writer'[v].seq <= lastSeq'
      BY <2>n
    <3>3. Behind(checkpoint.seq)'
      BY <1>0, <2>1, <2>3, <3>1
    <3>4. \A r \in Runner : Behind(run[r].ckpt.seq)'
      BY <1>0, <2>1, <2>3, <3>1
    <3>5. \A e \in Event : Behind(row[e].seq)'
      BY <1>0, <2>1, <2>3, <3>1
    <3> QED  BY <3>2, <3>3, <3>4, <3>5 DEF SeqOrder
  <2>5. TimeOrder'
    BY <1>1, <2>1, <2>2 DEF OnceInv, TimeOrder
  <2> QED  BY <2>1, <2>4, <2>5, OrderSuffices
<1>4. CASE AbortInsert(w)
  <2>1. writer'[w].pc = "out" /\ UNCHANGED <<now, lastSeq, row, checkpoint, counted, run>>
    BY <1>4 DEF AbortInsert, TypeOK, NoInsert
  <2>2. SeqOrder'
    BY <1>1, <2>1 DEF OnceInv, SeqOrder, Behind, Inserted
  <2>3. TimeOrder'
    BY <1>1, <2>1 DEF OnceInv, TimeOrder
  <2> QED  BY <2>1, <2>2, <2>3, OrderSuffices
<1> QED  BY <1>2, <1>3, <1>4

\* A row that becomes visible is beyond everything read so far.
LEMMA CommitInsertOnce ==
  ASSUME OneWriter, TypeOK, OnceInv, NEW w \in Writer, CommitInsert(w)
  PROVE  OnceInv'
<1> DEFINE i == writer[w]
           e == i.event
<1>0. /\ lastSeq \in Nat /\ now \in Nat /\ checkpoint.seq \in Nat
      /\ \A f \in Event : row[f].seq \in Nat /\ row[f].at \in Nat
      /\ \A r \in Runner : run[r].ckpt.seq \in Nat
  BY Numbers
<1>1. \A v \in Writer : v = w
  BY DEF OneWriter
<1>2. Inserted(w) /\ i.pc # "out"
  BY DEF CommitInsert, Inserted
<1>3. e \in Event /\ i.seq \in Nat /\ i.at \in Nat
  BY <1>2, WriterNumbers
<1>4. /\ writer'[w].pc = "out"
      /\ UNCHANGED <<now, lastSeq, checkpoint, counted, run>>
      /\ \A f \in Event : f # e => row'[f] = row[f]
      /\ row'[e] = row[e] \/ (row'[e].seq = i.seq /\ row'[e].at = i.at)
  BY DEF CommitInsert, TypeOK, NoInsert
<1>5. \A n \in Nat : n <= lastSeq => Behind(n)'
  BY <1>1, <1>4 DEF Behind, Inserted
<1>6. /\ checkpoint.seq <= lastSeq /\ checkpoint.seq < i.seq
      /\ \A r \in Runner : run[r].ckpt.seq <= lastSeq /\ run[r].ckpt.seq < i.seq
      /\ \A f \in Event : row[f].seq <= lastSeq /\ row[f].seq < i.seq
      /\ i.seq <= lastSeq
  BY <1>2 DEF OnceInv, SeqOrder, Behind
<1>7. /\ \A f, g \in Event :
           row[f].seq # 0 /\ row[f].seq <= row[g].seq => row[f].at <= row[g].at
      /\ \A f \in Event : row[f].seq # 0 => row[f].at <= i.at
      /\ \A f \in Event : row[f].at <= now
      /\ i.at <= now
  BY <1>2 DEF OnceInv, TimeOrder
<1> HIDE DEF e, i
<1>8. SeqOrder'
  <2>1. \A f \in Event : row'[f].seq \in Nat /\ row'[f].seq <= lastSeq
    BY <1>0, <1>3, <1>4, <1>6
  <2>2. Behind(checkpoint.seq)' /\ \A r \in Runner : Behind(run[r].ckpt.seq)'
    BY <1>0, <1>4, <1>5, <1>6
  <2>3. \A f \in Event : Behind(row[f].seq)'
    BY <1>4, <1>5, <2>1
  <2>4. \A v \in Writer : ~Inserted(v)'
    BY <1>1, <1>4 DEF Inserted
  <2> QED  BY <2>2, <2>3, <2>4 DEF SeqOrder
<1>9. TimeOrder'
  <2>1. ASSUME NEW f \in Event, NEW g \in Event,
               row'[f].seq # 0, row'[f].seq <= row'[g].seq
        PROVE  row'[f].at <= row'[g].at
    <3>1. CASE row'[e] = row[e]
      BY <1>4, <1>7, <2>1, <3>1
    <3>2. CASE row'[e].seq = i.seq /\ row'[e].at = i.at
      <4>1. CASE f = e
        <5>1. g = e
          BY <1>0, <1>3, <1>4, <1>6, <2>1, <3>2, <4>1
        <5> QED  BY <1>3, <3>2, <4>1, <5>1
      <4>2. CASE f # e /\ g = e
        BY <1>4, <1>7, <2>1, <3>2, <4>2
      <4>3. CASE f # e /\ g # e
        BY <1>4, <1>7, <2>1, <4>3
      <4> QED  BY <4>1, <4>2, <4>3
    <3> QED  BY <1>4, <3>1, <3>2
  <2>2. \A f \in Event : row'[f].at <= now'
    BY <1>4, <1>7
  <2>3. \A v \in Writer : writer'[v].pc = "out"
    BY <1>1, <1>4
  <2> QED  BY <2>1, <2>2, <2>3 DEF TimeOrder
<1>10. \A f \in Event, n \in Nat :
         n < i.seq /\ row'[f].seq \in 1..n => row'[f] = row[f]
  BY <1>3, <1>4
<1>11. CountedAll'
  BY <1>0, <1>4, <1>6, <1>10 DEF OnceInv, CountedAll
<1>12. \A r \in Runner : AppliedAll(run[r])'
  <2> SUFFICES ASSUME NEW r \in Runner, Holds(run[r]), NEW f \in Event,
                      row'[f].seq \in 1..run[r].ckpt.seq,
                      ~run[r].rebuild => row'[f].seq > checkpoint.seq
               PROVE  f \in run[r].batch
    BY <1>4 DEF AppliedAll
  <2>1. row'[f] = row[f]
    BY <1>0, <1>6, <1>10
  <2> QED  BY <2>1 DEF OnceInv, AppliedAll
<1> QED  BY <1>8, <1>9, <1>11, <1>12 DEF OnceInv

\* A batch takes every row between the checkpoint it was read from and its last
\* event: they are all settled, and there is room for them.
LEMMA BatchLeavesNoGap ==
  ASSUME TypeOK, TimeOrder, NEW s \in Nat, NEW e \in Event, NEW f \in NextBatch(s),
         s < row[e].seq, row[e].seq <= row[f].seq
  PROVE  e \in NextBatch(s)
<1> DEFINE Before(g) == {h \in Settled(s) : row[h].seq < row[g].seq}
<1>1. f \in Event /\ row[f].at + Settle <= now /\ Cardinality(Before(f)) < BatchSize
  BY DEF NextBatch, Settled
<1>2. /\ row[e].seq \in Nat /\ row[f].seq \in Nat /\ row[e].at \in Nat
      /\ row[f].at \in Nat /\ now \in Nat /\ Settle \in Nat
      /\ \A h \in Event : row[h].seq \in Nat
  BY <1>1, Numbers, Parameters
<1>3. row[e].at <= row[f].at
  BY <1>1, <1>2 DEF TimeOrder
<1>4. e \in Settled(s)
  BY <1>1, <1>2, <1>3 DEF Settled
<1>5. Before(e) \subseteq Before(f) /\ Before(f) \subseteq Event
  BY <1>1, <1>2 DEF Settled
<1> HIDE DEF Before
<1>6. IsFiniteSet(Before(f))
  BY <1>5, Parameters, FS_Subset
<1>7. Cardinality(Before(e)) <= Cardinality(Before(f)) /\ IsFiniteSet(Before(e))
  BY <1>5, <1>6, FS_Subset
<1>8. Cardinality(Before(e)) < BatchSize
  <2>1. Cardinality(Before(e)) \in Nat /\ Cardinality(Before(f)) \in Nat
    BY <1>6, <1>7, FS_CardinalityType
  <2> QED  BY <1>1, <1>7, <2>1, Parameters
<1> QED  BY <1>4, <1>8 DEF NextBatch, Before

\* A run moves without publishing.
LEMMA RunMovesOnce ==
  ASSUME TypeOK, OnceInv, NEW r \in Runner, NEW t,
         run' = [run EXCEPT ![r] = t],
         UNCHANGED <<now, lastSeq, row, writer, checkpoint, counted>>,
         Behind(t.ckpt.seq), AppliedAll(t)
  PROVE  OnceInv'
<1>1. \A q \in Runner : run'[q] = IF q = r THEN t ELSE run[q]
  BY DEF TypeOK
<1>2. SeqOrder'
  BY <1>1 DEF OnceInv, SeqOrder, Behind, Inserted
<1>3. TimeOrder'
  BY DEF OnceInv, TimeOrder
<1>4. CountedAll'
  BY DEF OnceInv, CountedAll
<1>5. \A q \in Runner : AppliedAll(run[q])'
  BY <1>1 DEF OnceInv, AppliedAll
<1> QED  BY <1>2, <1>3, <1>4, <1>5 DEF OnceInv

LEMMA BehindZero == ASSUME TypeOK, OnceInv PROVE Behind(0)
<1>1. checkpoint.seq \in Nat /\ lastSeq \in Nat
      /\ \A w \in Writer : Inserted(w) => writer[w].seq \in Nat
  BY Numbers, WriterNumbers DEF Inserted
<1> QED  BY <1>1 DEF OnceInv, SeqOrder, Behind

LEMMA ApplyBatchOnce ==
  ASSUME TypeOK, OnceInv, NEW r \in Runner, ApplyBatch(r)
  PROVE  OnceInv'
<1> DEFINE s == run[r].ckpt.seq
           new == NextBatch(s)
           pc == IF run[r].rebuild /\ Cardinality(new) >= BatchSize
                 THEN "batch" ELSE "commit"
           c == [seq |-> LastOf(new, s),
                 applied |-> run[r].ckpt.applied + Cardinality(new)]
           t == [run[r] EXCEPT !.pc = pc, !.batch = run[r].batch \cup new, !.ckpt = c]
<1>0. run[r] \in Run /\ s \in Nat /\ s \in 0..MaxSeq
  BY Numbers DEF TypeOK
<1>1. run' = [run EXCEPT ![r] = t]
  BY DEF ApplyBatch, TypeOK
<1>2. t.batch = run[r].batch \cup new /\ t.ckpt.seq = LastOf(new, s)
      /\ t.rebuild = run[r].rebuild
  BY <1>0 DEF Run
<1>3. /\ LastOf(new, s) \in Nat
      /\ LastOf(new, s) = s \/ \E f \in new : LastOf(new, s) = row[f].seq
  BY <1>0, NextBatchType, LastOfIsLast, Parameters
<1>4. Holds(run[r]) /\ AppliedAll(run[r]) /\ Behind(s) /\ new \subseteq Event
  BY NextBatchType DEF ApplyBatch, Holds, OnceInv, SeqOrder
<1> HIDE DEF s, new, t
<1>5. Behind(t.ckpt.seq)
  BY <1>2, <1>3, <1>4 DEF OnceInv, SeqOrder
<1>6. AppliedAll(t)
  <2> SUFFICES ASSUME NEW e \in Event, row[e].seq \in 1..t.ckpt.seq,
                      ~t.rebuild => row[e].seq > checkpoint.seq
               PROVE  e \in t.batch
    BY DEF AppliedAll
  <2>0. row[e].seq \in Nat /\ row[e].seq >= 1 /\ row[e].seq <= LastOf(new, s)
    BY <1>2, <1>3
  <2>1. CASE row[e].seq <= s
    <3>1. row[e].seq \in 1..run[r].ckpt.seq
      BY <1>0, <2>0, <2>1 DEF s
    <3>2. ~run[r].rebuild => row[e].seq > checkpoint.seq
      BY <1>2
    <3>3. e \in run[r].batch
      BY <1>4, <3>1, <3>2 DEF AppliedAll
    <3> QED  BY <1>2, <3>3
  <2>2. CASE s < row[e].seq
    <3>1. PICK f \in new : LastOf(new, s) = row[f].seq
      BY <1>0, <1>3, <2>0, <2>2
    <3>2. e \in NextBatch(s)
      BY <1>0, <2>0, <2>2, <3>1, BatchLeavesNoGap DEF new, OnceInv
    <3> QED  BY <1>2, <3>2 DEF new
  <2> QED  BY <1>0, <2>0, <2>1, <2>2
<1> QED  BY <1>1, <1>5, <1>6, RunMovesOnce DEF ApplyBatch

LEMMA CommitRunOnce ==
  ASSUME TypeOK, LockInv, OnceInv, NEW r \in Runner, CommitRun(r)
  PROVE  OnceInv'
<1> DEFINE t == run[r]
<1>1. /\ Holds(t) /\ checkpoint' = t.ckpt /\ UNCHANGED <<now, lastSeq, row, writer>>
      /\ counted' = [e \in Event |->
           (IF t.rebuild THEN 0 ELSE counted[e]) + (IF e \in t.batch THEN 1 ELSE 0)]
  BY DEF CommitRun, Holds
<1>2. \A q \in Runner : q # r => run'[q] = run[q]
  BY DEF CommitRun, TypeOK
<1>3. run'[r] \in {NoRun, [NoRun EXCEPT !.pc = "lock"]}
  BY DEF CommitRun, TypeOK
<1>4. run'[r].ckpt.seq = 0 /\ ~Holds(run'[r])
  BY <1>3 DEF NoRun, Holds
<1>5. Behind(0)
  BY BehindZero
<1>6. SeqOrder'
  BY <1>1, <1>2, <1>4, <1>5 DEF OnceInv, SeqOrder, Behind, Inserted
<1>7. TimeOrder'
  BY <1>1 DEF OnceInv, TimeOrder
<1>8. CountedAll'
  <2> SUFFICES ASSUME NEW e \in Event, row[e].seq \in 1..t.ckpt.seq
               PROVE  counted'[e] >= 1
    BY <1>1 DEF CountedAll
  <2>1. counted'[e] =
          (IF t.rebuild THEN 0 ELSE counted[e]) + (IF e \in t.batch THEN 1 ELSE 0)
    BY <1>1
  <2>2. counted[e] \in Nat /\ checkpoint.seq \in Nat /\ t.ckpt.seq \in Nat
    BY Numbers
  <2>3. AppliedAll(t) /\ CountedAll
    BY DEF OnceInv
  <2> HIDE DEF t
  <2>4. CASE e \in t.batch
    <3>1. (IF t.rebuild THEN 0 ELSE counted[e]) \in Nat
      BY <2>2
    <3> QED  BY <2>1, <2>4, <3>1
  <2>5. CASE e \notin t.batch
    <3>1. ~t.rebuild /\ ~(row[e].seq > checkpoint.seq)
      BY <1>1, <2>3, <2>5 DEF AppliedAll
    <3>2. counted[e] >= 1
      BY <2>2, <2>3, <3>1 DEF CountedAll
    <3> QED  BY <2>1, <2>2, <2>5, <3>1, <3>2
  <2> QED  BY <2>4, <2>5
<1>9. \A q \in Runner : AppliedAll(run[q])'
  <2>1. \A q \in Runner : ~Holds(run'[q])
    BY <1>1, <1>2, <1>4 DEF LockInv, OneHolder
  <2> QED  BY <2>1 DEF AppliedAll, Holds
<1> QED  BY <1>6, <1>7, <1>8, <1>9 DEF OnceInv

LEMMA RunnerOnce ==
  ASSUME TypeOK, LockInv, OnceInv, NEW r \in Runner, RunnerStep(r)
  PROVE  OnceInv'
<1>1. CASE StartRun(r)
  <2>1. PICK b \in BOOLEAN :
          run' = [run EXCEPT ![r] = [NoRun EXCEPT !.pc = "lock", !.rebuild = b]]
    BY <1>1 DEF StartRun
  <2> DEFINE t == [NoRun EXCEPT !.pc = "lock", !.rebuild = b]
  <2>2. ~Holds(t) /\ t.ckpt.seq = 0
    BY DEF Holds, NoRun
  <2> HIDE DEF t
  <2>3. AppliedAll(t) /\ Behind(t.ckpt.seq)
    BY <2>2, BehindZero DEF AppliedAll
  <2>4. run' = [run EXCEPT ![r] = t]
    BY <2>1 DEF t
  <2> QED  BY <1>1, <2>3, <2>4, RunMovesOnce DEF StartRun
<1>2. CASE TakeLock(r)
  <2> DEFINE c == IF run[r].rebuild THEN [seq |-> 0, applied |-> 0] ELSE checkpoint
             t == [run[r] EXCEPT !.pc = "batch", !.batch = {}, !.ckpt = c]
  <2>1. run' = [run EXCEPT ![r] = t]
    BY <1>2 DEF TakeLock, TypeOK
  <2>2. t.ckpt = c /\ t.rebuild = run[r].rebuild
    BY DEF TypeOK, Run
  <2>3. Behind(c.seq)
    BY BehindZero DEF OnceInv, SeqOrder
  <2>4. AppliedAll(t)
    <3>1. CASE run[r].rebuild
      BY <2>2, <3>1 DEF AppliedAll
    <3>2. CASE ~run[r].rebuild
      <4> SUFFICES ASSUME NEW e \in Event, row[e].seq \in 1..checkpoint.seq,
                          row[e].seq > checkpoint.seq
                   PROVE  FALSE
        BY <2>2, <3>2 DEF AppliedAll
      <4> QED  BY Numbers
    <3> QED  BY <3>1, <3>2
  <2> HIDE DEF t
  <2> QED  BY <1>2, <2>1, <2>2, <2>3, <2>4, RunMovesOnce DEF TakeLock
<1>3. CASE ApplyBatch(r)
  BY <1>3, ApplyBatchOnce
<1>4. CASE CommitRun(r)
  BY <1>4, CommitRunOnce
<1>5. CASE RunFails(r)
  <2>1. ~Holds(NoRun) /\ NoRun.ckpt.seq = 0
    BY DEF Holds, NoRun
  <2>2. AppliedAll(NoRun) /\ Behind(NoRun.ckpt.seq)
    BY <2>1, BehindZero DEF AppliedAll
  <2> QED  BY <1>5, <2>2, RunMovesOnce DEF RunFails
<1> QED  BY <1>1, <1>2, <1>3, <1>4, <1>5 DEF RunnerStep

LEMMA NextOnceInv ==
  ASSUME OneWriter, TypeOK, LockInv, OnceInv, [Next]_vars
  PROVE  OnceInv'
<1>1. CASE Tick
  <2>1. now' = now + 1 /\ now \in Nat
        /\ UNCHANGED <<lastSeq, row, writer, checkpoint, counted, run>>
    BY <1>1, Numbers DEF Tick
  <2>2. SeqOrder'
    BY <2>1 DEF OnceInv, SeqOrder, Behind, Inserted
  <2>3. TimeOrder'
    <3>1. \A e \in Event : row[e].at \in Nat /\ row[e].at <= now
      BY Numbers DEF OnceInv, TimeOrder
    <3>2. \A w \in Writer : writer[w].pc # "out" =>
            writer[w].at \in Nat /\ writer[w].at <= now
      BY WriterNumbers DEF OnceInv, TimeOrder
    <3>3. /\ \A e \in Event : row[e].at <= now'
          /\ \A w \in Writer : writer[w].pc # "out" => writer[w].at <= now'
      BY <2>1, <3>1, <3>2
    <3> QED  BY <2>1, <3>3 DEF OnceInv, TimeOrder
  <2> QED  BY <2>1, <2>2, <2>3, OrderSuffices
<1>2. ASSUME NEW w \in Writer, WriterStep(w) PROVE OnceInv'
  BY <1>2, WriterMovesOnce, CommitInsertOnce DEF WriterStep
<1>3. ASSUME NEW r \in Runner, RunnerStep(r) PROVE OnceInv'
  BY <1>3, RunnerOnce
<1>4. CASE UNCHANGED vars
  <2>1. UNCHANGED <<now, lastSeq, row, writer, checkpoint, counted, run>>
    BY <1>4 DEF vars
  <2>2. SeqOrder'
    BY <2>1 DEF OnceInv, SeqOrder, Behind, Inserted
  <2>3. TimeOrder'
    BY <2>1 DEF OnceInv, TimeOrder
  <2> QED  BY <2>1, <2>2, <2>3, OrderSuffices
<1> QED  BY <1>1, <1>2, <1>3, <1>4 DEF Next

\* With one writer, every row at or before the checkpoint is in the counts
\* exactly once, whatever the settle time and however runs interleave.
THEOREM ProjectorExactlyOnce ==
  ASSUME OneWriter PROVE Spec => []ExactlyOnce
<1>1. TypeOK /\ AtMostOnce /\ OnceInv => ExactlyOnce
  <2> SUFFICES ASSUME TypeOK, AtMostOnce, CountedAll, NEW e \in Event
               PROVE  counted[e] = (IF row[e].seq \in 1..checkpoint.seq THEN 1 ELSE 0)
    BY DEF ExactlyOnce, OnceInv
  <2>1. counted[e] \in Nat
    BY Numbers
  <2>2. counted[e] <= (IF row[e].seq \in 1..checkpoint.seq THEN 1 ELSE 0)
    BY DEF AtMostOnce
  <2>3. row[e].seq \in 1..checkpoint.seq => counted[e] >= 1
    BY DEF CountedAll
  <2> QED  BY <2>1, <2>2, <2>3
<1>2. TypeOK /\ LockInv /\ OnceInv /\ [Next]_vars => OnceInv'
  BY NextOnceInv
<1>3. LockInv => AtMostOnce
  BY DEF LockInv
<1> QED
  BY <1>1, <1>2, <1>3, InitLockInv, InitOnceInv, NextLockInv, ProjectorTypeOK, PTL
  DEF Spec

----------------------------------------------------------------------------
(***************************************************************************)
(* What is skipped, with any number of writers.  A batch is the first      *)
(* settled rows after its start, so a row it passes over was unsettled     *)
(* then, or not yet visible; in both cases it is no older than the last of *)
(* the batch.  And what was counted once is counted again by a rebuild,    *)
(* since it was settled before.                                            *)
(***************************************************************************)

SettledRow(e) == row[e].seq # 0 /\ row[e].at + Settle <= now

\* Every sequence number is drawn once, and no insert outlives MaxInsert.
SeqsApart ==
    /\ \A e \in Event : row[e].seq <= lastSeq
    /\ \A e, f \in Event : row[e].seq # 0 /\ row[e].seq = row[f].seq => e = f
    /\ \A w \in Writer : Inserted(w) => writer[w].seq # 0 /\ writer[w].seq <= lastSeq
    /\ \A w \in Writer, e \in Event : Inserted(w) => writer[w].seq # row[e].seq
    /\ \A v, w \in Writer : Inserted(v) /\ Inserted(w) /\ writer[v].seq = writer[w].seq => v = w
    /\ \A w \in Writer : writer[w].pc # "out" => now <= writer[w].at + MaxInsert

\* Checkpoints stand at settled rows, and only those are counted.
Reaches(n) == n = 0 \/ \E e \in Event : row[e].seq = n /\ SettledRow(e)
ReadsSettled ==
    /\ Reaches(checkpoint.seq)
    /\ \A e \in Event : counted[e] >= 1 => SettledRow(e)
    /\ \A r \in Runner : Holds(run[r]) =>
         Reaches(run[r].ckpt.seq) /\ \A e \in run[r].batch : SettledRow(e)

\* A rebuild takes up again what is counted, and all of it before it commits.
Rebuilds(t) ==
    Holds(t) /\ t.rebuild =>
      /\ \A e \in Event : counted[e] >= 1 /\ row[e].seq <= t.ckpt.seq => e \in t.batch
      /\ t.pc = "commit" =>
           checkpoint.seq <= t.ckpt.seq /\ \A e \in Event : counted[e] >= 1 => e \in t.batch

\* Up to n, what is not in S has been overtaken: rows, and inserts not yet visible.
Overtaken(q, at, n) == \E f \in Event : row[f].seq > q /\ row[f].seq <= n /\ row[f].at <= at
Passes(n, S) ==
    /\ \A e \in Event \ S : row[e].seq \in 1..n => Overtaken(row[e].seq, row[e].at, n)
    /\ \A w \in Writer : Inserted(w) /\ writer[w].seq <= n => Overtaken(writer[w].seq, writer[w].at, n)

Counted == {e \in Event : counted[e] >= 1}
Kept(t) == t.batch \cup {e \in Event : ~t.rebuild /\ counted[e] >= 1}
SkipInv ==
    MaxInsert <= Settle =>
      /\ Passes(checkpoint.seq, Counted)
      /\ \A r \in Runner : Holds(run[r]) => Passes(run[r].ckpt.seq, Kept(run[r]))

GapInv == SeqsApart /\ ReadsSettled /\ SkipInv /\ \A r \in Runner : Rebuilds(run[r])

LEMMA InitGapInv == Init => GapInv
<1> SUFFICES ASSUME Init PROVE GapInv
  OBVIOUS
<1>1. /\ \A e \in Event : row[e].seq = 0 /\ counted[e] = 0
      /\ \A w \in Writer : writer[w].pc = "out"
      /\ \A r \in Runner : run[r].pc = "idle"
      /\ checkpoint.seq = 0 /\ lastSeq = 0
  BY DEF Init, NoRow, NoInsert, NoRun
<1>2. SeqsApart
  BY <1>1 DEF SeqsApart, Inserted
<1>3. ReadsSettled
  BY <1>1 DEF ReadsSettled, Reaches, Holds
<1>4. SkipInv
  BY <1>1 DEF SkipInv, Passes, Inserted, Holds
<1>5. \A r \in Runner : Rebuilds(run[r])
  BY <1>1 DEF Rebuilds, Holds
<1> QED  BY <1>2, <1>3, <1>4, <1>5 DEF GapInv

\* The numbers a checkpoint may stand at were drawn.
LEMMA ReachesDrawn ==
  ASSUME TypeOK, SeqsApart, NEW n \in Nat, Reaches(n)
  PROVE  n <= lastSeq
<1>1. lastSeq \in Nat
  BY Numbers
<1> QED  BY <1>1 DEF Reaches, SeqsApart

----------------------------------------------------------------------------
(* Writers *)

\* Nothing is published or read: rows are only added and time passes.
LEMMA GapKept ==
  ASSUME TypeOK, GapInv, UNCHANGED <<checkpoint, counted, run>>, now' \in Nat, now <= now',
         \A e \in Event : row[e].seq # 0 => row'[e] = row[e],
         SeqsApart',
         \A n \in Nat : \A S : n <= lastSeq /\ Passes(n, S) => Passes(n, S)'
  PROVE  GapInv'
<1>0. /\ checkpoint.seq \in Nat /\ now \in Nat /\ Settle \in Nat
      /\ \A e \in Event : row[e].at \in Nat
      /\ \A r \in Runner : run[r].ckpt.seq \in Nat /\ run[r].batch \subseteq Event
  BY Numbers, Parameters
<1>1. \A e \in Event : SettledRow(e) => SettledRow(e)' /\ row'[e] = row[e]
  BY <1>0 DEF SettledRow
<1>2. \A n : Reaches(n) => Reaches(n)'
  BY <1>1 DEF Reaches
<1>3. ReadsSettled'
  BY <1>0, <1>1, <1>2 DEF GapInv, ReadsSettled
<1>4. \A r \in Runner : Rebuilds(run[r])'
  BY <1>1 DEF GapInv, ReadsSettled, Rebuilds
<1>5. SkipInv'
  <2>1. checkpoint.seq <= lastSeq /\ \A r \in Runner : Holds(run[r]) => run[r].ckpt.seq <= lastSeq
    BY <1>0, ReachesDrawn DEF GapInv, ReadsSettled
  <2>2. Counted' = Counted /\ \A r \in Runner : Kept(run[r])' = Kept(run[r])
    BY DEF Counted, Kept
  <2>3. MaxInsert <= Settle => Passes(checkpoint.seq, Counted)'
    <3>1. PICK n, S : n \in Nat /\ n = checkpoint.seq /\ S = Counted /\ n <= lastSeq
      BY <1>0, <2>1
    <3>2. MaxInsert <= Settle => Passes(n, S)'
      BY <3>1 DEF GapInv, SkipInv
    <3>3. n = checkpoint.seq' /\ S = Counted'
      BY <2>2, <3>1
    <3> QED  BY <3>2, <3>3 DEF Passes
  <2>4. ASSUME NEW r \in Runner, MaxInsert <= Settle, Holds(run[r])
        PROVE  Passes(run[r].ckpt.seq, Kept(run[r]))'
    <3>1. PICK n, S : n \in Nat /\ n = run[r].ckpt.seq /\ S = Kept(run[r]) /\ n <= lastSeq
      BY <1>0, <2>1, <2>4
    <3>2. Passes(n, S)'
      BY <2>4, <3>1 DEF GapInv, SkipInv
    <3>3. n = run[r].ckpt.seq' /\ S = Kept(run[r])'
      BY <2>2, <3>1
    <3> QED  BY <3>2, <3>3 DEF Passes
  <2> QED  BY <2>3, <2>4 DEF SkipInv
<1> QED  BY <1>3, <1>4, <1>5 DEF GapInv

\* Time passes, and inserts begin or end without a row.
LEMMA NothingDrawn ==
  ASSUME TypeOK, GapInv, UNCHANGED <<row, lastSeq, checkpoint, counted, run>>, now' \in Nat, now <= now',
         \A v \in Writer : Inserted(v)' => writer'[v] = writer[v] /\ Inserted(v),
         \A v \in Writer : writer'[v].pc # "out" => now' <= writer'[v].at + MaxInsert
  PROVE  GapInv'
<1>1. SeqsApart'
  BY DEF GapInv, SeqsApart
<1>2. \A n \in Nat : \A S : n <= lastSeq /\ Passes(n, S) => Passes(n, S)'
  BY DEF Passes, Overtaken
<1> QED  BY <1>1, <1>2, GapKept

LEMMA DrawSeqGap ==
  ASSUME TypeOK, GapInv, NEW w \in Writer, DrawSeq(w)
  PROVE  GapInv'
<1>1. /\ writer[w].pc = "begun" /\ writer[w] \in Insert /\ lastSeq' = lastSeq + 1
      /\ writer' = [writer EXCEPT ![w] = [writer[w] EXCEPT !.pc = "inserted", !.seq = lastSeq + 1]]
      /\ UNCHANGED <<now, row, checkpoint, counted, run>>
  BY WriterNumbers DEF DrawSeq, TypeOK
<1>2. /\ writer'[w].pc = "inserted" /\ writer'[w].seq = lastSeq + 1 /\ writer'[w].at = writer[w].at
      /\ \A v \in Writer : v # w => writer'[v] = writer[v]
  BY <1>1 DEF Insert, TypeOK
<1>3. /\ lastSeq \in Nat /\ now \in Nat /\ \A e \in Event : row[e].seq \in Nat
      /\ \A v \in Writer : Inserted(v) => writer[v].seq \in Nat
  BY Numbers, WriterNumbers DEF Inserted
<1>4. \A e \in Event : row[e].seq <= lastSeq /\ row[e].seq # lastSeq + 1
  BY <1>3 DEF GapInv, SeqsApart
<1>5. \A v \in Writer : v # w => (Inserted(v)' <=> Inserted(v))
  BY <1>2 DEF Inserted
<1>6. \A v \in Writer : Inserted(v) => writer[v].seq # 0 /\ writer[v].seq <= lastSeq /\ writer[v].seq # lastSeq + 1
  BY <1>3 DEF GapInv, SeqsApart
<1>7. SeqsApart'
  <2>1. \A e \in Event : row'[e].seq <= lastSeq'
    BY <1>1, <1>3, <1>4
  <2>2. \A v \in Writer : Inserted(v)' => writer'[v].seq # 0 /\ writer'[v].seq <= lastSeq'
    BY <1>1, <1>2, <1>3, <1>5, <1>6
  <2>3. \A v \in Writer, e \in Event : Inserted(v)' => writer'[v].seq # row'[e].seq
    BY <1>1, <1>2, <1>4, <1>5 DEF GapInv, SeqsApart
  <2>4. \A u, v \in Writer : Inserted(u)' /\ Inserted(v)' /\ writer'[u].seq = writer'[v].seq => u = v
    BY <1>2, <1>5, <1>6 DEF GapInv, SeqsApart
  <2>5. \A v \in Writer : writer'[v].pc # "out" => now' <= writer'[v].at + MaxInsert
    <3>1. \A v \in Writer : writer[v].pc # "out" => now <= writer[v].at + MaxInsert
      BY DEF GapInv, SeqsApart
    <3> QED  BY <1>1, <1>2, <3>1
  <2>6. \A e, f \in Event : row'[e].seq # 0 /\ row'[e].seq = row'[f].seq => e = f
    BY <1>1 DEF GapInv, SeqsApart
  <2> QED  BY <2>1, <2>2, <2>3, <2>4, <2>5, <2>6 DEF SeqsApart
<1>8. ASSUME NEW n \in Nat, NEW S, n <= lastSeq, Passes(n, S) PROVE Passes(n, S)'
  <2>1. \A v \in Writer : Inserted(v)' /\ writer'[v].seq <= n => Inserted(v) /\ writer'[v] = writer[v]
    BY <1>2, <1>3, <1>5, <1>8
  <2> QED  BY <1>1, <1>8, <2>1 DEF Passes, Overtaken
<1> QED  BY <1>1, <1>3, <1>7, <1>8, GapKept

LEMMA CommitInsertGap ==
  ASSUME TypeOK, GapInv, NEW w \in Writer, CommitInsert(w)
  PROVE  GapInv'
<1> DEFINE i == writer[w]
           e == i.event
<1>1. /\ i \in Insert /\ e \in Event /\ i.seq \in Nat /\ i.at \in Nat /\ Inserted(w)
      /\ UNCHANGED <<now, lastSeq, checkpoint, counted, run>>
      /\ \A f \in Event : f # e => row'[f] = row[f]
      /\ row[e].seq # 0 => row'[e] = row[e]
      /\ row'[e] = row[e] \/ (row[e].seq = 0 /\ row'[e].seq = i.seq /\ row'[e].at = i.at)
      /\ writer'[w].pc = "out" /\ \A v \in Writer : v # w => writer'[v] = writer[v]
  BY WriterNumbers DEF CommitInsert, TypeOK, NoInsert, Inserted
<1>2. /\ now \in Nat /\ lastSeq \in Nat /\ \A f \in Event : row[f].seq \in Nat
  BY Numbers
<1>3. i.seq # 0 /\ i.seq <= lastSeq /\ \A f \in Event : i.seq # row[f].seq
  BY <1>1 DEF GapInv, SeqsApart
<1>4. \A v \in Writer : Inserted(v)' => v # w /\ Inserted(v) /\ writer'[v] = writer[v] /\ writer[v].seq # i.seq
  BY <1>1 DEF Inserted, GapInv, SeqsApart
<1> HIDE DEF e, i
<1>5. SeqsApart'
  <2>1. \A f \in Event : row'[f].seq <= lastSeq'
    BY <1>1, <1>3 DEF GapInv, SeqsApart
  <2>2. \A v \in Writer : Inserted(v)' => writer'[v].seq # 0 /\ writer'[v].seq <= lastSeq'
    BY <1>1, <1>4 DEF GapInv, SeqsApart
  <2>3. \A v \in Writer, f \in Event : Inserted(v)' => writer'[v].seq # row'[f].seq
    BY <1>1, <1>4 DEF GapInv, SeqsApart
  <2>4. \A u, v \in Writer : Inserted(u)' /\ Inserted(v)' /\ writer'[u].seq = writer'[v].seq => u = v
    BY <1>4 DEF GapInv, SeqsApart
  <2>5. \A v \in Writer : writer'[v].pc # "out" => now' <= writer'[v].at + MaxInsert
    BY <1>1 DEF GapInv, SeqsApart
  <2>6. \A f, g \in Event : row'[f].seq # 0 /\ row'[f].seq = row'[g].seq => f = g
    BY <1>1, <1>3 DEF GapInv, SeqsApart
  <2> QED  BY <2>1, <2>2, <2>3, <2>4, <2>5, <2>6 DEF SeqsApart
<1>6. \A f \in Event : row[f].seq # 0 => row'[f] = row[f]
  BY <1>1
<1>7. ASSUME NEW n \in Nat, NEW S, n <= lastSeq, Passes(n, S) PROVE Passes(n, S)'
  <2>1. ASSUME NEW q \in Nat, NEW at, Overtaken(q, at, n) PROVE Overtaken(q, at, n)'
    <3>1. PICK f \in Event : row[f].seq > q /\ row[f].seq <= n /\ row[f].at <= at
      BY <2>1 DEF Overtaken
    <3>2. row'[f] = row[f]
      BY <1>2, <1>6, <3>1
    <3> QED  BY <3>1, <3>2 DEF Overtaken
  <2>2. ASSUME NEW f \in Event \ S, row'[f].seq \in 1..n PROVE Overtaken(row[f].seq, row[f].at, n)'
    <3>1. CASE row'[f] = row[f]
      <4>1. Overtaken(row[f].seq, row[f].at, n)
        BY <1>7, <2>2, <3>1 DEF Passes
      <4>2. PICK q, at : q = row[f].seq /\ at = row[f].at
        OBVIOUS
      <4>3. Overtaken(q, at, n)'
        BY <1>2, <2>1, <4>1, <4>2
      <4> QED  BY <3>1, <4>2, <4>3 DEF Overtaken
    <3>2. CASE f = e /\ row'[e].seq = i.seq /\ row'[e].at = i.at
      <4>1. Overtaken(i.seq, i.at, n)
        BY <1>1, <1>7, <2>2, <3>2 DEF Passes, i
      <4>2. PICK q, at : q = i.seq /\ at = i.at
        OBVIOUS
      <4>3. Overtaken(q, at, n)'
        BY <1>1, <2>1, <4>1, <4>2
      <4> QED  BY <3>2, <4>2, <4>3 DEF Overtaken
    <3> QED  BY <1>1, <3>1, <3>2
  <2>3. ASSUME NEW v \in Writer, Inserted(v)', writer'[v].seq <= n
        PROVE  Overtaken(writer[v].seq, writer[v].at, n)'
    <3>1. Overtaken(writer[v].seq, writer[v].at, n) /\ writer'[v] = writer[v] /\ writer[v].seq \in Nat
      BY <1>4, <1>7, <2>3, WriterNumbers DEF Passes, Inserted
    <3>2. PICK q, at : q = writer[v].seq /\ at = writer[v].at
      OBVIOUS
    <3>3. Overtaken(q, at, n)'
      BY <2>1, <3>1, <3>2
    <3> QED  BY <3>1, <3>2, <3>3 DEF Overtaken
  <2> QED  BY <2>2, <2>3 DEF Passes
<1> QED  BY <1>1, <1>2, <1>5, <1>6, <1>7, GapKept

LEMMA WriterGap ==
  ASSUME TypeOK, GapInv, NEW w \in Writer, WriterStep(w)
  PROVE  GapInv'
<1>0. now \in Nat /\ MaxInsert \in Nat /\ \A v \in Writer : writer[v].pc # "out" => now <= writer[v].at + MaxInsert
  BY Numbers, Parameters DEF GapInv, SeqsApart
<1>1. ASSUME NEW e \in Event, BeginInsert(w, e) PROVE GapInv'
  <2>1. /\ writer'[w].pc = "begun" /\ writer'[w].at = now /\ \A v \in Writer : v # w => writer'[v] = writer[v]
        /\ UNCHANGED <<now, lastSeq, row, checkpoint, counted, run>>
    BY <1>1 DEF BeginInsert, TypeOK
  <2>2. \A v \in Writer : Inserted(v)' => writer'[v] = writer[v] /\ Inserted(v)
    BY <2>1 DEF Inserted
  <2>3. \A v \in Writer : writer'[v].pc # "out" => now' <= writer'[v].at + MaxInsert
    BY <1>0, <2>1
  <2> QED  BY <1>0, <2>1, <2>2, <2>3, NothingDrawn
<1>2. CASE AbortInsert(w)
  <2>1. /\ writer'[w].pc = "out" /\ \A v \in Writer : v # w => writer'[v] = writer[v]
        /\ UNCHANGED <<now, lastSeq, row, checkpoint, counted, run>>
    BY <1>2 DEF AbortInsert, TypeOK, NoInsert
  <2>2. \A v \in Writer : Inserted(v)' => writer'[v] = writer[v] /\ Inserted(v)
    BY <2>1 DEF Inserted
  <2>3. \A v \in Writer : writer'[v].pc # "out" => now' <= writer'[v].at + MaxInsert
    BY <1>0, <2>1
  <2> QED  BY <1>0, <2>1, <2>2, <2>3, NothingDrawn
<1> QED  BY <1>1, <1>2, DrawSeqGap, CommitInsertGap DEF WriterStep

----------------------------------------------------------------------------
(* Runs *)

\* A batch holds the first settled rows after its start ...
LEMMA BatchIsFirst ==
  ASSUME TypeOK, NEW s \in Nat, NEW e \in Settled(s), NEW f \in NextBatch(s), row[e].seq <= row[f].seq
  PROVE  e \in NextBatch(s)
<1> DEFINE Before(g) == {h \in Settled(s) : row[h].seq < row[g].seq}
<1>1. /\ f \in Event /\ Cardinality(Before(f)) < BatchSize /\ e \in Event
      /\ \A h \in Event : row[h].seq \in Nat
  BY Numbers DEF NextBatch, Settled
<1>2. Before(e) \subseteq Before(f) /\ Before(f) \subseteq Event
  BY <1>1 DEF Settled
<1> HIDE DEF Before
<1>3. IsFiniteSet(Before(f))
  BY <1>2, Parameters, FS_Subset
<1>4. Cardinality(Before(e)) <= Cardinality(Before(f)) /\ IsFiniteSet(Before(e))
  BY <1>2, <1>3, FS_Subset
<1>5. Cardinality(Before(e)) \in Nat /\ Cardinality(Before(f)) \in Nat
  BY <1>3, <1>4, FS_CardinalityType
<1>6. Cardinality(Before(e)) < BatchSize
  BY <1>1, <1>4, <1>5, Parameters
<1> QED  BY <1>6 DEF NextBatch, Before

\* ... and all of them when it is short.
LEMMA ShortBatch ==
  ASSUME TypeOK, NEW s \in Nat, Cardinality(NextBatch(s)) < BatchSize
  PROVE  NextBatch(s) = Settled(s)
<1> DEFINE new == NextBatch(s)
           left == Settled(s) \ new
           seqs == {row[e].seq : e \in left}
           Before(g) == {h \in Settled(s) : row[h].seq < row[g].seq}
<1>1. new \subseteq Settled(s) /\ new \subseteq Event /\ IsFiniteSet(new) /\ Cardinality(new) \in Nat
  BY NextBatchType, Parameters, FS_Subset, FS_CardinalityType DEF NextBatch
<1>2. \A h \in Settled(s) : h \in Event /\ row[h].seq \in Nat
  BY Numbers DEF Settled
<1> SUFFICES ASSUME left # {} PROVE FALSE
  BY <1>1
<1>3. seqs \subseteq Nat /\ seqs # {}
  BY <1>2
<1>4. PICK q \in seqs : \A y \in seqs : ~(<<y, q>> \in OpToRel(<, Nat))
  BY <1>3, NatLessThanWellFounded, WFMin, Zenon
<1>5. \A y \in seqs : ~(y < q)
  BY <1>3, <1>4 DEF OpToRel
<1>6. PICK e \in left : row[e].seq = q
  OBVIOUS
<1>7. Before(e) \subseteq new
  <2> SUFFICES ASSUME NEW h \in Settled(s), row[h].seq < row[e].seq, h \notin new PROVE FALSE
    OBVIOUS
  <2>1. row[h].seq \in seqs
    OBVIOUS
  <2> QED  BY <1>5, <1>6, <2>1
<1> HIDE DEF new
<1>8. Cardinality(Before(e)) <= Cardinality(new) /\ IsFiniteSet(Before(e))
  BY <1>1, <1>7, FS_Subset
<1>9. Cardinality(Before(e)) \in Nat
  BY <1>8, FS_CardinalityType
<1> HIDE DEF Before
<1>10. Cardinality(Before(e)) < BatchSize
  BY <1>1, <1>8, <1>9, Parameters DEF new
<1> QED  BY <1>10 DEF NextBatch, Before, new

\* A run goes on, or lets go of the lock, without publishing.
LEMMA RunMovesGap ==
  ASSUME TypeOK, GapInv, NEW r \in Runner, NEW t, run' = [run EXCEPT ![r] = t],
         UNCHANGED <<now, lastSeq, row, writer, checkpoint, counted>>,
         Holds(t) => /\ Reaches(t.ckpt.seq) /\ \A e \in t.batch : SettledRow(e)
                     /\ MaxInsert <= Settle => Passes(t.ckpt.seq, Kept(t)),
         Rebuilds(t)
  PROVE  GapInv'
<1>1. \A q \in Runner : run'[q] = IF q = r THEN t ELSE run[q]
  BY DEF TypeOK
<1>2. SeqsApart'
  BY DEF GapInv, SeqsApart, Inserted
<1>3. ReadsSettled'
  BY <1>1 DEF GapInv, ReadsSettled, Reaches, SettledRow
<1>4. \A q \in Runner : Rebuilds(run[q])'
  BY <1>1 DEF GapInv, Rebuilds
<1>5. SkipInv'
  BY <1>1 DEF GapInv, SkipInv, Passes, Overtaken, Inserted, Kept, Counted
<1> QED  BY <1>2, <1>3, <1>4, <1>5 DEF GapInv

LEMMA TakeLockGap ==
  ASSUME TypeOK, GapInv, NEW r \in Runner, TakeLock(r)
  PROVE  GapInv'
<1> DEFINE c == IF run[r].rebuild THEN [seq |-> 0, applied |-> 0] ELSE checkpoint
           t == [run[r] EXCEPT !.pc = "batch", !.batch = {}, !.ckpt = c]
<1>1. run' = [run EXCEPT ![r] = t] /\ UNCHANGED <<now, lastSeq, row, writer, checkpoint, counted>>
  BY DEF TakeLock, TypeOK
<1>2. t.batch = {} /\ t.ckpt = c /\ t.rebuild = run[r].rebuild /\ t.pc = "batch"
  BY DEF TypeOK, Run
<1>3. /\ \A e \in Event : row[e].seq \in Nat
      /\ \A w \in Writer : Inserted(w) => writer[w].seq # 0 /\ writer[w].seq \in Nat
  BY Numbers, WriterNumbers DEF GapInv, SeqsApart, Inserted
<1> HIDE DEF t
<1>4. CASE run[r].rebuild
  <2>1. t.ckpt.seq = 0
    BY <1>2, <1>4
  <2>2. Reaches(t.ckpt.seq) /\ Passes(t.ckpt.seq, Kept(t))
    BY <1>3, <2>1 DEF Reaches, Passes
  <2>3. Rebuilds(t)
    <3>1. \A e \in Event : counted[e] >= 1 => row[e].seq # 0
      BY DEF GapInv, ReadsSettled, SettledRow
    <3> QED  BY <1>2, <1>3, <2>1, <3>1 DEF Rebuilds
  <2> QED  BY <1>1, <1>2, <2>2, <2>3, RunMovesGap
<1>5. CASE ~run[r].rebuild
  <2>1. t.ckpt = checkpoint /\ Kept(t) = Counted
    BY <1>2, <1>5 DEF Kept, Counted
  <2>2. Reaches(t.ckpt.seq) /\ (MaxInsert <= Settle => Passes(t.ckpt.seq, Kept(t)))
    BY <2>1 DEF GapInv, ReadsSettled, SkipInv
  <2>3. Rebuilds(t)
    BY <1>2, <1>5 DEF Rebuilds
  <2> QED  BY <1>1, <1>2, <2>2, <2>3, RunMovesGap
<1> QED  BY <1>4, <1>5

LEMMA ApplyBatchGap ==
  ASSUME TypeOK, GapInv, NEW r \in Runner, ApplyBatch(r)
  PROVE  GapInv'
<1> DEFINE old == run[r]
           s == old.ckpt.seq
           new == NextBatch(s)
           n == LastOf(new, s)
           pc == IF old.rebuild /\ Cardinality(new) >= BatchSize THEN "batch" ELSE "commit"
           c == [seq |-> n, applied |-> old.ckpt.applied + Cardinality(new)]
           t == [old EXCEPT !.pc = pc, !.batch = old.batch \cup new, !.ckpt = c]
<1>1. run' = [run EXCEPT ![r] = t] /\ UNCHANGED <<now, lastSeq, row, writer, checkpoint, counted>>
  BY DEF ApplyBatch, TypeOK
<1>2. t.batch = old.batch \cup new /\ t.ckpt.seq = n /\ t.rebuild = old.rebuild /\ t.pc = pc
  BY DEF TypeOK, Run
<1>3. /\ s \in Nat /\ n \in Nat /\ s <= n /\ new \subseteq Event /\ old.batch \subseteq Event
      /\ \A e \in new : row[e].seq <= n
      /\ n = s \/ \E f \in new : n = row[f].seq
  BY Numbers, NextBatchType, LastOfIsLast, Parameters
<1>4. Holds(old)
  BY DEF ApplyBatch, Holds
<1>5. \A e : e \in Settled(s) <=> e \in Event /\ row[e].seq > s /\ row[e].at + Settle <= now
  BY DEF Settled
<1>6. new \subseteq Settled(s)
  BY DEF NextBatch
<1>7. \A e \in Settled(s), f \in new : row[e].seq <= row[f].seq => e \in new
  BY <1>3, BatchIsFirst
<1>8. pc = "commit" /\ old.rebuild => new = Settled(s)
  <2>1. Cardinality(new) \in Nat
    BY <1>3, BatchSizeOf
  <2> QED  BY <1>3, <2>1, ShortBatch, Parameters
<1> HIDE DEF t, new, n, s, pc
<1>9. /\ now \in Nat /\ Settle \in Nat /\ MaxInsert \in Nat /\ checkpoint.seq \in Nat
      /\ \A e \in Event : row[e].seq \in Nat /\ row[e].at \in Nat
      /\ \A w \in Writer : Inserted(w) => writer[w].seq \in Nat /\ writer[w].at \in Nat
  BY Numbers, WriterNumbers, Parameters DEF Inserted
<1>10. \A e \in Settled(s) : SettledRow(e)
  BY <1>3, <1>5, <1>9 DEF SettledRow
<1>11. Reaches(n) /\ \A e \in t.batch : SettledRow(e)
  <2>1. Reaches(s) /\ \A e \in old.batch : SettledRow(e)
    BY <1>4 DEF GapInv, ReadsSettled, s
  <2> QED  BY <1>2, <1>3, <1>6, <1>10, <2>1 DEF Reaches
<1>12. Rebuilds(t)
  <2> SUFFICES ASSUME old.rebuild
               PROVE  /\ \A e \in Event : counted[e] >= 1 /\ row[e].seq <= n => e \in t.batch
                      /\ t.pc = "commit" =>
                           checkpoint.seq <= n /\ \A e \in Event : counted[e] >= 1 => e \in t.batch
    BY <1>2 DEF Rebuilds
  <2>1. \A e \in Event : counted[e] >= 1 => SettledRow(e) /\ (row[e].seq <= s => e \in old.batch)
    BY <1>4 DEF GapInv, ReadsSettled, Rebuilds, s
  <2>2. \A e \in Event : counted[e] >= 1 => e \in old.batch \/ e \in Settled(s)
    BY <1>3, <1>5, <1>9, <2>1 DEF SettledRow
  <2>3. ASSUME NEW e \in Event, counted[e] >= 1, row[e].seq <= n PROVE e \in t.batch
    <3>1. CASE row[e].seq <= s
      BY <1>2, <2>1, <2>3, <3>1
    <3>2. CASE row[e].seq > s
      <4>1. PICK f \in new : n = row[f].seq
        BY <1>3, <1>9, <2>3, <3>2
      <4>2. e \in Settled(s)
        BY <1>5, <2>1, <2>3, <3>2 DEF SettledRow
      <4> QED  BY <1>2, <1>7, <2>3, <4>1, <4>2
    <3> QED  BY <1>3, <1>9, <3>1, <3>2
  <2>4. ASSUME pc = "commit" PROVE checkpoint.seq <= n /\ \A e \in Event : counted[e] >= 1 => e \in t.batch
    <3>1. new = Settled(s)
      BY <1>8, <2>4
    <3>2. \A e \in Event : SettledRow(e) => row[e].seq <= n
      BY <1>3, <1>5, <1>9, <3>1 DEF SettledRow
    <3>3. checkpoint.seq <= n
      BY <1>3, <3>2 DEF GapInv, ReadsSettled, Reaches
    <3> QED  BY <1>2, <2>2, <3>1, <3>3
  <2> QED  BY <1>2, <2>3, <2>4
<1>13. ASSUME MaxInsert <= Settle PROVE Passes(n, Kept(t))
  <2>1. Passes(s, Kept(old)) /\ SeqsApart
    BY <1>4, <1>13 DEF GapInv, SkipInv, s
  <2>2. Kept(t) = Kept(old) \cup new
    BY <1>2 DEF Kept
  <2>3. ASSUME NEW q \in Nat, NEW at, Overtaken(q, at, s) PROVE Overtaken(q, at, n)
    BY <1>3, <1>9, <2>3 DEF Overtaken
  <2>4. ASSUME NEW e \in Event \ Kept(t), row[e].seq \in 1..n PROVE Overtaken(row[e].seq, row[e].at, n)
    <3>1. CASE row[e].seq <= s
      BY <1>3, <1>9, <2>1, <2>2, <2>3, <2>4, <3>1 DEF Passes
    <3>2. CASE row[e].seq > s
      <4>1. PICK f \in new : n = row[f].seq
        BY <1>3, <1>9, <2>4, <3>2
      <4>2. f \in Event /\ row[f].at + Settle <= now /\ e # f
        BY <1>3, <1>5, <1>6, <2>2, <4>1
      <4>3. row[e].seq # row[f].seq
        BY <1>3, <1>9, <2>1, <3>2, <4>2 DEF SeqsApart
      <4>4. e \notin Settled(s)
        BY <1>3, <1>7, <2>2, <2>4, <4>1
      <4>5. row[f].at <= row[e].at
        BY <1>5, <1>9, <3>2, <4>2, <4>4
      <4> QED  BY <1>3, <1>9, <2>4, <4>1, <4>2, <4>3, <4>5 DEF Overtaken
    <3> QED  BY <1>3, <1>9, <3>1, <3>2
  <2>5. ASSUME NEW w \in Writer, Inserted(w), writer[w].seq <= n
        PROVE  Overtaken(writer[w].seq, writer[w].at, n)
    <3>1. CASE writer[w].seq <= s
      BY <1>9, <2>1, <2>3, <2>5, <3>1 DEF Passes
    <3>2. CASE writer[w].seq > s
      <4>1. PICK f \in new : n = row[f].seq
        BY <1>3, <1>9, <2>5, <3>2
      <4>2. f \in Event /\ row[f].at + Settle <= now
        BY <1>3, <1>5, <1>6, <4>1
      <4>3. writer[w].seq # row[f].seq /\ now <= writer[w].at + MaxInsert
        BY <2>1, <2>5, <4>2 DEF SeqsApart, Inserted
      <4>4. row[f].at <= writer[w].at
        BY <1>9, <1>13, <2>5, <4>2, <4>3
      <4> QED  BY <1>3, <1>9, <2>5, <4>1, <4>2, <4>3, <4>4 DEF Overtaken
    <3> QED  BY <1>3, <1>9, <2>5, <3>1, <3>2
  <2> QED  BY <2>4, <2>5 DEF Passes
<1> QED  BY <1>1, <1>2, <1>11, <1>12, <1>13, RunMovesGap

LEMMA CommitRunGap ==
  ASSUME TypeOK, LockInv, GapInv, NEW r \in Runner, CommitRun(r)
  PROVE  GapInv'
<1> DEFINE t == run[r]
<1>1. /\ Holds(t) /\ t.pc = "commit" /\ checkpoint' = t.ckpt
      /\ UNCHANGED <<now, lastSeq, row, writer>>
      /\ counted' = [e \in Event |->
           (IF t.rebuild THEN 0 ELSE counted[e]) + (IF e \in t.batch THEN 1 ELSE 0)]
  BY DEF CommitRun, Holds
<1>2. \A q \in Runner : ~Holds(run'[q])
  <2>1. \A q \in Runner : q # r => run'[q] = run[q] /\ ~Holds(run[q])
    BY <1>1 DEF CommitRun, TypeOK, LockInv, OneHolder
  <2>2. run'[r] \in {NoRun, [NoRun EXCEPT !.pc = "lock"]}
    BY DEF CommitRun, TypeOK
  <2>3. ~Holds(run'[r])
    BY <2>2 DEF Holds, NoRun
  <2> QED  BY <2>1, <2>3
<1>3. \A e \in Event : counted'[e] >= 1 <=> e \in Kept(t)
  <2> SUFFICES ASSUME NEW e \in Event PROVE counted'[e] >= 1 <=> e \in Kept(t)
    OBVIOUS
  <2>1. counted'[e] = (IF t.rebuild THEN 0 ELSE counted[e]) + (IF e \in t.batch THEN 1 ELSE 0)
    BY <1>1
  <2>2. counted[e] \in Nat
    BY Numbers
  <2> HIDE DEF t
  <2> QED  BY <2>1, <2>2 DEF Kept
<1>4. \A e \in Kept(t) : e \in Event /\ SettledRow(e)
  BY <1>1, Numbers DEF GapInv, ReadsSettled, Kept
<1>5. SeqsApart'
  BY <1>1 DEF GapInv, SeqsApart, Inserted
<1>6. ReadsSettled'
  <2>1. Reaches(t.ckpt.seq)
    BY <1>1 DEF GapInv, ReadsSettled
  <2>2. Reaches(checkpoint.seq)'
    BY <1>1, <2>1 DEF Reaches, SettledRow
  <2>3. \A e \in Event : counted'[e] >= 1 => SettledRow(e)'
    BY <1>1, <1>3, <1>4 DEF SettledRow
  <2> QED  BY <1>2, <2>2, <2>3 DEF ReadsSettled, Holds
<1>7. SkipInv'
  <2>1. Counted' = Kept(t)
    BY <1>3, <1>4 DEF Counted
  <2>2. MaxInsert <= Settle => Passes(t.ckpt.seq, Kept(t))
    BY <1>1 DEF GapInv, SkipInv
  <2>3. MaxInsert <= Settle => Passes(checkpoint.seq, Counted)'
    <3>1. PICK n, S : n = t.ckpt.seq /\ S = Kept(t)
      OBVIOUS
    <3>2. MaxInsert <= Settle => Passes(n, S)'
      BY <1>1, <2>2, <3>1 DEF Passes, Overtaken, Inserted
    <3>3. n = checkpoint.seq' /\ S = Counted'
      BY <1>1, <2>1, <3>1
    <3> QED  BY <3>2, <3>3 DEF Passes
  <2> QED  BY <1>2, <2>3 DEF SkipInv, Holds
<1>8. \A q \in Runner : Rebuilds(run[q])'
  BY <1>2 DEF Rebuilds, Holds
<1> QED  BY <1>5, <1>6, <1>7, <1>8 DEF GapInv

LEMMA RunnerGap ==
  ASSUME TypeOK, LockInv, GapInv, NEW r \in Runner, RunnerStep(r)
  PROVE  GapInv'
<1>1. CASE StartRun(r)
  <2>1. PICK b \in BOOLEAN : run' = [run EXCEPT ![r] = [NoRun EXCEPT !.pc = "lock", !.rebuild = b]]
    BY <1>1 DEF StartRun
  <2>2. PICK t : t = [NoRun EXCEPT !.pc = "lock", !.rebuild = b]
    OBVIOUS
  <2>3. ~Holds(t)
    BY <2>2 DEF Holds, NoRun
  <2>4. Rebuilds(t)
    BY <2>3 DEF Rebuilds
  <2> QED  BY <1>1, <2>1, <2>2, <2>3, <2>4, RunMovesGap DEF StartRun
<1>2. CASE RunFails(r)
  <2>1. ~Holds(NoRun)
    BY DEF Holds, NoRun
  <2>2. Rebuilds(NoRun)
    BY <2>1 DEF Rebuilds
  <2> QED  BY <1>2, <2>1, <2>2, RunMovesGap DEF RunFails
<1> QED  BY <1>1, <1>2, TakeLockGap, ApplyBatchGap, CommitRunGap DEF RunnerStep

LEMMA NextGapInv == TypeOK /\ LockInv /\ GapInv /\ [Next]_vars => GapInv'
<1> SUFFICES ASSUME TypeOK, LockInv, GapInv, [Next]_vars PROVE GapInv'
  OBVIOUS
<1>1. now \in Nat /\ MaxInsert \in Nat /\ \A v \in Writer : writer[v].pc # "out" => writer[v].at \in Nat
  BY Numbers, WriterNumbers, Parameters
<1>2. \A v \in Writer : writer[v].pc # "out" => now <= writer[v].at + MaxInsert
  BY DEF GapInv, SeqsApart
<1>3. CASE Tick
  <2>1. /\ now' = now + 1 /\ UNCHANGED <<lastSeq, row, writer, checkpoint, counted, run>>
        /\ \A v \in Writer : writer[v].pc # "out" => now < writer[v].at + MaxInsert
    BY <1>3 DEF Tick
  <2>2. now' \in Nat /\ now <= now' /\ \A v \in Writer : writer'[v].pc # "out" => now' <= writer'[v].at + MaxInsert
    BY <1>1, <2>1
  <2>3. \A v \in Writer : Inserted(v)' => writer'[v] = writer[v] /\ Inserted(v)
    BY <2>1 DEF Inserted
  <2> QED  BY <2>1, <2>2, <2>3, NothingDrawn
<1>4. CASE UNCHANGED vars
  <2>1. UNCHANGED <<now, lastSeq, row, writer, checkpoint, counted, run>>
    BY <1>4 DEF vars
  <2>2. now' \in Nat /\ now <= now' /\ \A v \in Writer : writer'[v].pc # "out" => now' <= writer'[v].at + MaxInsert
    BY <1>1, <1>2, <2>1
  <2>3. \A v \in Writer : Inserted(v)' => writer'[v] = writer[v] /\ Inserted(v)
    BY <2>1 DEF Inserted
  <2> QED  BY <2>1, <2>2, <2>3, NothingDrawn
<1> QED  BY <1>3, <1>4, WriterGap, RunnerGap DEF Next

LEMMA GapAlways == Spec => [](TypeOK /\ LockInv /\ GapInv)
  BY InitTypeOK, NextTypeOK, InitLockInv, NextLockInv, InitGapInv, NextGapInv, PTL DEF Spec

\* With inserts that end within the settle window, a row that the checkpoint passes
\* uncounted drew its number before a row that is no younger, however many writers
\* there are and whatever runs and rebuilds interleave (applyNextBatch's settled read).
THEOREM ProjectorSkipsOnlyOvertaken == Spec => []SkipsOnlyOvertaken
<1>1. GapInv => SkipsOnlyOvertaken
  BY DEF GapInv, SkipInv, Passes, Overtaken, Counted, SkipsOnlyOvertaken
<1> QED  BY <1>1, GapAlways, PTL

LEMMA NothingIsLost ==
  ASSUME TypeOK, LockInv, GapInv, [Next]_vars
  PROVE  /\ \A e \in Event : counted'[e] >= counted[e]
         /\ checkpoint'.seq >= checkpoint.seq
<1>0. checkpoint.seq \in Nat /\ \A e \in Event : counted[e] \in Nat
  BY Numbers
<1>1. ASSUME NEW r \in Runner, CommitRun(r)
      PROVE  (\A e \in Event : counted'[e] >= counted[e]) /\ checkpoint'.seq >= checkpoint.seq
  <2> DEFINE t == run[r]
  <2>1. /\ Holds(t) /\ t.pc = "commit" /\ checkpoint' = t.ckpt
        /\ counted' = [e \in Event |->
             (IF t.rebuild THEN 0 ELSE counted[e]) + (IF e \in t.batch THEN 1 ELSE 0)]
    BY <1>1 DEF CommitRun, Holds
  <2>2. t.ckpt.seq \in Nat /\ RunInv(t) /\ Rebuilds(t) /\ \A e \in Event : counted[e] <= 1
    BY <1>0, Numbers DEF LockInv, AtMostOnce, GapInv
  <2> HIDE DEF t
  <2>3. checkpoint.seq <= t.ckpt.seq
    BY <2>1, <2>2 DEF RunInv, Rebuilds
  <2>4. ASSUME NEW e \in Event PROVE counted'[e] >= counted[e]
    <3>1. counted'[e] = (IF t.rebuild THEN 0 ELSE counted[e]) + (IF e \in t.batch THEN 1 ELSE 0)
      BY <2>1
    <3>2. CASE t.rebuild
      <4>1. counted[e] >= 1 => e \in t.batch
        BY <2>1, <2>2, <3>2 DEF Rebuilds
      <4> QED  BY <1>0, <2>2, <3>1, <3>2, <4>1
    <3>3. CASE ~t.rebuild
      BY <1>0, <3>1, <3>3
    <3> QED  BY <3>2, <3>3
  <2> QED  BY <1>0, <2>1, <2>2, <2>3, <2>4
<1>2. ASSUME UNCHANGED <<checkpoint, counted>>
      PROVE  (\A e \in Event : counted'[e] >= counted[e]) /\ checkpoint'.seq >= checkpoint.seq
  BY <1>0, <1>2
<1>3. (\E r \in Runner : CommitRun(r)) \/ UNCHANGED <<checkpoint, counted>>
  BY DEF Next, WriterStep, RunnerStep, Tick, BeginInsert, DrawSeq, CommitInsert, AbortInsert,
         StartRun, TakeLock, ApplyBatch, RunFails, vars
<1> QED  BY <1>1, <1>2, <1>3

\* No commit takes an event out of the published counts or moves the checkpoint back,
\* that of a rebuild included (rebuildOne: reset and replay in one transaction).
THEOREM ProjectorNeverLess == Spec => NeverLess
<1>1. TypeOK /\ LockInv /\ GapInv /\ [Next]_vars =>
        [/\ \A e \in Event : counted'[e] >= counted[e]
         /\ checkpoint'.seq >= checkpoint.seq]_vars
  BY NothingIsLost
<1> QED  BY <1>1, GapAlways, PTL DEF Spec, NeverLess

=============================================================================
