------------------------ MODULE InfrastructureProofs ------------------------
(***************************************************************************)
(* Proofs about the components MCInfrastructure composes, for any number   *)
(* of processes, jobs and subscriptions.                                   *)
(***************************************************************************)
EXTENDS MCInfrastructure, Sums, FiniteSetTheorems, WellFoundedInduction, TLAPS

(* The scheduler lock *)

Runs == SchedulerProc \X Run
Live == {r \in Runs : run[r] # "none"}

\* A live run holds the key, or every live run has outlived its own: with the
\* key gone, or left by a dead run, the runs are no more than the overruns.
OverrunInv ==
    /\ key \in Runs \cup {Free, Orphan}
    /\ run \in [Runs -> {"none", "executing", "releasing"}]
    /\ overruns \in Nat
    /\ IsFiniteSet(Live)
    /\ key \in Runs => run[key] # "none"
    /\ Cardinality(Live) <= overruns + IF key \in Runs THEN 1 ELSE 0

\* The two constants are no pairs of a process and a run.
LEMMA NoRunIsAConstant == Free \notin Runs /\ Orphan \notin Runs /\ Free # Orphan
  BY DEF Runs, Free, Orphan

LEMMA OverrunInit == Init => OverrunInv
<1> SUFFICES ASSUME Init PROVE OverrunInv
  OBVIOUS
<1>1. Live = {}
  BY DEF Init, Live, Runs
<1>2. IsFiniteSet(Live) /\ Cardinality(Live) = 0
  BY <1>1, FS_EmptySet
<1> QED  BY <1>2, NoRunIsAConstant DEF Init, OverrunInv, Runs

LEMMA StartStep ==
  ASSUME OverrunInv, NEW r \in Runs, Start(r)
  PROVE  OverrunInv'
<1>1. Live' = Live \cup {r} /\ r \notin Live
  BY DEF OverrunInv, Start, Live
<1>2. IsFiniteSet(Live') /\ Cardinality(Live') = Cardinality(Live) + 1
  BY <1>1, FS_AddElement DEF OverrunInv
<1>3. Cardinality(Live) \in Nat /\ Cardinality(Live) <= overruns
  BY NoRunIsAConstant, FS_CardinalityType DEF OverrunInv, Start
<1>4. Cardinality(Live') <= overruns' + 1 /\ overruns' \in Nat
  BY <1>2, <1>3 DEF OverrunInv, Start
<1>5. key' \in Runs /\ run'[key'] # "none" /\ run' \in [Runs -> {"none", "executing", "releasing"}]
  BY DEF OverrunInv, Start
<1> QED  BY <1>2, <1>4, <1>5 DEF OverrunInv

LEMMA FinishStep ==
  ASSUME OverrunInv, NEW r \in Runs, Finish(r)
  PROVE  OverrunInv'
<1>1. Live' = Live
  BY DEF OverrunInv, Finish, Live
<1> QED  BY <1>1 DEF OverrunInv, Finish

LEMMA ReleaseStep ==
  ASSUME OverrunInv, NEW r \in Runs, Release(r)
  PROVE  OverrunInv'
<1>1. Live' = Live \ {r} /\ r \in Live
  BY DEF OverrunInv, Release, Live
<1>2. IsFiniteSet(Live') /\ Cardinality(Live') = Cardinality(Live) - 1
  BY <1>1, FS_RemoveElement DEF OverrunInv
<1>3. Cardinality(Live) \in Nat /\ Cardinality(Live) <= overruns + 1
  BY FS_CardinalityType DEF OverrunInv
<1>4. Cardinality(Live') <= overruns' /\ overruns' \in Nat
  BY <1>2, <1>3 DEF OverrunInv, Release
<1>5. key' = Free /\ run' \in [Runs -> {"none", "executing", "releasing"}]
  BY DEF OverrunInv, Release
<1> QED  BY <1>2, <1>4, <1>5, NoRunIsAConstant DEF OverrunInv

LEMMA ExpireStep ==
  ASSUME OverrunInv, Expire
  PROVE  OverrunInv'
<1>1. Live' = Live /\ key' = Free /\ run' = run
  BY DEF Expire, Live
<1>2. Cardinality(Live) \in Nat
  BY FS_CardinalityType DEF OverrunInv
<1>3. overruns' \in Nat /\ Cardinality(Live') <= overruns'
  <2>1. CASE key = Orphan
    BY <2>1, <1>1, NoRunIsAConstant DEF OverrunInv, Expire
  <2>2. CASE key # Orphan
    <3>1. key \in Runs /\ overruns' = overruns + 1
      BY <2>2 DEF OverrunInv, Expire
    <3> QED  BY <3>1, <1>1, <1>2 DEF OverrunInv
  <2> QED  BY <2>1, <2>2
<1> QED  BY <1>1, <1>3, NoRunIsAConstant DEF OverrunInv

LEMMA DieStep ==
  ASSUME OverrunInv, NEW p \in SchedulerProc, Die(p)
  PROVE  OverrunInv'
<1>1. run' \in [Runs -> {"none", "executing", "releasing"}] /\ overruns' = overruns
  BY DEF OverrunInv, Die, Runs
<1>2. Live' \subseteq Live /\ \A r \in Live : r[1] # p => r \in Live'
  BY DEF OverrunInv, Die, Live, Runs
<1>3. /\ IsFiniteSet(Live') /\ Cardinality(Live) \in Nat
      /\ Cardinality(Live') \in Nat /\ Cardinality(Live') <= Cardinality(Live)
  BY <1>2, FS_Subset, FS_CardinalityType DEF OverrunInv
<1>4. CASE key \in {p} \X Run
  <2>1. key \in Runs /\ key' = Orphan
    BY <1>4 DEF Die, Runs
  <2>2. key \in Live /\ key \notin Live'
    BY <2>1, <1>4 DEF OverrunInv, Die, Live, Runs
  <2>3. Cardinality(Live') <= Cardinality(Live \ {key})
    <3>1. Live' \subseteq Live \ {key} /\ IsFiniteSet(Live \ {key})
      BY <1>2, <2>2, FS_RemoveElement DEF OverrunInv
    <3> QED  BY <3>1, FS_Subset
  <2>4. Cardinality(Live \ {key}) = Cardinality(Live) - 1
    BY <2>2, FS_RemoveElement DEF OverrunInv
  <2>5. Cardinality(Live') <= overruns
    BY <1>3, <2>1, <2>3, <2>4 DEF OverrunInv
  <2> QED  BY <1>1, <1>3, <2>1, <2>5, NoRunIsAConstant DEF OverrunInv
<1>5. CASE key \notin {p} \X Run
  <2>1. key' = key
    BY <1>5 DEF Die
  <2>2. key \in Runs => run'[key] # "none"
    BY <1>5 DEF OverrunInv, Die, Runs
  <2>3. overruns \in Nat /\ Cardinality(Live') <= overruns + IF key \in Runs THEN 1 ELSE 0
    BY <1>3 DEF OverrunInv
  <2> QED  BY <1>1, <1>3, <2>1, <2>2, <2>3 DEF OverrunInv
<1> QED  BY <1>4, <1>5

LEMMA OverrunStep == OverrunInv /\ [Next]_vars => OverrunInv'
<1> SUFFICES ASSUME OverrunInv, [Next]_vars PROVE OverrunInv'
  OBVIOUS
<1>1. CASE \E r \in Runs : Start(r) \/ Finish(r) \/ Release(r)
  BY <1>1, StartStep, FinishStep, ReleaseStep
<1>2. CASE Expire
  BY <1>2, ExpireStep
<1>3. CASE \E p \in SchedulerProc : Die(p)
  BY <1>3, DieStep
<1>4. CASE UNCHANGED vars
  <2>1. Live' = Live
    BY <1>4 DEF Live, vars
  <2> QED  BY <1>4, <2>1 DEF OverrunInv, vars
<1> QED  BY <1>1, <1>2, <1>3, <1>4 DEF Next, Runs

\* However many scheduler processes start, overrun and die, the runs of a job that
\* exist at once outnumber the expired locks by one at most (withLock).
THEOREM OneRun == Spec => []OneRunPerOverrun
<1>1. OverrunInv => OneRunPerOverrun
  <2> SUFFICES ASSUME OverrunInv PROVE OneRunPerOverrun
    OBVIOUS
  <2>1. {r \in DOMAIN run : run[r] # "none"} = Live
    BY DEF OverrunInv, Live
  <2>2. Cardinality(Live) \in Nat
    BY FS_CardinalityType DEF OverrunInv
  <2> QED  BY <2>1, <2>2 DEF OverrunInv, OneRunPerOverrun
<1> QED  BY <1>1, OverrunInit, OverrunStep, PTL DEF Spec


----------------------------------------------------------------------------
(* Webhooks *)

SubRow == [state : {"active", "disabled"}, failures : Nat]
Underway == [stage : {"matched", "sending", "saving"}, to : Sub, copy : SubRow \cup {Hooks!NoCopy},
             attempt : Nat, ok : BOOLEAN]

HookTypes ==
    /\ sub \in [Sub -> SubRow \cup {Hooks!Unregistered, Hooks!Removed}] /\ exhausted \in [Sub -> Nat]
    /\ delivery \in [Delivery -> Underway \cup {Hooks!Nothing}]

\* Failures on record are deliveries given up, as is the failure a copy will add once it
\* is saved; and who is disabled, by row or by copy, has enough of them.
Paid(row, n) == row.failures <= n /\ (row.state = "disabled" => n >= MaxConsecutive)
CopyPaid(m, n) == m.copy # Hooks!NoCopy =>
                    /\ Paid(m.copy, n)
                    /\ (m.stage = "saving" /\ ~m.ok => m.copy.failures + 1 <= n)
RowsPaid == \A s \in Sub : Hooks!Exists(s) => Paid(sub[s], exhausted[s])
CopiesPaid == \A d \in Delivery : delivery[d] # Hooks!Nothing => CopyPaid(delivery[d], exhausted[delivery[d].to])
NotifiedPaid == \A s \in Sub : s \in notified => exhausted[s] >= MaxConsecutive

\* No delivery holds a copy of a removed row, but those that outlived it.
RemovedUncopied ==
    \A d \in Delivery : delivery[d] # Hooks!Nothing /\ delivery[d].copy # Hooks!NoCopy
          /\ sub[delivery[d].to] = Hooks!Removed => delivery[d].to \in outlived

HookInv == HookTypes /\ RowsPaid /\ CopiesPaid /\ NotifiedPaid /\ RemovedUncopied

LEMMA HookInit == Hooks!Init => HookInv
<1> SUFFICES ASSUME Hooks!Init PROVE HookInv
  OBVIOUS
<1>1. /\ sub = [s \in Sub |-> Hooks!Unregistered] /\ delivery = [d \in Delivery |-> Hooks!Nothing]
      /\ exhausted = [s \in Sub |-> 0] /\ notified = {}
  BY DEF Hooks!Init
<1>2. HookTypes
  BY <1>1 DEF HookTypes
<1>3. RowsPaid /\ CopiesPaid /\ NotifiedPaid /\ RemovedUncopied
  BY <1>1 DEF RowsPaid, CopiesPaid, NotifiedPaid, RemovedUncopied, Hooks!Exists, Hooks!Unregistered
<1> QED  BY <1>2, <1>3 DEF HookInv

LEMMA PaidStays ==
  ASSUME NEW row \in SubRow, NEW n \in Nat, NEW more \in Nat, n <= more, Paid(row, n)
  PROVE  Paid(row, more)
  BY InfraAssumption DEF Paid, SubRow

LEMMA CopyPaidStays ==
  ASSUME NEW m \in Underway, NEW n \in Nat, NEW more \in Nat, n <= more, CopyPaid(m, n)
  PROVE  CopyPaid(m, more)
<1> SUFFICES ASSUME m.copy # Hooks!NoCopy
             PROVE  Paid(m.copy, more) /\ (m.stage = "saving" /\ ~m.ok => m.copy.failures + 1 <= more)
  BY DEF CopyPaid
<1>1. m.copy \in SubRow /\ m.copy.failures \in Nat
  BY DEF Underway, SubRow
<1>2. Paid(m.copy, n) /\ (m.stage = "saving" /\ ~m.ok => m.copy.failures + 1 <= n)
  BY DEF CopyPaid
<1> QED  BY <1>1, <1>2, PaidStays

\* One delivery goes on; deliveries given up are counted.
LEMMA DeliveryMoves ==
  ASSUME HookInv, NEW d \in Delivery, NEW m \in Underway \cup {Hooks!Nothing}, delivery' = [delivery EXCEPT ![d] = m],
         exhausted' \in [Sub -> Nat], \A s \in Sub : exhausted[s] <= exhausted'[s],
         sub' = sub, outlived' = outlived, notified' = notified,
         m # Hooks!Nothing => CopyPaid(m, exhausted'[m.to]),
         m # Hooks!Nothing /\ m.copy # Hooks!NoCopy /\ sub[m.to] = Hooks!Removed => m.to \in outlived
  PROVE  HookInv'
<1> USE DEF HookInv, HookTypes
<1>1. /\ delivery'[d] = m /\ \A e \in Delivery : e # d => delivery'[e] = delivery[e]
  OBVIOUS
<1>2. HookTypes'
  BY DEF Hooks!Nothing, Hooks!Unregistered, Hooks!Removed, Underway, SubRow, Hooks!NoCopy
<1>3. RowsPaid'
  <2> SUFFICES ASSUME NEW s \in Sub, Hooks!Exists(s) PROVE Paid(sub[s], exhausted'[s])
    BY DEF RowsPaid, Hooks!Exists, Paid
  <2>1. sub[s] \in SubRow
    BY DEF Hooks!Exists, Hooks!Unregistered, Hooks!Removed
  <2>2. exhausted[s] \in Nat /\ exhausted'[s] \in Nat /\ exhausted[s] <= exhausted'[s] /\ Paid(sub[s], exhausted[s])
    BY DEF RowsPaid
  <2> QED  BY <2>1, <2>2, PaidStays
<1>4. CopiesPaid'
  <2> SUFFICES ASSUME NEW e \in Delivery, delivery'[e] # Hooks!Nothing
               PROVE  CopyPaid(delivery'[e], exhausted'[delivery'[e].to])
    BY DEF CopiesPaid, CopyPaid, Paid, Hooks!Nothing, Hooks!NoCopy
  <2>1. CASE e = d
    BY <1>1, <2>1
  <2>2. CASE e # d
    <3>1. delivery'[e] = delivery[e] /\ delivery[e] \in Underway /\ delivery[e].to \in Sub
      BY <1>1, <2>2 DEF Underway
    <3> DEFINE s == delivery[e].to
    <3>2. exhausted[s] \in Nat /\ exhausted'[s] \in Nat /\ exhausted[s] <= exhausted'[s]
      BY <3>1
    <3>3. CopyPaid(delivery[e], exhausted[s])
      BY <3>1 DEF CopiesPaid
    <3> QED  BY <3>1, <3>2, <3>3, CopyPaidStays
  <2> QED  BY <2>1, <2>2
<1>5. NotifiedPaid'
  BY InfraAssumption DEF NotifiedPaid
<1>6. RemovedUncopied'
  BY <1>1 DEF RemovedUncopied, Hooks!Nothing, Hooks!NoCopy, Hooks!Removed
<1> QED  BY <1>2, <1>3, <1>4, <1>5, <1>6

LEMMA HookRow ==
  ASSUME HookInv, NEW d \in Delivery, delivery[d].stage \in {"matched", "sending", "saving"}
  PROVE  /\ delivery[d] # Hooks!Nothing /\ delivery[d] \in Underway
         /\ CopyPaid(delivery[d], exhausted[delivery[d].to])
         /\ delivery[d].copy # Hooks!NoCopy =>
              delivery[d].copy \in SubRow /\ Paid(delivery[d].copy, exhausted[delivery[d].to])
<1>1. delivery[d] # Hooks!Nothing /\ delivery[d] \in Underway
  BY DEF HookInv, HookTypes, Hooks!Nothing
<1>2. CopyPaid(delivery[d], exhausted[delivery[d].to])
  BY <1>1 DEF HookInv, CopiesPaid
<1>3. delivery[d].copy \in SubRow \cup {Hooks!NoCopy}
  BY <1>1 DEF Underway
<1> QED  BY <1>1, <1>2, <1>3 DEF CopyPaid

LEMMA HookRegister ==
  ASSUME HookInv, NEW s \in Sub, Hooks!Register(s)
  PROVE  HookInv'
<1> DEFINE fresh == [state |-> "active", failures |-> 0]
<1>1. /\ sub[s] = Hooks!Unregistered /\ sub' = [sub EXCEPT ![s] = fresh] /\ delivery' = delivery
      /\ notified' = notified /\ exhausted' = exhausted /\ outlived' = outlived
  BY DEF Hooks!Register
<1>2. fresh \in SubRow /\ \A n \in Nat : Paid(fresh, n)
  BY InfraAssumption DEF SubRow, Paid
<1>3. fresh # Hooks!Removed
  BY DEF Hooks!Removed
<1> HIDE DEF fresh
<1> USE DEF HookInv, HookTypes
<1>4. HookTypes'
  BY <1>1, <1>2 DEF Hooks!Unregistered, Hooks!Removed, Hooks!Nothing
<1>5. RowsPaid'
  BY <1>1, <1>2 DEF RowsPaid, Hooks!Exists, Paid
<1>6. CopiesPaid' /\ NotifiedPaid'
  BY <1>1 DEF CopiesPaid, CopyPaid, Paid, NotifiedPaid, Hooks!Nothing, Hooks!NoCopy
<1>7. RemovedUncopied'
  BY <1>1, <1>3 DEF RemovedUncopied, Hooks!Nothing, Hooks!NoCopy, Hooks!Removed, Underway
<1> QED  BY <1>4, <1>5, <1>6, <1>7

LEMMA HookRemove ==
  ASSUME HookInv, NEW s \in Sub, Hooks!Remove(s)
  PROVE  HookInv'
<1> USE DEF HookInv, HookTypes
<1>1. /\ sub' = [sub EXCEPT ![s] = Hooks!Removed] /\ delivery' = delivery
      /\ notified' = notified /\ exhausted' = exhausted
  BY DEF Hooks!Remove
<1>2. HookTypes'
  BY <1>1 DEF Hooks!Unregistered, Hooks!Removed, Hooks!Nothing
<1>3. RowsPaid'
  BY <1>1 DEF RowsPaid, Hooks!Exists, Paid, Hooks!Removed
<1>4. CopiesPaid' /\ NotifiedPaid'
  BY <1>1 DEF CopiesPaid, CopyPaid, Paid, NotifiedPaid, Hooks!Nothing, Hooks!NoCopy
<1>5. outlived \subseteq outlived'
  BY DEF Hooks!Remove
<1>6. ASSUME NEW d \in Delivery, delivery[d] # Hooks!Nothing, delivery[d].copy # Hooks!NoCopy,
             sub'[delivery[d].to] = Hooks!Removed
      PROVE  delivery[d].to \in outlived'
  <2>1. CASE delivery[d].to = s
    BY <1>6, <2>1 DEF Hooks!Remove
  <2>2. CASE delivery[d].to # s
    BY <1>1, <1>5, <1>6, <2>2 DEF RemovedUncopied, Underway
  <2> QED  BY <2>1, <2>2
<1>7. RemovedUncopied'
  BY <1>1, <1>6 DEF RemovedUncopied, Hooks!Nothing, Hooks!NoCopy, Hooks!Removed
<1> QED  BY <1>2, <1>3, <1>4, <1>7

LEMMA HookBegin ==
  ASSUME HookInv, NEW d \in Delivery, NEW s \in Sub, Hooks!Begin(d, s)
  PROVE  HookInv'
<1> DEFINE m == [stage |-> "matched", to |-> s, copy |-> Hooks!NoCopy, attempt |-> 0, ok |-> FALSE]
<1>1. /\ delivery' = [delivery EXCEPT ![d] = m] /\ sub' = sub /\ notified' = notified
      /\ exhausted' = exhausted /\ outlived' = outlived
  BY DEF Hooks!Begin
<1>2. m \in Underway /\ m.copy = Hooks!NoCopy /\ \A n : CopyPaid(m, n)
  BY DEF Underway, CopyPaid
<1>3. exhausted' \in [Sub -> Nat] /\ \A t \in Sub : exhausted[t] <= exhausted'[t]
  BY <1>1 DEF HookInv, HookTypes
<1> HIDE DEF m
<1> QED  BY <1>1, <1>2, <1>3, DeliveryMoves

LEMMA HookLoad ==
  ASSUME HookInv, NEW d \in Delivery, Hooks!Load(d)
  PROVE  HookInv'
<1> DEFINE old == delivery[d]
           s == old.to
           read == IF Hooks!Exists(s) THEN sub[s] ELSE Hooks!NoCopy
           m == [old EXCEPT !.stage = "sending", !.copy = read]
<1>1. /\ old.stage = "matched" /\ sub' = sub /\ notified' = notified
      /\ exhausted' = exhausted /\ outlived' = outlived
  BY DEF Hooks!Load
<1>2. old # Hooks!Nothing /\ old \in Underway /\ s \in Sub
  BY <1>1, HookRow DEF Underway
<1>3. delivery' = [delivery EXCEPT ![d] = m]
  BY DEF Hooks!Load
<1>4. read # Hooks!NoCopy => read \in SubRow /\ Paid(read, exhausted[s]) /\ sub[s] # Hooks!Removed
  BY <1>2 DEF HookInv, HookTypes, RowsPaid, Hooks!Exists, Hooks!Unregistered, Hooks!Removed
<1>5. m \in Underway /\ m.copy = read /\ m.to = s /\ m.stage = "sending"
  BY <1>2, <1>4 DEF Underway
<1>6. exhausted' \in [Sub -> Nat] /\ \A t \in Sub : exhausted[t] <= exhausted'[t]
  BY <1>1 DEF HookInv, HookTypes
<1> HIDE DEF m, read
<1>7. CopyPaid(m, exhausted[s])
  BY <1>4, <1>5 DEF CopyPaid
<1>8. CopyPaid(m, exhausted'[m.to])
  BY <1>1, <1>5, <1>7
<1> QED  BY <1>1, <1>3, <1>4, <1>5, <1>6, <1>8, DeliveryMoves

LEMMA HookAttemptFails ==
  ASSUME HookInv, NEW d \in Delivery, Hooks!AttemptFails(d)
  PROVE  HookInv'
<1> DEFINE old == delivery[d]
           s == old.to
           n == old.attempt + 1
           m == [old EXCEPT !.attempt = n, !.stage = IF n = MaxRetries THEN "saving" ELSE @]
<1>1. /\ old.stage = "sending" /\ sub' = sub /\ notified' = notified /\ outlived' = outlived
      /\ exhausted' = IF n = MaxRetries THEN [exhausted EXCEPT ![s] = @ + 1] ELSE exhausted
  BY DEF Hooks!AttemptFails
<1>2. /\ old # Hooks!Nothing /\ old \in Underway /\ s \in Sub /\ n \in Nat
      /\ CopyPaid(old, exhausted[s])
      /\ old.copy # Hooks!NoCopy => old.copy \in SubRow /\ Paid(old.copy, exhausted[s])
  BY <1>1, HookRow DEF Underway
<1>3. delivery' = [delivery EXCEPT ![d] = m]
  BY DEF Hooks!AttemptFails
<1>4. m \in Underway /\ m.copy = old.copy /\ m.to = s /\ m.ok = old.ok
      /\ (m.stage = "saving" => n = MaxRetries)
  BY <1>1, <1>2 DEF Underway
<1>5. /\ exhausted' \in [Sub -> Nat] /\ \A t \in Sub : exhausted[t] <= exhausted'[t]
      /\ n = MaxRetries => exhausted'[s] = exhausted[s] + 1
  BY <1>1, <1>2 DEF HookInv, HookTypes
<1>6. exhausted[s] \in Nat /\ exhausted'[s] \in Nat /\ exhausted[s] <= exhausted'[s]
  BY <1>2, <1>5 DEF HookInv, HookTypes
<1> HIDE DEF m
<1>7. ASSUME m.copy # Hooks!NoCopy
      PROVE  Paid(m.copy, exhausted'[s]) /\ (m.stage = "saving" /\ ~m.ok => m.copy.failures + 1 <= exhausted'[s])
  <2>1. m.copy \in SubRow /\ Paid(m.copy, exhausted[s])
    BY <1>2, <1>4, <1>7
  <2>2. Paid(m.copy, exhausted'[s])
    BY <1>6, <2>1, PaidStays
  <2>3. m.copy.failures \in Nat /\ m.copy.failures <= exhausted[s]
    BY <2>1 DEF Paid, SubRow
  <2> QED  BY <1>4, <1>5, <1>6, <2>2, <2>3
<1>8. CopyPaid(m, exhausted'[m.to])
  BY <1>4, <1>7 DEF CopyPaid
<1>9. m.copy # Hooks!NoCopy /\ sub[m.to] = Hooks!Removed => m.to \in outlived
  BY <1>2, <1>4 DEF HookInv, RemovedUncopied
<1> QED  BY <1>1, <1>3, <1>4, <1>5, <1>8, <1>9, DeliveryMoves

LEMMA HookAttemptSucceeds ==
  ASSUME HookInv, NEW d \in Delivery, Hooks!AttemptSucceeds(d)
  PROVE  HookInv'
<1> DEFINE old == delivery[d]
           m == [old EXCEPT !.stage = "saving", !.ok = TRUE]
<1>1. /\ old.stage = "sending" /\ sub' = sub /\ notified' = notified /\ outlived' = outlived
      /\ exhausted' = exhausted
  BY DEF Hooks!AttemptSucceeds
<1>2. old # Hooks!Nothing /\ old \in Underway /\ CopyPaid(old, exhausted[old.to])
  BY <1>1, HookRow
<1>3. delivery' = [delivery EXCEPT ![d] = m]
  BY DEF Hooks!AttemptSucceeds
<1>4. m \in Underway /\ m.copy = old.copy /\ m.to = old.to /\ m.ok
  BY <1>2 DEF Underway
<1>5. exhausted' \in [Sub -> Nat] /\ \A t \in Sub : exhausted[t] <= exhausted'[t]
  BY <1>1 DEF HookInv, HookTypes
<1> HIDE DEF m
<1>6. CopyPaid(m, exhausted'[m.to])
  BY <1>1, <1>2, <1>4 DEF CopyPaid
<1>7. m.copy # Hooks!NoCopy /\ sub[m.to] = Hooks!Removed => m.to \in outlived
  BY <1>2, <1>4 DEF HookInv, RemovedUncopied
<1> QED  BY <1>1, <1>3, <1>4, <1>5, <1>6, <1>7, DeliveryMoves

\* Whom a finished delivery tells, and the row it leaves.
LEMMA HookUpdated ==
  ASSUME HookInv, NEW d \in Delivery, delivery[d].stage = "saving", delivery[d].copy # Hooks!NoCopy
  PROVE  Hooks!Updated(d) \in SubRow /\ Paid(Hooks!Updated(d), exhausted[delivery[d].to])
<1> DEFINE s == delivery[d].to
           c == delivery[d].copy
<1>1. /\ delivery[d] \in Underway /\ CopyPaid(delivery[d], exhausted[s])
      /\ c \in SubRow /\ Paid(c, exhausted[s]) /\ s \in Sub /\ exhausted[s] \in Nat
  BY HookRow DEF Underway, HookInv, HookTypes
<1>2. CASE delivery[d].ok
  <2>1. Hooks!Updated(d) = [c EXCEPT !.failures = 0]
    BY <1>2 DEF Hooks!Updated
  <2> QED  BY <1>1, <2>1, InfraAssumption DEF SubRow, Paid
<1>3. CASE ~delivery[d].ok
  <2>1. Hooks!Updated(d) = [state |-> IF c.failures + 1 >= MaxConsecutive THEN "disabled" ELSE c.state,
                            failures |-> c.failures + 1]
    BY <1>3 DEF Hooks!Updated
  <2>2. c.failures + 1 <= exhausted[s] /\ c.failures \in Nat /\ c.state \in {"active", "disabled"}
    BY <1>1, <1>3 DEF CopyPaid, SubRow
  <2>3. Hooks!Updated(d).failures = c.failures + 1 /\ Hooks!Updated(d) \in SubRow
    BY <2>1, <2>2 DEF SubRow
  <2>4. Hooks!Updated(d).state = "disabled" => c.failures + 1 >= MaxConsecutive \/ c.state = "disabled"
    BY <2>1
  <2>5. c.state = "disabled" => exhausted[s] >= MaxConsecutive
    BY <1>1 DEF Paid
  <2> QED  BY <1>1, <2>2, <2>3, <2>4, <2>5, InfraAssumption DEF Paid
<1> QED  BY <1>2, <1>3

LEMMA HookNotified ==
  ASSUME HookInv, NEW d \in Delivery, NEW s \in Hooks!Notified(d), s \in Sub
  PROVE  exhausted[s] >= MaxConsecutive
<1>1. CASE s \in notified
  BY <1>1 DEF HookInv, NotifiedPaid
<1>2. CASE Hooks!Disables(d) /\ s = delivery[d].to
  <2>1. delivery[d].stage = "saving" /\ Hooks!Updated(d).state = "disabled" /\ delivery[d].copy.state = "active"
    BY <1>2 DEF Hooks!Disables
  <2>2. delivery[d].copy # Hooks!NoCopy
    BY <2>1 DEF Hooks!NoCopy
  <2> QED  BY <1>2, <2>1, <2>2, HookUpdated DEF Paid
<1> QED  BY <1>1, <1>2 DEF Hooks!Notified

LEMMA HookSave ==
  ASSUME HookInv, NEW d \in Delivery, Hooks!Save(d)
  PROVE  HookInv'
<1> DEFINE s == delivery[d].to
           c == delivery[d].copy
           row == Hooks!Updated(d)
<1>1. /\ delivery[d].stage = "saving" /\ delivery' = [delivery EXCEPT ![d] = Hooks!Nothing]
      /\ notified' = Hooks!Notified(d) /\ exhausted' = exhausted /\ outlived' = outlived
      /\ \/ sub' = sub
         \/ c # Hooks!NoCopy /\ sub' = [sub EXCEPT ![s] = row]
  BY DEF Hooks!Save
<1>2. s \in Sub
  BY <1>1, HookRow DEF Underway
<1>3. c # Hooks!NoCopy => row \in SubRow /\ Paid(row, exhausted[s])
  BY <1>1, HookUpdated
<1>4. \A t \in Sub : t \in notified' => exhausted[t] >= MaxConsecutive
  BY <1>1, HookNotified
<1> HIDE DEF row
<1> USE DEF HookInv, HookTypes
<1>5. HookTypes'
  BY <1>1, <1>3 DEF Hooks!Nothing, Hooks!Unregistered, Hooks!Removed
<1>6. RowsPaid'
  BY <1>1, <1>2, <1>3 DEF RowsPaid, Hooks!Exists, Paid
<1>7. CopiesPaid'
  BY <1>1 DEF CopiesPaid, CopyPaid, Paid, Hooks!Nothing, Hooks!NoCopy
<1>8. NotifiedPaid'
  BY <1>1, <1>4 DEF NotifiedPaid
<1>9. \A t \in Sub : sub'[t] = Hooks!Removed => sub[t] = Hooks!Removed
  BY <1>1, <1>2, <1>3 DEF Hooks!Removed, SubRow
<1>10. RemovedUncopied'
  BY <1>1, <1>9 DEF RemovedUncopied, Hooks!Nothing, Hooks!NoCopy, Hooks!Removed, Underway
<1> QED  BY <1>5, <1>6, <1>7, <1>8, <1>10

LEMMA HookAbandon ==
  ASSUME HookInv, NEW d \in Delivery, Hooks!Abandon(d)
  PROVE  HookInv'
<1>1. /\ delivery' = [delivery EXCEPT ![d] = Hooks!Nothing] /\ sub' = sub
      /\ notified' \in {notified, Hooks!Notified(d)} /\ exhausted' = exhausted /\ outlived' = outlived
  BY DEF Hooks!Abandon
<1>2. \A t \in Sub : t \in notified' => exhausted[t] >= MaxConsecutive
  BY <1>1, HookNotified DEF HookInv, NotifiedPaid
<1> USE DEF HookInv, HookTypes
<1>3. HookTypes' /\ RowsPaid'
  BY <1>1 DEF RowsPaid, Hooks!Exists, Paid, Hooks!Nothing, Hooks!Unregistered, Hooks!Removed
<1>4. CopiesPaid' /\ RemovedUncopied'
  BY <1>1 DEF CopiesPaid, CopyPaid, Paid, RemovedUncopied, Hooks!Nothing, Hooks!NoCopy, Hooks!Removed
<1>5. NotifiedPaid'
  BY <1>1, <1>2 DEF NotifiedPaid
<1> QED  BY <1>3, <1>4, <1>5

LEMMA HooksKept ==
  ASSUME HookInv, UNCHANGED hookVars
  PROVE  HookInv'
  BY DEF hookVars, HookInv, HookTypes, RowsPaid, CopiesPaid, CopyPaid, Paid, NotifiedPaid, RemovedUncopied,
         Hooks!Exists, Hooks!Nothing, Hooks!NoCopy, Hooks!Removed, Hooks!Unregistered

LEMMA HookStep ==
  ASSUME HookInv, Hooks!Next
  PROVE  HookInv'
<1>1. ASSUME NEW s \in Sub, Hooks!CleanUp(s) PROVE HookInv'
  BY <1>1 DEF Hooks!CleanUp, HookInv, HookTypes, RowsPaid, CopiesPaid, CopyPaid, Paid, NotifiedPaid,
              RemovedUncopied, Hooks!Exists, Hooks!Nothing, Hooks!NoCopy, Hooks!Removed, Hooks!Unregistered
<1>2. ASSUME NEW s \in Sub, Hooks!Register(s) \/ Hooks!Remove(s) PROVE HookInv'
  BY <1>2, HookRegister, HookRemove
<1>3. ASSUME NEW d \in Delivery, NEW s \in Sub,
             Hooks!Publish(d, s) \/ Hooks!Redeliver(d, s) \/ Hooks!TestDelivery(d, s)
      PROVE  HookInv'
  BY <1>3, HookBegin DEF Hooks!Publish, Hooks!Redeliver, Hooks!TestDelivery
<1>4. ASSUME NEW d \in Delivery, Hooks!Load(d) \/ Hooks!AttemptFails(d) \/ Hooks!AttemptSucceeds(d)
                                   \/ Hooks!Save(d) \/ Hooks!Abandon(d)
      PROVE  HookInv'
  BY <1>4, HookLoad, HookAttemptFails, HookAttemptSucceeds, HookSave, HookAbandon
<1> QED  BY <1>1, <1>2, <1>3, <1>4 DEF Hooks!Next

LEMMA HooksAlways == InfraSpec => []HookInv
<1>1. InfraInit => HookInv
  BY HookInit DEF InfraInit
<1>2. HookInv /\ [InfraNext]_allVars => HookInv'
  BY HookStep, HooksKept DEF InfraNext, allVars
<1> QED  BY <1>1, <1>2, PTL DEF InfraSpec

\* However deliveries overlap, a webhook subscription is disabled, and its owner told so, only
\* after as many deliveries to it were given up as WEBHOOK_MAX_CONSECUTIVE_FAILURES says
\* (deliver() of WebhookService).
THEOREM DisablingIsEarned == InfraSpec => []DisabledOnlyByExhaustion
<1>1. HookInv => DisabledOnlyByExhaustion
  <2> SUFFICES ASSUME HookInv, NEW s \in Sub, sub[s].state = "disabled" \/ s \in notified
               PROVE  exhausted[s] >= MaxConsecutive
    BY DEF DisabledOnlyByExhaustion, Hooks!DisabledOnlyByExhaustion
  <2> QED  BY DEF HookInv, RowsPaid, Paid, NotifiedPaid, Hooks!Exists
<1> QED  BY <1>1, HooksAlways, PTL

\* A deleted webhook subscription stays deleted, unless a delivery that had read it
\* before is saved after (deleteSubscription against deliver()).
THEOREM RemovalsHold == InfraSpec => RemovedStaysRemoved
<1>1. ASSUME HookInv, NEW s \in Sub, sub[s] = Hooks!Removed, s \notin outlived, Hooks!Next
      PROVE  sub'[s] = Hooks!Removed
  <2>1. \A t \in Sub : Hooks!Register(t) \/ Hooks!Remove(t) \/ Hooks!CleanUp(t) => sub'[s] = Hooks!Removed
    BY <1>1 DEF Hooks!Register, Hooks!Remove, Hooks!CleanUp, Hooks!Unregistered, Hooks!Removed, HookInv, HookTypes
  <2>2. ASSUME NEW d \in Delivery, Hooks!Save(d) PROVE sub'[s] = Hooks!Removed
    <3>1. delivery[d].copy # Hooks!NoCopy => delivery[d].to # s
      BY <1>1, <2>2, HookRow DEF HookInv, RemovedUncopied, Hooks!Save
    <3> QED  BY <1>1, <2>2, <3>1 DEF Hooks!Save
  <2>3. \A d \in Delivery : (\/ \E t \in Sub : Hooks!Publish(d, t) \/ Hooks!Redeliver(d, t) \/ Hooks!TestDelivery(d, t)
                             \/ Hooks!Load(d) \/ Hooks!AttemptFails(d) \/ Hooks!AttemptSucceeds(d)
                             \/ Hooks!Abandon(d)) => sub'[s] = Hooks!Removed
    BY <1>1 DEF Hooks!Publish, Hooks!Redeliver, Hooks!TestDelivery, Hooks!Begin, Hooks!Load, Hooks!AttemptFails,
                Hooks!AttemptSucceeds, Hooks!Abandon
  <2> QED  BY <1>1, <2>1, <2>2, <2>3 DEF Hooks!Next
<1>2. HookInv /\ [InfraNext]_allVars =>
        [\A s \in Sub : sub[s] = Hooks!Removed /\ s \notin outlived => sub'[s] = Hooks!Removed]_(Hooks!vars)
  BY <1>1 DEF InfraNext, allVars, hookVars, Hooks!vars
<1> QED  BY <1>2, HooksAlways, PTL DEF InfraSpec, RemovedStaysRemoved, Hooks!RemovedStaysRemoved

----------------------------------------------------------------------------
(* Jobs *)

Unrepeated(q) == \A i, k \in DOMAIN q : q[i] = q[k] => i = k

LEMMA Pushed ==
  ASSUME NEW S, NEW q \in Seq(S), NEW j \in S
  PROVE  /\ <<j>> \o q \in Seq(S) /\ Jobs!ToSet(<<j>> \o q) = Jobs!ToSet(q) \cup {j}
         /\ j \notin Jobs!ToSet(q) /\ Unrepeated(q) => Unrepeated(<<j>> \o q)
<1> DEFINE r == <<j>> \o q
           n == Len(q)
<1>1. r \in Seq(S) /\ Len(r) = n + 1 /\ r[1] = j /\ n \in Nat /\ DOMAIN r = 1..(n + 1) /\ DOMAIN q = 1..n
  OBVIOUS
<1>2. \A i \in 1..n : r[i + 1] = q[i]
  OBVIOUS
<1> HIDE DEF r, n
<1>3. ASSUME NEW i \in DOMAIN r PROVE i = 1 \/ (i - 1 \in DOMAIN q /\ r[i] = q[i - 1])
  <2>1. CASE i # 1
    <3>1. i - 1 \in 1..n /\ (i - 1) + 1 = i
      BY <1>1, <1>3, <2>1
    <3>2. r[(i - 1) + 1] = q[i - 1]
      BY <1>2, <3>1
    <3> QED  BY <1>1, <3>1, <3>2
  <2> QED  BY <2>1
<1>4. ASSUME NEW i \in DOMAIN q PROVE i + 1 \in DOMAIN r /\ r[i + 1] = q[i]
  BY <1>1, <1>2, <1>4
<1>5. 1 \in DOMAIN r
  BY <1>1
<1>6. Jobs!ToSet(r) = Jobs!ToSet(q) \cup {j}
  <2>1. Jobs!ToSet(r) \subseteq Jobs!ToSet(q) \cup {j}
    BY <1>1, <1>3 DEF Jobs!ToSet
  <2>2. ASSUME NEW i \in DOMAIN q PROVE q[i] \in Jobs!ToSet(r)
    BY <1>4, <2>2 DEF Jobs!ToSet
  <2>3. j \in Jobs!ToSet(r)
    BY <1>1, <1>5 DEF Jobs!ToSet
  <2> QED  BY <2>1, <2>2, <2>3 DEF Jobs!ToSet
<1>7. ASSUME j \notin Jobs!ToSet(q), Unrepeated(q) PROVE Unrepeated(r)
  <2> SUFFICES ASSUME NEW i \in DOMAIN r, NEW k \in DOMAIN r, r[i] = r[k] PROVE i = k
    BY DEF Unrepeated
  <2>1. i \in Int /\ k \in Int
    BY <1>1
  <2>2. \A l \in DOMAIN q : q[l] # j
    BY <1>7 DEF Jobs!ToSet
  <2>3. i # 1 /\ k # 1 => i - 1 = k - 1
    BY <1>3, <1>7 DEF Unrepeated
  <2>4. i = 1 => k = 1
    BY <1>1, <1>3, <2>2
  <2>5. k = 1 => i = 1
    BY <1>1, <1>3, <2>2
  <2> QED  BY <2>1, <2>3, <2>4, <2>5
<1> QED  BY <1>1, <1>6, <1>7 DEF r

LEMMA Popped ==
  ASSUME NEW S, NEW q \in Seq(S), q # <<>>, Unrepeated(q)
  PROVE  /\ Jobs!Front(q) \in Seq(S) /\ Jobs!Last(q) \in Jobs!ToSet(q)
         /\ Jobs!ToSet(Jobs!Front(q)) = Jobs!ToSet(q) \ {Jobs!Last(q)}
         /\ Unrepeated(Jobs!Front(q))
<1> DEFINE f == Jobs!Front(q)
           n == Len(q)
<1>1. f = SubSeq(q, 1, n - 1) /\ Jobs!Last(q) = q[n] /\ n \in Nat \ {0} /\ DOMAIN q = 1..n
  BY DEF Jobs!Front, Jobs!Last
<1>2. \A i \in 1..n : q[i] \in S
  OBVIOUS
<1> HIDE DEF f, n
<1>3. f = [i \in 1..(n - 1) |-> q[i]]
  BY <1>1
<1>4. f \in Seq(S) /\ DOMAIN f = 1..(n - 1) /\ \A i \in 1..(n - 1) : f[i] = q[i]
  BY <1>1, <1>2, <1>3
<1>5. \A i \in DOMAIN q : i = n \/ i \in DOMAIN f
  BY <1>1, <1>4
<1>6. \A i \in DOMAIN f : i \in DOMAIN q /\ i # n
  BY <1>1, <1>4
<1>7. n \in DOMAIN q
  BY <1>1
<1>8. Jobs!ToSet(f) = Jobs!ToSet(q) \ {q[n]}
  <2>1. ASSUME NEW i \in DOMAIN f PROVE f[i] \in Jobs!ToSet(q) /\ f[i] # q[n]
    BY <1>4, <1>6, <1>7, <2>1 DEF Jobs!ToSet, Unrepeated
  <2>2. ASSUME NEW i \in DOMAIN q, q[i] # q[n] PROVE q[i] \in Jobs!ToSet(f)
    <3>1. i \in DOMAIN f /\ f[i] = q[i]
      BY <1>4, <1>5, <2>2
    <3> QED  BY <3>1 DEF Jobs!ToSet
  <2> QED  BY <2>1, <2>2 DEF Jobs!ToSet
<1>9. Unrepeated(f)
  BY <1>4, <1>6 DEF Unrepeated
<1> QED  BY <1>1, <1>4, <1>7, <1>8, <1>9 DEF f, Jobs!ToSet

Attempt == [stage : {"reserved", "running", "succeeded", "threw"}, id : Job, attempts : Nat]
Outcomes == {"completed", "failed"}

JobTypes ==
    /\ job \in [Job -> [status : Jobs!Status, attempts : Nat]]
    /\ queue \in [Jobs!Priority -> Seq(Job)] /\ dlq \in Seq(Job)
    /\ hand \in [JobWorker -> Attempt \cup {Jobs!Idle}] /\ timers \subseteq JobWorker \X Job
    /\ dropped \subseteq Job /\ jobFaults \in Nat /\ announced \in [AiJob -> Seq(Outcomes)]

\* Where jobs are.
InHand == {hand[w].id : w \in {v \in JobWorker : hand[v] # Jobs!Idle}}
BackingOff == {t[2] : t \in timers}
Queued == Jobs!ToSet(queue["critical"]) \cup Jobs!ToSet(queue["low"])
Gone == dropped \cup Jobs!ToSet(dlq)

\* Each job is at one place, and at one spot of it.
HandsApart == \A w, v \in JobWorker :
                hand[w] # Jobs!Idle /\ hand[v] # Jobs!Idle /\ hand[w].id = hand[v].id => w = v
TimersApart == \A t, u \in timers : t[2] = u[2] => t = u
ListsApart == \A p \in Jobs!Priority :
                /\ Unrepeated(queue[p])
                /\ \A j \in Jobs!ToSet(queue[p]) : Jobs!PriorityOf(j) = p
PlacesApart ==
    /\ InHand \cap (BackingOff \cup Queued \cup Gone) = {}
    /\ BackingOff \cap (Queued \cup Gone) = {} /\ Queued \cap Gone = {}

\* Only jobs on record are anywhere, and those not completed are somewhere.
Somewhere == InHand \cup BackingOff \cup Queued \cup Gone
OnRecord == \A j \in Somewhere : j \in Job /\ job[j].status # "none"
NotLost == \A j \in Job : job[j].status \notin {"none", "completed"} => j \in Somewhere

PlacesInv == HandsApart /\ TimersApart /\ ListsApart /\ PlacesApart /\ OnRecord /\ NotLost

\* What was announced so far, against the faults so far.
AtMost(j, n) == Len(announced[j]) <= n
AllTold == \A j \in AiJob : AtMost(j, 1 + jobFaults)
WaitingTold == \A j \in AiJob : j \in BackingOff \cup Queued => AtMost(j, jobFaults)
NewTold == \A j \in AiJob : j \in Job /\ job[j].status = "none" => AtMost(j, 0)
Open(h) == h.stage \in {"reserved", "running"} \/ (h.stage = "threw" /\ h.attempts < MaxJobAttempts)
HeldTold == \A w \in JobWorker :
              hand[w] # Jobs!Idle /\ Open(hand[w]) /\ hand[w].id \in AiJob => AtMost(hand[w].id, jobFaults)

ToldInv == AllTold /\ WaitingTold /\ NewTold /\ HeldTold

JobInv == JobTypes /\ PlacesInv /\ ToldInv

LEMMA JobInit == Jobs!Init => JobInv
<1> SUFFICES ASSUME Jobs!Init PROVE JobInv
  OBVIOUS
<1>1. /\ job = [j \in Job |-> [status |-> "none", attempts |-> 0]]
      /\ queue = [p \in Jobs!Priority |-> <<>>] /\ dlq = <<>>
      /\ hand = [w \in JobWorker |-> Jobs!Idle] /\ timers = {}
      /\ announced = [j \in AiJob |-> <<>>] /\ dropped = {} /\ jobFaults = 0
  BY DEF Jobs!Init
<1>2. JobTypes
  BY <1>1 DEF JobTypes, Jobs!Status
<1>3. /\ InHand = {} /\ BackingOff = {} /\ \A p \in Jobs!Priority : Jobs!ToSet(queue[p]) = {}
      /\ Queued = {} /\ Gone = {}
  BY <1>1 DEF InHand, BackingOff, Queued, Gone, Jobs!ToSet, Jobs!Priority
<1>4. HandsApart /\ TimersApart /\ ListsApart
  BY <1>1, <1>3 DEF HandsApart, TimersApart, ListsApart, Unrepeated
<1>5. PlacesApart /\ OnRecord /\ NotLost
  BY <1>1, <1>3 DEF PlacesApart, OnRecord, NotLost, Somewhere
<1>6. ToldInv
  BY <1>1, <1>3 DEF ToldInv, AllTold, WaitingTold, NewTold, HeldTold, AtMost
<1> QED  BY <1>2, <1>4, <1>5, <1>6 DEF JobInv, PlacesInv

\* Lists.
LEMMA ListPushed ==
  ASSUME JobTypes, ListsApart, NEW j \in Job, j \notin Queued, Jobs!Push(j)
  PROVE  queue' \in [Jobs!Priority -> Seq(Job)] /\ ListsApart' /\ Queued' = Queued \cup {j}
<1> DEFINE p == Jobs!PriorityOf(j)
           q == queue[p]
           r == <<j>> \o q
<1>1. p \in Jobs!Priority /\ Jobs!Priority = {"critical", "low"}
  BY DEF Jobs!PriorityOf, Jobs!Priority
<1>2. q \in Seq(Job) /\ queue \in [Jobs!Priority -> Seq(Job)]
  BY <1>1 DEF JobTypes
<1>3. queue' = [queue EXCEPT ![p] = r]
  BY <1>2 DEF Jobs!Push
<1>4. r \in Seq(Job) /\ Jobs!ToSet(r) = Jobs!ToSet(q) \cup {j} /\ Unrepeated(r)
  <2>1. j \notin Jobs!ToSet(q) /\ Unrepeated(q)
    BY <1>1 DEF Queued, ListsApart
  <2> QED  BY <1>2, <2>1, Pushed
<1> HIDE DEF r, p
<1>5. queue' \in [Jobs!Priority -> Seq(Job)] /\ queue'[p] = r /\ \A o \in Jobs!Priority : o # p => queue'[o] = queue[o]
  BY <1>1, <1>2, <1>3, <1>4
<1>6. Queued' = Queued \cup {j}
  <2>1. Queued' = Jobs!ToSet(queue'["critical"]) \cup Jobs!ToSet(queue'["low"])
    BY DEF Queued, Jobs!ToSet
  <2>2. CASE p = "critical"
    BY <1>1, <1>4, <1>5, <2>1, <2>2 DEF Queued
  <2>3. CASE p = "low"
    BY <1>1, <1>4, <1>5, <2>1, <2>3 DEF Queued
  <2> QED  BY <1>1, <2>2, <2>3
<1>7. ListsApart'
  <2>1. \A o \in Jobs!Priority : Unrepeated(queue'[o]) /\ \A k \in Jobs!ToSet(queue'[o]) : Jobs!PriorityOf(k) = o
    BY <1>1, <1>4, <1>5 DEF ListsApart, p
  <2> QED  BY <2>1 DEF ListsApart, Unrepeated, Jobs!ToSet, Jobs!PriorityOf, Jobs!Priority
<1> QED  BY <1>5, <1>6, <1>7

LEMMA ListPopped ==
  ASSUME JobTypes, ListsApart, NEW p \in Jobs!Priority, queue[p] # <<>>,
         queue' = [queue EXCEPT ![p] = Jobs!Front(@)]
  PROVE  /\ queue' \in [Jobs!Priority -> Seq(Job)] /\ ListsApart'
         /\ Jobs!Last(queue[p]) \in Queued /\ Queued' = Queued \ {Jobs!Last(queue[p])}
<1> DEFINE q == queue[p]
           f == Jobs!Front(q)
           j == Jobs!Last(q)
<1>1. Jobs!Priority = {"critical", "low"}
  BY DEF Jobs!Priority
<1>2. q \in Seq(Job) /\ queue \in [Jobs!Priority -> Seq(Job)] /\ Unrepeated(q)
  BY DEF JobTypes, ListsApart
<1>3. queue' = [queue EXCEPT ![p] = f]
  BY <1>2
<1>4. f \in Seq(Job) /\ j \in Jobs!ToSet(q) /\ Jobs!ToSet(f) = Jobs!ToSet(q) \ {j} /\ Unrepeated(f)
  BY <1>2, Popped
<1>5. \A o \in Jobs!Priority : o # p => j \notin Jobs!ToSet(queue[o])
  BY <1>4 DEF ListsApart
<1> HIDE DEF f, j
<1>6. queue' \in [Jobs!Priority -> Seq(Job)] /\ queue'[p] = f /\ \A o \in Jobs!Priority : o # p => queue'[o] = queue[o]
  BY <1>2, <1>3, <1>4
<1>7. j \in Queued
  BY <1>1, <1>4 DEF Queued
<1>8. Queued' = Queued \ {j}
  <2>1. Queued' = Jobs!ToSet(queue'["critical"]) \cup Jobs!ToSet(queue'["low"])
    BY DEF Queued, Jobs!ToSet
  <2>2. CASE p = "critical"
    BY <1>1, <1>4, <1>5, <1>6, <2>1, <2>2 DEF Queued
  <2>3. CASE p = "low"
    BY <1>1, <1>4, <1>5, <1>6, <2>1, <2>3 DEF Queued
  <2> QED  BY <1>1, <2>2, <2>3
<1>9. ListsApart'
  <2>1. \A o \in Jobs!Priority : Unrepeated(queue'[o]) /\ \A k \in Jobs!ToSet(queue'[o]) : Jobs!PriorityOf(k) = o
    BY <1>1, <1>4, <1>6 DEF ListsApart
  <2> QED  BY <2>1 DEF ListsApart, Unrepeated, Jobs!ToSet, Jobs!PriorityOf, Jobs!Priority
<1> QED  BY <1>6, <1>7, <1>8, <1>9 DEF j

\* Hands.
LEMMA HandTakes ==
  ASSUME JobTypes, HandsApart, NEW w \in JobWorker, hand[w] = Jobs!Idle, NEW h \in Attempt,
         h.id \notin InHand, hand' = [hand EXCEPT ![w] = h]
  PROVE  hand' \in [JobWorker -> Attempt \cup {Jobs!Idle}] /\ HandsApart' /\ InHand' = InHand \cup {h.id}
<1>1. hand' \in [JobWorker -> Attempt \cup {Jobs!Idle}]
  BY DEF JobTypes
<1>2. h # Jobs!Idle
  BY DEF Attempt, Jobs!Idle
<1>3. hand'[w] = h /\ \A v \in JobWorker : v # w => hand'[v] = hand[v]
  BY DEF JobTypes
<1>4. HandsApart'
  BY <1>2, <1>3 DEF HandsApart, InHand, Jobs!Idle
<1>5. InHand' = InHand \cup {h.id}
  BY <1>2, <1>3 DEF InHand, Jobs!Idle
<1> QED  BY <1>1, <1>4, <1>5

LEMMA HandFrees ==
  ASSUME JobTypes, HandsApart, NEW w \in JobWorker, hand[w] # Jobs!Idle, hand' = [hand EXCEPT ![w] = Jobs!Idle]
  PROVE  /\ hand' \in [JobWorker -> Attempt \cup {Jobs!Idle}] /\ HandsApart'
         /\ hand[w].id \in InHand /\ InHand' = InHand \ {hand[w].id}
<1>1. hand' \in [JobWorker -> Attempt \cup {Jobs!Idle}]
  BY DEF JobTypes
<1>2. hand'[w] = Jobs!Idle /\ \A v \in JobWorker : v # w => hand'[v] = hand[v]
  BY DEF JobTypes
<1>3. HandsApart'
  BY <1>2 DEF HandsApart, Jobs!Idle
<1>4. InHand' = InHand \ {hand[w].id}
  BY <1>2 DEF HandsApart, InHand, Jobs!Idle
<1> QED  BY <1>1, <1>3, <1>4 DEF InHand

LEMMA HandGoesOn ==
  ASSUME JobTypes, HandsApart, NEW w \in JobWorker, hand[w] # Jobs!Idle, NEW h \in Attempt,
         h.id = hand[w].id, hand' = [hand EXCEPT ![w] = h]
  PROVE  hand' \in [JobWorker -> Attempt \cup {Jobs!Idle}] /\ HandsApart' /\ InHand' = InHand
<1>1. hand' \in [JobWorker -> Attempt \cup {Jobs!Idle}]
  BY DEF JobTypes
<1>2. h # Jobs!Idle
  BY DEF Attempt, Jobs!Idle
<1>3. hand'[w] = h /\ \A v \in JobWorker : v # w => hand'[v] = hand[v]
  BY DEF JobTypes
<1>4. \A v \in JobWorker : (hand'[v] # Jobs!Idle <=> hand[v] # Jobs!Idle)
                             /\ (hand[v] # Jobs!Idle => hand'[v].id = hand[v].id)
  BY <1>2, <1>3
<1>5. HandsApart'
  BY <1>4 DEF HandsApart, Jobs!Idle
<1>6. InHand' = InHand
  BY <1>4 DEF InHand, Jobs!Idle
<1> QED  BY <1>1, <1>5, <1>6

\* A worker that is at some stage holds a job, which is nowhere else.
LEMMA HandRow ==
  ASSUME JobInv, NEW w \in JobWorker, hand[w].stage \in {"reserved", "running", "succeeded", "threw"}
  PROVE  /\ hand[w] # Jobs!Idle /\ hand[w] \in Attempt /\ hand[w].id \in Job /\ hand[w].attempts \in Nat
         /\ hand[w].id \in InHand /\ hand[w].id \notin BackingOff \cup Queued \cup Gone
         /\ job[hand[w].id].status # "none" /\ job[hand[w].id].attempts \in Nat
<1>1. hand[w] # Jobs!Idle /\ hand[w] \in Attempt
  BY DEF JobInv, JobTypes, Jobs!Idle
<1>2. hand[w].id \in InHand
  BY <1>1 DEF InHand
<1> QED  BY <1>1, <1>2 DEF JobInv, JobTypes, PlacesInv, PlacesApart, OnRecord, Somewhere, Attempt

\* Jobs that only change their records: none loses its status, and one that is in no
\* place has completed.
LEMMA RecordsOnly ==
  ASSUME JobInv, UNCHANGED <<queue, dlq, timers, dropped>>, InHand' = InHand, HandsApart',
         \A j \in Job : job'[j].status = "none" <=> job[j].status = "none",
         \A j \in Job : j \notin Somewhere => job'[j].status = job[j].status
  PROVE  PlacesInv' /\ BackingOff' = BackingOff /\ Queued' = Queued /\ Gone' = Gone
<1>1. BackingOff' = BackingOff /\ Queued' = Queued /\ Gone' = Gone
  BY DEF BackingOff, Queued, Gone, Jobs!ToSet
<1>2. TimersApart' /\ ListsApart'
  BY DEF JobInv, PlacesInv, TimersApart, ListsApart, Unrepeated, Jobs!ToSet, Jobs!PriorityOf, Jobs!Priority
<1>3. Somewhere' = Somewhere
  BY <1>1 DEF Somewhere
<1>4. PlacesApart' /\ OnRecord' /\ NotLost'
  BY <1>1, <1>3 DEF JobInv, PlacesInv, PlacesApart, OnRecord, NotLost
<1> QED  BY <1>1, <1>2, <1>4 DEF PlacesInv

\* No announcement: what was announced so far still fits the faults so far.
LEMMA ToldStays ==
  ASSUME JobInv, announced' = announced, jobFaults' \in Nat, jobFaults <= jobFaults',
         \A j \in AiJob : j \in (BackingOff \cup Queued)' => AtMost(j, jobFaults'),
         \A j \in Job : job'[j].status = "none" => job[j].status = "none",
         \A w \in JobWorker : hand'[w] # Jobs!Idle /\ Open(hand'[w]) /\ hand'[w].id \in AiJob =>
           AtMost(hand'[w].id, jobFaults')
  PROVE  ToldInv'
<1>1. \A j \in AiJob : Len(announced[j]) \in Nat
  BY DEF JobInv, JobTypes
<1> USE DEF JobInv, ToldInv
<1>3. AllTold'
  <2>1. \A j \in AiJob : Len(announced[j]) <= 1 + jobFaults'
    BY <1>1 DEF AllTold, AtMost, JobTypes
  <2> QED  BY <2>1 DEF AllTold, AtMost
<1>4. WaitingTold' /\ NewTold'
  BY DEF WaitingTold, NewTold, AtMost
<1>5. HeldTold'
  BY DEF HeldTold, AtMost, Open, Jobs!Idle
<1> QED  BY <1>3, <1>4, <1>5

\* What they say of jobs in lists and behind timers, and of open hands.
LEMMA ToldOf ==
  ASSUME JobInv
  PROVE  /\ \A j \in AiJob : j \in BackingOff \cup Queued => AtMost(j, jobFaults) /\ AtMost(j, jobFaults + 1)
         /\ \A w \in JobWorker : hand[w] # Jobs!Idle /\ Open(hand[w]) /\ hand[w].id \in AiJob =>
              AtMost(hand[w].id, jobFaults) /\ AtMost(hand[w].id, jobFaults + 1)
<1>1. \A j \in AiJob : Len(announced[j]) \in Nat
  BY DEF JobInv, JobTypes
<1>2. \A j \in AiJob : AtMost(j, jobFaults) => AtMost(j, jobFaults + 1)
  BY <1>1 DEF AtMost, JobInv, JobTypes
<1> QED  BY <1>2 DEF JobInv, ToldInv, WaitingTold, HeldTold

LEMMA JobEnqueue ==
  ASSUME JobInv, NEW j \in Job, Jobs!Enqueue(j)
  PROVE  JobInv'
<1> DEFINE n == [job[j] EXCEPT !.status = "pending"]
<1>1. /\ job[j].status = "none" /\ job' = [job EXCEPT ![j] = n] /\ UNCHANGED <<dlq, hand, timers, announced>>
      /\ \/ Jobs!Push(j) /\ UNCHANGED <<dropped, jobFaults>>
         \/ jobFaults' = jobFaults + 1 /\ dropped' = dropped \cup {j} /\ queue' = queue
  BY DEF Jobs!Enqueue, Jobs!SetStatus, Jobs!JobFault, Jobs!Drop, JobInv, JobTypes
<1>2. job[j] \in [status : Jobs!Status, attempts : Nat] /\ job \in [Job -> [status : Jobs!Status, attempts : Nat]]
  BY DEF JobInv, JobTypes
<1>3. n \in [status : Jobs!Status, attempts : Nat] /\ n.status = "pending"
  BY <1>2 DEF Jobs!Status
<1> HIDE DEF n
<1>4. /\ job' \in [Job -> [status : Jobs!Status, attempts : Nat]] /\ job'[j].status = "pending"
      /\ \A k \in Job : k # j => job'[k] = job[k]
  BY <1>1, <1>2, <1>3
<1>5. j \notin Somewhere
  BY <1>1 DEF JobInv, PlacesInv, OnRecord
<1>6. InHand' = InHand /\ BackingOff' = BackingOff /\ HandsApart' /\ TimersApart'
  BY <1>1 DEF InHand, BackingOff, JobInv, PlacesInv, HandsApart, TimersApart, Jobs!Idle
<1>7. /\ queue' \in [Jobs!Priority -> Seq(Job)] /\ ListsApart'
      /\ \/ Queued' = Queued \cup {j} /\ Gone' = Gone
         \/ Queued' = Queued /\ Gone' = Gone \cup {j}
  <2>1. CASE Jobs!Push(j) /\ dropped' = dropped
    <3>1. queue' \in [Jobs!Priority -> Seq(Job)] /\ ListsApart' /\ Queued' = Queued \cup {j}
      BY <1>5, <2>1, ListPushed DEF JobInv, PlacesInv, Somewhere
    <3>2. Gone' = Gone
      BY <1>1, <2>1 DEF Gone, Jobs!ToSet
    <3> QED  BY <3>1, <3>2
  <2>2. CASE dropped' = dropped \cup {j} /\ queue' = queue
    <3>1. Queued' = Queued /\ Gone' = Gone \cup {j}
      BY <1>1, <2>2 DEF Queued, Gone, Jobs!ToSet
    <3>2. ListsApart'
      BY <2>2 DEF JobInv, PlacesInv, ListsApart, Unrepeated, Jobs!ToSet, Jobs!PriorityOf, Jobs!Priority
    <3> QED  BY <2>2, <3>1, <3>2 DEF JobInv, JobTypes
  <2> QED  BY <1>1, <2>1, <2>2
<1>8. JobTypes'
  BY <1>1, <1>4, <1>7 DEF JobInv, JobTypes, Jobs!Status, Attempt, Outcomes, Jobs!Idle, Jobs!Priority
<1>9. PlacesApart'
  BY <1>5, <1>6, <1>7 DEF JobInv, PlacesInv, PlacesApart, Somewhere
<1>10. Somewhere' = Somewhere \cup {j}
  BY <1>6, <1>7 DEF Somewhere
<1>11. OnRecord' /\ NotLost'
  BY <1>4, <1>10 DEF JobInv, PlacesInv, OnRecord, NotLost
<1>12. ToldInv'
  <2>1. jobFaults' \in {jobFaults, jobFaults + 1} /\ jobFaults' \in Nat /\ jobFaults <= jobFaults'
    BY <1>1 DEF JobInv, JobTypes
  <2>2. j \in AiJob => AtMost(j, 0)
    BY <1>1 DEF JobInv, ToldInv, NewTold
  <2>3. j \in AiJob => AtMost(j, jobFaults')
    BY <2>1, <2>2 DEF AtMost, JobInv, JobTypes
  <2>4. \A k \in AiJob : k \in (BackingOff \cup Queued)' => AtMost(k, jobFaults')
    BY <1>6, <1>7, <2>1, <2>3, ToldOf
  <2>5. \A w \in JobWorker : hand'[w] # Jobs!Idle /\ Open(hand'[w]) /\ hand'[w].id \in AiJob =>
          AtMost(hand'[w].id, jobFaults')
    BY <1>1, <2>1, ToldOf
  <2>6. \A k \in Job : job'[k].status = "none" => job[k].status = "none"
    BY <1>4
  <2> QED  BY <1>1, <2>1, <2>4, <2>5, <2>6, ToldStays
<1> QED  BY <1>6, <1>7, <1>8, <1>9, <1>11, <1>12 DEF JobInv, PlacesInv

LEMMA JobReserve ==
  ASSUME JobInv, NEW w \in JobWorker, Jobs!Reserve(w)
  PROVE  JobInv'
<1>1. PICK p \in Jobs!Priority :
        /\ queue[p] # <<>>
        /\ Jobs!Hold(w, [stage |-> "reserved", id |-> Jobs!Last(queue[p]), attempts |-> job[Jobs!Last(queue[p])].attempts])
        /\ queue' = [queue EXCEPT ![p] = Jobs!Front(@)]
  BY DEF Jobs!Reserve
<1> DEFINE j == Jobs!Last(queue[p])
           h == [stage |-> "reserved", id |-> j, attempts |-> job[j].attempts]
<1>2. hand[w] = Jobs!Idle /\ UNCHANGED <<job, dlq, timers, announced, dropped, jobFaults>> /\ hand' = [hand EXCEPT ![w] = h]
  BY <1>1 DEF Jobs!Reserve, Jobs!Hold
<1>3. /\ queue' \in [Jobs!Priority -> Seq(Job)] /\ ListsApart'
      /\ j \in Queued /\ Queued' = Queued \ {j}
  BY <1>1, ListPopped DEF JobInv, PlacesInv
<1> HIDE DEF j
<1>4. j \in Job /\ j \notin InHand \cup BackingOff \cup Gone /\ job[j].status # "none"
  BY <1>3 DEF JobInv, PlacesInv, PlacesApart, OnRecord, Somewhere
<1>5. h \in Attempt /\ h.id = j
  BY <1>4 DEF Attempt, JobInv, JobTypes
<1> HIDE DEF h
<1>6. hand' \in [JobWorker -> Attempt \cup {Jobs!Idle}] /\ HandsApart' /\ InHand' = InHand \cup {j}
  BY <1>2, <1>4, <1>5, HandTakes DEF JobInv, PlacesInv
<1>7. BackingOff' = BackingOff /\ Gone' = Gone /\ TimersApart'
  BY <1>2 DEF BackingOff, Gone, Jobs!ToSet, JobInv, PlacesInv, TimersApart
<1>8. Somewhere' = Somewhere
  BY <1>3, <1>6, <1>7 DEF Somewhere
<1>9. JobTypes'
  BY <1>2, <1>3, <1>6 DEF JobInv, JobTypes, Jobs!Status, Attempt, Outcomes, Jobs!Idle, Jobs!Priority
<1>10. PlacesApart' /\ OnRecord' /\ NotLost'
  BY <1>2, <1>3, <1>4, <1>6, <1>7, <1>8 DEF JobInv, PlacesInv, PlacesApart, OnRecord, NotLost
<1>11. ToldInv'
  <2>1. \A k \in AiJob : k \in (BackingOff \cup Queued)' => AtMost(k, jobFaults)
    BY <1>3, <1>7, ToldOf
  <2>2. \A v \in JobWorker : hand'[v] # Jobs!Idle /\ Open(hand'[v]) /\ hand'[v].id \in AiJob =>
          AtMost(hand'[v].id, jobFaults)
    <3>1. j \in AiJob => AtMost(j, jobFaults)
      BY <1>3, ToldOf
    <3>2. hand'[w] = h /\ \A v \in JobWorker : v # w => hand'[v] = hand[v]
      BY <1>2 DEF JobInv, JobTypes
    <3> QED  BY <1>5, <3>1, <3>2, ToldOf
  <2> QED  BY <1>2, <2>1, <2>2, ToldStays DEF JobInv, JobTypes
<1> QED  BY <1>3, <1>6, <1>7, <1>9, <1>10, <1>11 DEF JobInv, PlacesInv

\* A worker lets a job go: it has completed, it is gone, or it backs off.
LEMMA HandLets ==
  ASSUME JobInv, NEW w \in JobWorker, hand[w].stage \in {"reserved", "running", "succeeded", "threw"},
         NEW j \in Job, j = hand[w].id, hand' = [hand EXCEPT ![w] = Jobs!Idle], UNCHANGED <<queue, announced>>,
         jobFaults' \in {jobFaults, jobFaults + 1},
         job' \in [Job -> [status : Jobs!Status, attempts : Nat]], job'[j].status # "none",
         \A k \in Job : k # j => job'[k] = job[k],
         dlq' \in Seq(Job), dropped' \subseteq Job,
         \/ job'[j].status = "completed" /\ UNCHANGED <<dlq, timers, dropped>>
         \/ Gone' = Gone \cup {j} /\ timers' = timers
         \/ timers' = timers \cup {<<w, j>>} /\ UNCHANGED <<dlq, dropped>> /\ Open(hand[w])
  PROVE  JobInv'
<1>1. /\ hand[w] # Jobs!Idle /\ hand[w] \in Attempt /\ j \in InHand /\ j \notin BackingOff \cup Queued \cup Gone
  BY HandRow
<1>2. hand' \in [JobWorker -> Attempt \cup {Jobs!Idle}] /\ HandsApart' /\ InHand' = InHand \ {j}
  BY <1>1, HandFrees DEF JobInv, PlacesInv
<1>3. Queued' = Queued /\ ListsApart'
  BY DEF Queued, JobInv, PlacesInv, ListsApart, Unrepeated, Jobs!ToSet, Jobs!PriorityOf, Jobs!Priority
<1>4. /\ timers' \subseteq JobWorker \X Job /\ TimersApart'
      /\ \/ BackingOff' = BackingOff /\ Gone' = Gone /\ job'[j].status = "completed"
         \/ BackingOff' = BackingOff /\ Gone' = Gone \cup {j}
         \/ BackingOff' = BackingOff \cup {j} /\ Gone' = Gone /\ Open(hand[w])
  <2>1. CASE timers' = timers
    <3>1. TimersApart' /\ BackingOff' = BackingOff /\ timers' \subseteq JobWorker \X Job
      BY <2>1 DEF TimersApart, BackingOff, JobInv, JobTypes, PlacesInv
    <3>2. UNCHANGED <<dlq, dropped>> => Gone' = Gone
      BY DEF Gone, Jobs!ToSet
    <3>3. <<w, j>> \notin timers
      <4>1. \A t \in timers : t[2] # j
        BY <1>1 DEF BackingOff
      <4> QED  BY <4>1
    <3> QED  BY <2>1, <3>1, <3>2, <3>3
  <2>2. CASE timers' = timers \cup {<<w, j>>} /\ UNCHANGED <<dlq, dropped>> /\ Open(hand[w])
    <3>1. BackingOff' = BackingOff \cup {j}
      <4>1. <<w, j>>[2] = j
        OBVIOUS
      <4> QED  BY <2>2, <4>1 DEF BackingOff
    <3>4. Gone' = Gone
      BY <2>2 DEF Gone, Jobs!ToSet
    <3>2. TimersApart'
      BY <1>1, <2>2 DEF BackingOff, TimersApart, JobInv, PlacesInv
    <3> QED  BY <2>2, <3>1, <3>2, <3>4 DEF JobInv, JobTypes
  <2> QED  BY <2>1, <2>2
<1>5. JobTypes'
  BY <1>2, <1>4 DEF JobInv, JobTypes, Jobs!Status, Attempt, Outcomes, Jobs!Idle, Jobs!Priority
<1>6. PlacesApart'
  BY <1>1, <1>2, <1>3, <1>4 DEF JobInv, PlacesInv, PlacesApart
<1>7. Somewhere' \subseteq Somewhere /\ Somewhere \subseteq Somewhere' \cup {j} /\ (job'[j].status # "completed" => j \in Somewhere')
  BY <1>1, <1>2, <1>3, <1>4 DEF Somewhere
<1>8. OnRecord' /\ NotLost'
  BY <1>7 DEF JobInv, PlacesInv, OnRecord, NotLost
<1>9. ToldInv'
  <2>1. jobFaults' \in Nat /\ jobFaults <= jobFaults'
    BY DEF JobInv, JobTypes
  <2>2. \A k \in AiJob : k \in (BackingOff \cup Queued)' => AtMost(k, jobFaults')
    BY <1>1, <1>3, <1>4, ToldOf
  <2>3. \A v \in JobWorker : hand'[v] # Jobs!Idle => hand'[v] = hand[v]
    BY DEF JobInv, JobTypes
  <2>4. \A v \in JobWorker : hand'[v] # Jobs!Idle /\ Open(hand'[v]) /\ hand'[v].id \in AiJob =>
          AtMost(hand'[v].id, jobFaults')
    BY <2>3, ToldOf
  <2>5. \A k \in Job : job'[k].status = "none" => job[k].status = "none"
    OBVIOUS
  <2> QED  BY <2>1, <2>2, <2>4, <2>5, ToldStays
<1> QED  BY <1>2, <1>3, <1>4, <1>5, <1>6, <1>8, <1>9 DEF JobInv, PlacesInv

\* A record that is marked or set to a status.
LEMMA Marked ==
  ASSUME JobInv, NEW j \in Job, NEW r \in [status : Jobs!Status \ {"none"}, attempts : Nat],
         job' = [job EXCEPT ![j] = r]
  PROVE  /\ job' \in [Job -> [status : Jobs!Status, attempts : Nat]] /\ job'[j] = r /\ job'[j].status # "none"
         /\ \A k \in Job : k # j => job'[k] = job[k]
  BY DEF JobInv, JobTypes

LEMMA StatusSet ==
  ASSUME JobInv, NEW j \in Job, NEW s \in Jobs!Status, s # "none", Jobs!SetStatus(j, s)
  PROVE  /\ job' \in [Job -> [status : Jobs!Status, attempts : Nat]] /\ job'[j].status = s
         /\ \A k \in Job : k # j => job'[k] = job[k]
<1> DEFINE r == [job[j] EXCEPT !.status = s]
<1>1. r \in [status : Jobs!Status \ {"none"}, attempts : Nat] /\ r.status = s
  BY DEF JobInv, JobTypes
<1>2. job' = [job EXCEPT ![j] = r]
  BY DEF Jobs!SetStatus
<1> HIDE DEF r
<1> QED  BY <1>1, <1>2, Marked

LEMMA RecordKept ==
  ASSUME JobInv, NEW j \in Job, job[j].status # "none", job' = job
  PROVE  /\ job' \in [Job -> [status : Jobs!Status, attempts : Nat]] /\ job'[j].status # "none"
         /\ \A k \in Job : k # j => job'[k] = job[k]
  BY DEF JobInv, JobTypes

\* A fault drops the job a worker holds.
LEMMA HandDrops ==
  ASSUME JobInv, NEW w \in JobWorker, hand[w].stage \in {"reserved", "running", "succeeded", "threw"},
         Jobs!Hold(w, Jobs!Idle), Jobs!Drop({hand[w].id}), Jobs!JobFault, UNCHANGED <<queue, dlq, timers, announced>>,
         job' \in [Job -> [status : Jobs!Status, attempts : Nat]], job'[hand[w].id].status # "none",
         \A k \in Job : k # hand[w].id => job'[k] = job[k]
  PROVE  JobInv'
<1> DEFINE j == hand[w].id
<1>1. j \in Job
  BY HandRow
<1>2. hand' = [hand EXCEPT ![w] = Jobs!Idle] /\ dropped' = dropped \cup {j} /\ jobFaults' = jobFaults + 1
  BY DEF Jobs!Hold, Jobs!Drop, Jobs!JobFault
<1>3. Gone' = Gone \cup {j}
  BY <1>2 DEF Gone, Jobs!ToSet
<1>4. dlq' \in Seq(Job) /\ dropped' \subseteq Job
  BY <1>1, <1>2 DEF JobInv, JobTypes
<1>5. j = hand[w].id
  OBVIOUS
<1> HIDE DEF j
<1> QED  BY <1>1, <1>2, <1>3, <1>4, <1>5, HandLets

LEMMA JobMarkFails ==
  ASSUME JobInv, NEW w \in JobWorker, Jobs!MarkFails(w)
  PROVE  JobInv'
<1> DEFINE j == hand[w].id
           r == [status |-> "processing", attempts |-> job[j].attempts + 1]
<1>1. hand[w].stage = "reserved" /\ (job' = job \/ job' = [job EXCEPT ![j] = r])
  BY DEF Jobs!MarkFails
<1>2. j \in Job /\ job[j].status # "none" /\ job[j].attempts \in Nat
  BY <1>1, HandRow
<1>3. r \in [status : Jobs!Status \ {"none"}, attempts : Nat]
  BY <1>2 DEF Jobs!Status
<1> HIDE DEF r, j
<1>4. /\ job' \in [Job -> [status : Jobs!Status, attempts : Nat]] /\ job'[j].status # "none"
      /\ \A k \in Job : k # j => job'[k] = job[k]
  BY <1>1, <1>2, <1>3, Marked, RecordKept
<1> QED  BY <1>1, <1>4, HandDrops DEF Jobs!MarkFails, j

LEMMA JobFailFails ==
  ASSUME JobInv, NEW w \in JobWorker, Jobs!FailFails(w)
  PROVE  JobInv'
<1> DEFINE j == hand[w].id
<1>1. hand[w].stage = "threw" /\ (job' = job \/ Jobs!SetStatus(j, "pending") \/ Jobs!SetStatus(j, "failed"))
  BY DEF Jobs!FailFails
<1>2. j \in Job /\ job[j].status # "none" /\ {"pending", "failed"} \subseteq Jobs!Status
  BY <1>1, HandRow DEF Jobs!Status
<1> HIDE DEF j
<1>3. /\ job' \in [Job -> [status : Jobs!Status, attempts : Nat]] /\ job'[j].status # "none"
      /\ \A k \in Job : k # j => job'[k] = job[k]
  BY <1>1, <1>2, StatusSet, RecordKept
<1> QED  BY <1>1, <1>3, HandDrops DEF Jobs!FailFails, j

LEMMA JobComplete ==
  ASSUME JobInv, NEW w \in JobWorker, Jobs!Complete(w)
  PROVE  JobInv'
<1> DEFINE j == hand[w].id
<1>1. /\ hand[w].stage = "succeeded" /\ Jobs!SetStatus(j, "completed") /\ hand' = [hand EXCEPT ![w] = Jobs!Idle]
      /\ UNCHANGED <<queue, dlq, timers, announced, dropped, jobFaults>>
  BY DEF Jobs!Complete, Jobs!Hold
<1>2. j \in Job /\ "completed" \in Jobs!Status /\ j = hand[w].id
  BY <1>1, HandRow DEF Jobs!Status
<1>3. dlq' \in Seq(Job) /\ dropped' \subseteq Job
  BY <1>1 DEF JobInv, JobTypes
<1> HIDE DEF j
<1>4. /\ job' \in [Job -> [status : Jobs!Status, attempts : Nat]] /\ job'[j].status = "completed"
      /\ \A k \in Job : k # j => job'[k] = job[k]
  BY <1>1, <1>2, StatusSet
<1> QED  BY <1>1, <1>2, <1>3, <1>4, HandLets

LEMMA JobFail ==
  ASSUME JobInv, NEW w \in JobWorker, Jobs!Fail(w)
  PROVE  JobInv'
<1> DEFINE j == hand[w].id
<1>1. /\ hand[w].stage = "threw" /\ hand' = [hand EXCEPT ![w] = Jobs!Idle]
      /\ UNCHANGED <<queue, announced, dropped, jobFaults>>
  BY DEF Jobs!Fail, Jobs!Hold
<1>2. j \in Job /\ {"pending", "failed"} \subseteq Jobs!Status /\ j = hand[w].id
  BY <1>1, HandRow DEF Jobs!Status
<1>3. dropped' \subseteq Job /\ dlq \in Seq(Job)
  BY <1>1 DEF JobInv, JobTypes
<1>4. CASE hand[w].attempts < MaxJobAttempts
  <2>1. Jobs!SetStatus(j, "pending") /\ timers' = timers \cup {<<w, j>>} /\ dlq' = dlq
    BY <1>4 DEF Jobs!Fail
  <2>2. Open(hand[w])
    BY <1>1, <1>4 DEF Open
  <2> HIDE DEF j
  <2>3. /\ job' \in [Job -> [status : Jobs!Status, attempts : Nat]] /\ job'[j].status # "none"
        /\ \A k \in Job : k # j => job'[k] = job[k]
    BY <1>2, <2>1, StatusSet
  <2> QED  BY <1>1, <1>2, <1>3, <2>1, <2>2, <2>3, HandLets
<1>5. CASE ~(hand[w].attempts < MaxJobAttempts)
  <2>1. Jobs!SetStatus(j, "failed") /\ timers' = timers /\ dlq' = <<j>> \o dlq
    BY <1>5 DEF Jobs!Fail
  <2> HIDE DEF j
  <2>2. dlq' \in Seq(Job) /\ Gone' = Gone \cup {j}
    <3>1. <<j>> \o dlq \in Seq(Job) /\ Jobs!ToSet(<<j>> \o dlq) = Jobs!ToSet(dlq) \cup {j}
      BY <1>2, <1>3, Pushed
    <3>2. Gone' = dropped' \cup Jobs!ToSet(dlq')
      BY DEF Gone, Jobs!ToSet
    <3> QED  BY <1>1, <2>1, <3>1, <3>2 DEF Gone
  <2>3. /\ job' \in [Job -> [status : Jobs!Status, attempts : Nat]] /\ job'[j].status # "none"
        /\ \A k \in Job : k # j => job'[k] = job[k]
    BY <1>2, <2>1, StatusSet
  <2> QED  BY <1>1, <1>2, <1>3, <2>1, <2>2, <2>3, HandLets
<1> QED  BY <1>4, <1>5

\* A worker goes on with its job.
LEMMA HandStays ==
  ASSUME JobInv, NEW w \in JobWorker, hand[w].stage \in {"reserved", "running", "succeeded", "threw"},
         NEW h \in Attempt, h.id = hand[w].id, hand' = [hand EXCEPT ![w] = h],
         UNCHANGED <<queue, dlq, timers, dropped>>, jobFaults' \in {jobFaults, jobFaults + 1},
         announced' \in [AiJob -> Seq(Outcomes)], ToldInv',
         job' \in [Job -> [status : Jobs!Status, attempts : Nat]], job'[h.id].status # "none",
         \A k \in Job : k # h.id => job'[k] = job[k]
  PROVE  JobInv'
<1>1. hand[w] # Jobs!Idle /\ h.id \in InHand /\ job[h.id].status # "none"
  BY HandRow
<1>2. hand' \in [JobWorker -> Attempt \cup {Jobs!Idle}] /\ HandsApart' /\ InHand' = InHand
  BY <1>1, HandGoesOn DEF JobInv, PlacesInv
<1>3. JobTypes'
  BY <1>2 DEF JobInv, JobTypes, Jobs!Status, Attempt, Outcomes, Jobs!Idle, Jobs!Priority
<1>4. h.id \in Somewhere
  BY <1>1 DEF Somewhere
<1>5. PlacesInv'
  BY <1>1, <1>2, <1>4, RecordsOnly
<1> QED  BY <1>3, <1>5 DEF JobInv

\* ... and announces nothing.
LEMMA SilentStep ==
  ASSUME JobInv, NEW w \in JobWorker, hand[w].stage \in {"reserved", "running", "succeeded", "threw"},
         NEW h \in Attempt, h.id = hand[w].id, hand' = [hand EXCEPT ![w] = h],
         UNCHANGED <<queue, timers, announced>>, jobFaults' \in {jobFaults, jobFaults + 1},
         h.id \in AiJob /\ Open(h) => AtMost(h.id, jobFaults'),
         job' \in [Job -> [status : Jobs!Status, attempts : Nat]], job'[h.id].status # "none",
         \A k \in Job : k # h.id => job'[k] = job[k]
  PROVE  ToldInv'
<1>1. jobFaults' \in Nat /\ jobFaults <= jobFaults'
  BY DEF JobInv, JobTypes
<1>2. BackingOff' = BackingOff /\ Queued' = Queued
  BY DEF BackingOff, Queued, Jobs!ToSet
<1>3. \A k \in AiJob : k \in (BackingOff \cup Queued)' => AtMost(k, jobFaults')
  BY <1>2, ToldOf
<1>4. hand'[w] = h /\ \A v \in JobWorker : v # w => hand'[v] = hand[v]
  BY DEF JobInv, JobTypes
<1>5. \A v \in JobWorker : hand'[v] # Jobs!Idle /\ Open(hand'[v]) /\ hand'[v].id \in AiJob =>
        AtMost(hand'[v].id, jobFaults')
  BY <1>4, ToldOf
<1>6. \A k \in Job : job'[k].status = "none" => job[k].status = "none"
  OBVIOUS
<1> QED  BY <1>1, <1>3, <1>5, <1>6, ToldStays

\* ... or announces an outcome, the attempt being closed by it.
LEMMA Announces ==
  ASSUME JobInv, NEW w \in JobWorker, hand[w].stage = "running", hand[w].id \in AiJob, NEW o \in Outcomes,
         NEW h \in Attempt, h.id = hand[w].id, ~Open(h), hand' = [hand EXCEPT ![w] = h],
         announced' = [announced EXCEPT ![h.id] = Append(@, o)], UNCHANGED <<job, queue, timers, jobFaults>>
  PROVE  announced' \in [AiJob -> Seq(Outcomes)] /\ ToldInv'
<1> DEFINE j == h.id
<1>1. /\ hand[w] # Jobs!Idle /\ j \in Job /\ j \notin BackingOff \cup Queued /\ job[j].status # "none"
  BY HandRow
<1>2. announced \in [AiJob -> Seq(Outcomes)] /\ jobFaults \in Nat
  BY DEF JobInv, JobTypes
<1>3. /\ announced' \in [AiJob -> Seq(Outcomes)] /\ Len(announced'[j]) = Len(announced[j]) + 1
      /\ \A k \in AiJob : k # j => announced'[k] = announced[k]
  BY <1>2
<1>4. Len(announced[j]) <= jobFaults /\ Len(announced[j]) \in Nat
  BY <1>1, <1>2, ToldOf DEF Open, AtMost
<1>5. Queued' = Queued /\ BackingOff' = BackingOff
  BY DEF Queued, BackingOff, Jobs!ToSet
<1>6. hand'[w] = h /\ \A v \in JobWorker : v # w => hand'[v] = hand[v]
  BY DEF JobInv, JobTypes
<1>7. \A v \in JobWorker : v # w /\ hand[v] # Jobs!Idle => hand[v].id # j
  BY <1>1 DEF JobInv, PlacesInv, HandsApart
<1> HIDE DEF j
<1>8. AllTold'
  BY <1>2, <1>3, <1>4 DEF AllTold, AtMost, JobInv, ToldInv
<1>9. WaitingTold' /\ NewTold'
  BY <1>1, <1>3, <1>5 DEF WaitingTold, NewTold, AtMost, JobInv, ToldInv
<1>10. HeldTold'
  <2> SUFFICES ASSUME NEW v \in JobWorker, hand'[v] # Jobs!Idle, Open(hand'[v]), hand'[v].id \in AiJob
               PROVE  Len(announced'[hand'[v].id]) <= jobFaults
    BY DEF HeldTold, AtMost, Open, Jobs!Idle
  <2>1. v # w /\ hand'[v] = hand[v] /\ hand[v].id # j
    BY <1>6, <1>7
  <2> QED  BY <1>3, <2>1 DEF HeldTold, AtMost, JobInv, ToldInv
<1> QED  BY <1>3, <1>8, <1>9, <1>10 DEF ToldInv

LEMMA JobMark ==
  ASSUME JobInv, NEW w \in JobWorker, Jobs!Mark(w)
  PROVE  JobInv'
<1> DEFINE old == hand[w]
           j == old.id
           n == job[j].attempts + 1
           r == [status |-> "processing", attempts |-> n]
           h == [old EXCEPT !.stage = "running", !.attempts = n]
<1>1. /\ old.stage = "reserved" /\ job' = [job EXCEPT ![j] = r] /\ hand' = [hand EXCEPT ![w] = h]
      /\ UNCHANGED <<queue, dlq, timers, announced, dropped, jobFaults>>
  BY DEF Jobs!Mark
<1>2. j \in Job /\ job[j].attempts \in Nat /\ old \in Attempt /\ old # Jobs!Idle
  BY <1>1, HandRow
<1>3. r \in [status : Jobs!Status \ {"none"}, attempts : Nat]
  BY <1>2 DEF Jobs!Status
<1>4. h \in Attempt /\ h.id = j /\ j = hand[w].id
  <2>1. n \in Nat
    BY <1>2
  <2> HIDE DEF n
  <2> QED  BY <1>2, <2>1 DEF Attempt
<1>5. j \in AiJob => AtMost(j, jobFaults)
  BY <1>1, <1>2, ToldOf DEF Open
<1> HIDE DEF r, h, j
<1>6. /\ job' \in [Job -> [status : Jobs!Status, attempts : Nat]] /\ job'[j].status # "none"
      /\ \A k \in Job : k # j => job'[k] = job[k]
  BY <1>1, <1>2, <1>3, Marked
<1>7. announced' \in [AiJob -> Seq(Outcomes)]
  BY <1>1 DEF JobInv, JobTypes
<1>8. ToldInv'
  BY <1>1, <1>4, <1>5, <1>6, SilentStep
<1> QED  BY <1>1, <1>4, <1>6, <1>7, <1>8, HandStays

LEMMA JobCompleteFails ==
  ASSUME JobInv, NEW w \in JobWorker, Jobs!CompleteFails(w)
  PROVE  JobInv'
<1> DEFINE old == hand[w]
           j == old.id
           h == [old EXCEPT !.stage = "threw"]
<1>1. /\ old.stage = "succeeded" /\ (Jobs!SetStatus(j, "completed") \/ job' = job)
      /\ hand' = [hand EXCEPT ![w] = h] /\ jobFaults' = jobFaults + 1
      /\ UNCHANGED <<queue, dlq, timers, announced, dropped>>
  BY DEF Jobs!CompleteFails, Jobs!Stage, Jobs!JobFault
<1>2. j \in Job /\ old \in Attempt /\ job[j].status # "none" /\ "completed" \in Jobs!Status
  BY <1>1, HandRow DEF Jobs!Status
<1>3. h \in Attempt /\ h.id = j /\ j = hand[w].id
  BY <1>2 DEF Attempt
<1>4. j \in AiJob => AtMost(j, jobFaults')
  BY <1>1 DEF AtMost, JobInv, JobTypes, ToldInv, AllTold
<1> HIDE DEF h, j
<1>5. /\ job' \in [Job -> [status : Jobs!Status, attempts : Nat]] /\ job'[j].status # "none"
      /\ \A k \in Job : k # j => job'[k] = job[k]
  BY <1>1, <1>2, StatusSet, RecordKept
<1>6. announced' \in [AiJob -> Seq(Outcomes)]
  BY <1>1 DEF JobInv, JobTypes
<1>7. ToldInv'
  BY <1>1, <1>3, <1>4, <1>5, SilentStep
<1> QED  BY <1>1, <1>3, <1>5, <1>6, <1>7, HandStays

\* The handler of a running job ends, with or without an announcement.
LEMMA HandlerEnds ==
  ASSUME JobInv, NEW w \in JobWorker, hand[w].stage = "running", NEW s \in {"succeeded", "threw"},
         Jobs!Stage(w, s), UNCHANGED <<job, queue, dlq, timers, dropped, jobFaults>>,
         \/ announced' = announced
         \/ /\ hand[w].id \in AiJob /\ (s = "threw" => hand[w].attempts >= MaxJobAttempts)
            /\ \E o \in Outcomes : announced' = [announced EXCEPT ![hand[w].id] = Append(@, o)]
  PROVE  JobInv'
<1> DEFINE old == hand[w]
           j == old.id
           h == [old EXCEPT !.stage = s]
<1>1. hand' = [hand EXCEPT ![w] = h]
  BY DEF Jobs!Stage
<1>2. j \in Job /\ old \in Attempt /\ old # Jobs!Idle /\ old.attempts \in Nat /\ job[j].status # "none"
  BY HandRow
<1>3. h \in Attempt /\ h.id = j /\ j = hand[w].id /\ h.stage = s /\ h.attempts = old.attempts
  BY <1>2 DEF Attempt
<1>4. j \in AiJob => AtMost(j, jobFaults)
  BY <1>2, ToldOf DEF Open
<1>5. /\ job' \in [Job -> [status : Jobs!Status, attempts : Nat]] /\ job'[j].status # "none"
      /\ \A k \in Job : k # j => job'[k] = job[k]
  BY <1>2, RecordKept
<1>6. (s = "threw" => old.attempts >= MaxJobAttempts) => ~Open(h)
  BY <1>2, <1>3, InfraAssumption DEF Open
<1> HIDE DEF h
<1>7. announced' \in [AiJob -> Seq(Outcomes)] /\ ToldInv'
  <2>1. CASE announced' = announced
    <3>1. announced' \in [AiJob -> Seq(Outcomes)]
      BY <2>1 DEF JobInv, JobTypes
    <3>2. h.id \in AiJob /\ Open(h) => AtMost(h.id, jobFaults')
      BY <1>3, <1>4
    <3> QED  BY <1>1, <1>3, <1>5, <2>1, <3>1, <3>2, SilentStep
  <2>2. CASE announced' # announced
    <3>1. j \in AiJob /\ ~Open(h) /\ \E o \in Outcomes : announced' = [announced EXCEPT ![j] = Append(@, o)]
      BY <1>6, <2>2
    <3> QED  BY <1>1, <1>3, <3>1, Announces
  <2> QED  BY <2>1, <2>2
<1> QED  BY <1>1, <1>3, <1>5, <1>7, HandStays

LEMMA JobHandled ==
  ASSUME JobInv, NEW w \in JobWorker, Jobs!HandlerResolves(w) \/ Jobs!HandlerRejects(w)
  PROVE  JobInv'
<1>1. CASE Jobs!HandlerResolves(w)
  <2>1. hand[w].stage = "running" /\ Jobs!Stage(w, "succeeded") /\ UNCHANGED <<job, queue, dlq, timers, dropped, jobFaults>>
    BY <1>1 DEF Jobs!HandlerResolves
  <2>2. \/ announced' = announced
        \/ hand[w].id \in AiJob /\ \E o \in Outcomes : announced' = [announced EXCEPT ![hand[w].id] = Append(@, o)]
    BY <1>1 DEF Jobs!HandlerResolves, Jobs!EndsAs, Outcomes
  <2> QED  BY <2>1, <2>2, HandlerEnds
<1>2. CASE Jobs!HandlerRejects(w)
  <2>1. hand[w].stage = "running" /\ Jobs!Stage(w, "threw") /\ UNCHANGED <<job, queue, dlq, timers, dropped, jobFaults>>
    BY <1>2 DEF Jobs!HandlerRejects
  <2>2. \/ announced' = announced
        \/ /\ hand[w].id \in AiJob /\ hand[w].attempts >= MaxJobAttempts
           /\ \E o \in Outcomes : announced' = [announced EXCEPT ![hand[w].id] = Append(@, o)]
    BY <1>2 DEF Jobs!HandlerRejects, Jobs!EndsAs, Outcomes
  <2> QED  BY <2>1, <2>2, HandlerEnds
<1> QED  BY <1>1, <1>2

LEMMA JobRequeue ==
  ASSUME JobInv, NEW w \in JobWorker, NEW j \in Job, Jobs!Requeue(w, j)
  PROVE  JobInv'
<1>1. /\ <<w, j>> \in timers /\ timers' = timers \ {<<w, j>>} /\ UNCHANGED <<job, dlq, hand, announced>>
      /\ \/ Jobs!Push(j) /\ UNCHANGED <<dropped, jobFaults>>
         \/ jobFaults' = jobFaults + 1 /\ dropped' = dropped \cup {j} /\ queue' = queue
  BY DEF Jobs!Requeue, Jobs!JobFault, Jobs!Drop
<1>2. j \in BackingOff /\ <<w, j>>[2] = j
  BY <1>1 DEF BackingOff
<1>3. j \notin InHand \cup Queued \cup Gone
  BY <1>2 DEF JobInv, PlacesInv, PlacesApart
<1>4. \A t \in timers : t[2] = j => t = <<w, j>>
  BY <1>1, <1>2 DEF JobInv, PlacesInv, TimersApart
<1>5. BackingOff' = BackingOff \ {j} /\ TimersApart' /\ timers' \subseteq JobWorker \X Job
  <2>1. BackingOff' = {t[2] : t \in timers \ {<<w, j>>}}
    BY <1>1 DEF BackingOff
  <2>2. BackingOff' = BackingOff \ {j}
    BY <1>2, <1>4, <2>1 DEF BackingOff
  <2> QED  BY <1>1, <2>2 DEF JobInv, JobTypes, PlacesInv, TimersApart
<1>6. InHand' = InHand /\ HandsApart'
  BY <1>1 DEF InHand, JobInv, PlacesInv, HandsApart, Jobs!Idle
<1>7. /\ queue' \in [Jobs!Priority -> Seq(Job)] /\ ListsApart'
      /\ \/ Queued' = Queued \cup {j} /\ Gone' = Gone
         \/ Queued' = Queued /\ Gone' = Gone \cup {j}
  <2>1. CASE Jobs!Push(j) /\ dropped' = dropped
    <3>1. queue' \in [Jobs!Priority -> Seq(Job)] /\ ListsApart' /\ Queued' = Queued \cup {j}
      BY <1>3, <2>1, ListPushed DEF JobInv, PlacesInv
    <3>2. Gone' = Gone
      BY <1>1, <2>1 DEF Gone, Jobs!ToSet
    <3> QED  BY <3>1, <3>2
  <2>2. CASE dropped' = dropped \cup {j} /\ queue' = queue
    <3>1. Queued' = Queued /\ Gone' = Gone \cup {j}
      BY <1>1, <2>2 DEF Queued, Gone, Jobs!ToSet
    <3>2. ListsApart'
      BY <2>2 DEF JobInv, PlacesInv, ListsApart, Unrepeated, Jobs!ToSet, Jobs!PriorityOf, Jobs!Priority
    <3> QED  BY <2>2, <3>1, <3>2 DEF JobInv, JobTypes
  <2> QED  BY <1>1, <2>1, <2>2
<1>8. JobTypes'
  BY <1>1, <1>5, <1>7 DEF JobInv, JobTypes, Jobs!Status, Attempt, Outcomes, Jobs!Idle, Jobs!Priority
<1>9. PlacesApart'
  BY <1>3, <1>5, <1>6, <1>7 DEF JobInv, PlacesInv, PlacesApart
<1>10. Somewhere' = Somewhere
  BY <1>2, <1>5, <1>6, <1>7 DEF Somewhere
<1>11. OnRecord' /\ NotLost'
  BY <1>1, <1>10 DEF JobInv, PlacesInv, OnRecord, NotLost
<1>12. ToldInv'
  <2>1. jobFaults' \in {jobFaults, jobFaults + 1} /\ jobFaults' \in Nat /\ jobFaults <= jobFaults'
    BY <1>1 DEF JobInv, JobTypes
  <2>2. \A k \in AiJob : k \in (BackingOff \cup Queued)' => AtMost(k, jobFaults')
    BY <1>2, <1>5, <1>7, <2>1, ToldOf
  <2>3. \A v \in JobWorker : hand'[v] # Jobs!Idle /\ Open(hand'[v]) /\ hand'[v].id \in AiJob =>
          AtMost(hand'[v].id, jobFaults')
    BY <1>1, <2>1, ToldOf
  <2>4. \A k \in Job : job'[k].status = "none" => job[k].status = "none"
    BY <1>1
  <2> QED  BY <1>1, <2>1, <2>2, <2>3, <2>4, ToldStays
<1> QED  BY <1>5, <1>6, <1>7, <1>8, <1>9, <1>11, <1>12 DEF JobInv, PlacesInv

LEMMA JobProcessEnds ==
  ASSUME JobInv, NEW w \in JobWorker, Jobs!ProcessEnds(w)
  PROVE  JobInv'
<1> DEFINE mine == {t[2] : t \in {t \in timers : t[1] = w}}
           held == IF hand[w] = Jobs!Idle THEN {} ELSE {hand[w].id}
<1>1. /\ jobFaults' = jobFaults + 1 /\ dropped' = dropped \cup (mine \cup held) /\ timers' = {t \in timers : t[1] # w}
      /\ hand' = [hand EXCEPT ![w] = Jobs!Idle] /\ UNCHANGED <<job, queue, dlq, announced>>
  BY DEF Jobs!ProcessEnds, Jobs!JobFault, Jobs!Drop, Jobs!Hold
<1>2. mine \subseteq BackingOff
  BY DEF BackingOff
<1>3. BackingOff' = BackingOff \ mine /\ TimersApart' /\ timers' \subseteq JobWorker \X Job
  <2>1. BackingOff' = {t[2] : t \in {t \in timers : t[1] # w}}
    BY <1>1 DEF BackingOff
  <2>2. \A t, u \in timers : t[1] = w /\ u[1] # w => t[2] # u[2]
    BY DEF JobInv, PlacesInv, TimersApart
  <2>3. BackingOff' = BackingOff \ mine
    BY <2>1, <2>2 DEF BackingOff
  <2> QED  BY <1>1, <2>3 DEF JobInv, JobTypes, PlacesInv, TimersApart
<1>4. /\ hand' \in [JobWorker -> Attempt \cup {Jobs!Idle}] /\ HandsApart'
      /\ held \subseteq InHand /\ InHand' = InHand \ held
  <2>1. CASE hand[w] = Jobs!Idle
    <3>1. hand' = hand
      BY <1>1, <2>1 DEF JobInv, JobTypes
    <3> QED  BY <2>1, <3>1 DEF InHand, JobInv, JobTypes, PlacesInv, HandsApart, Jobs!Idle
  <2>2. CASE hand[w] # Jobs!Idle
    BY <1>1, <2>2, HandFrees DEF JobInv, PlacesInv
  <2> QED  BY <2>1, <2>2
<1> HIDE DEF mine, held
<1>5. Queued' = Queued /\ ListsApart'
  BY <1>1 DEF Queued, JobInv, PlacesInv, ListsApart, Unrepeated, Jobs!ToSet, Jobs!PriorityOf, Jobs!Priority
<1>6. Gone' = Gone \cup mine \cup held
  BY <1>1 DEF Gone, Jobs!ToSet
<1>7. Somewhere' = Somewhere
  BY <1>2, <1>3, <1>4, <1>5, <1>6 DEF Somewhere
<1>8. PlacesApart'
  BY <1>2, <1>3, <1>4, <1>5, <1>6 DEF JobInv, PlacesInv, PlacesApart
<1>9. OnRecord' /\ NotLost'
  BY <1>1, <1>7 DEF JobInv, PlacesInv, OnRecord, NotLost
<1>10. mine \cup held \subseteq Job
  BY <1>2, <1>4 DEF JobInv, PlacesInv, OnRecord, Somewhere
<1>11. JobTypes'
  BY <1>1, <1>3, <1>4, <1>10 DEF JobInv, JobTypes, Jobs!Status, Attempt, Outcomes, Jobs!Idle, Jobs!Priority
<1>12. ToldInv'
  <2>1. jobFaults' = jobFaults + 1 /\ jobFaults' \in Nat /\ jobFaults <= jobFaults'
    BY <1>1 DEF JobInv, JobTypes
  <2>2. \A k \in AiJob : k \in (BackingOff \cup Queued)' => AtMost(k, jobFaults')
    BY <1>3, <1>5, <2>1, ToldOf
  <2>3. \A v \in JobWorker : hand'[v] # Jobs!Idle => hand'[v] = hand[v]
    BY <1>1 DEF JobInv, JobTypes
  <2>4. \A v \in JobWorker : hand'[v] # Jobs!Idle /\ Open(hand'[v]) /\ hand'[v].id \in AiJob =>
          AtMost(hand'[v].id, jobFaults')
    BY <2>1, <2>3, ToldOf
  <2>5. \A k \in Job : job'[k].status = "none" => job[k].status = "none"
    BY <1>1
  <2> QED  BY <1>1, <2>1, <2>2, <2>4, <2>5, ToldStays
<1> QED  BY <1>3, <1>4, <1>5, <1>8, <1>9, <1>11, <1>12 DEF JobInv, PlacesInv

LEMMA JobsKept ==
  ASSUME JobInv, UNCHANGED jobVars
  PROVE  JobInv'
<1> USE DEF jobVars
<1>1. InHand' = InHand /\ BackingOff' = BackingOff /\ Queued' = Queued /\ Gone' = Gone
  BY DEF InHand, BackingOff, Queued, Gone, Jobs!ToSet, Jobs!Idle
<1>2. JobTypes'
  BY DEF JobInv, JobTypes, Jobs!Status, Attempt, Outcomes, Jobs!Idle, Jobs!Priority
<1>3. HandsApart' /\ TimersApart' /\ ListsApart'
  BY DEF JobInv, PlacesInv, HandsApart, TimersApart, ListsApart, Unrepeated, Jobs!ToSet, Jobs!PriorityOf,
         Jobs!Priority, Jobs!Idle
<1>4. PlacesApart' /\ OnRecord' /\ NotLost'
  BY <1>1 DEF JobInv, PlacesInv, PlacesApart, OnRecord, NotLost, Somewhere
<1>5. ToldInv'
  BY <1>1 DEF JobInv, ToldInv, AllTold, WaitingTold, NewTold, HeldTold, AtMost, Open, Jobs!Idle
<1> QED  BY <1>2, <1>3, <1>4, <1>5 DEF JobInv, PlacesInv

LEMMA JobStep ==
  ASSUME JobInv, Jobs!Next
  PROVE  JobInv'
<1>1. ASSUME NEW w \in JobWorker, Jobs!WorkerStep(w) PROVE JobInv'
  BY <1>1, JobReserve, JobMark, JobMarkFails, JobHandled, JobComplete, JobCompleteFails, JobFail, JobFailFails
     DEF Jobs!WorkerStep
<1> QED  BY <1>1, JobEnqueue, JobProcessEnds, JobRequeue DEF Jobs!Next

LEMMA JobsAlways == InfraSpec => []JobInv
<1>1. InfraInit => JobInv
  BY JobInit DEF InfraInit
<1>2. JobInv /\ [InfraNext]_allVars => JobInv'
  BY JobStep, JobsKept DEF InfraNext, allVars
<1> QED  BY <1>1, <1>2, PTL DEF InfraSpec

LEMMA CarriersAre ==
  ASSUME JobInv, NEW j \in Job
  PROVE  /\ \A a, b \in Jobs!Carriers(j) : a = b
         /\ Jobs!Carriers(j) = {} <=> j \notin InHand \cup BackingOff \cup Queued
<1> DEFINE hands == {<<"hand", w>> : w \in {w \in JobWorker : hand[w] # Jobs!Idle /\ hand[w].id = j}}
           backoffs == {<<"timer", t[1]>> : t \in {t \in timers : t[2] = j}}
           lists == UNION {{<<p, i>> : i \in {i \in DOMAIN queue[p] : queue[p][i] = j}} : p \in Jobs!Priority}
<1>1. Jobs!Carriers(j) = hands \cup backoffs \cup lists
  BY DEF Jobs!Carriers
<1>2. (hands = {} <=> j \notin InHand) /\ \A a, b \in hands : a = b
  <2>1. hands = {} <=> j \notin InHand
    BY DEF InHand
  <2>2. \A a, b \in hands : a = b
    BY DEF JobInv, PlacesInv, HandsApart
  <2> QED  BY <2>1, <2>2
<1>3. (backoffs = {} <=> j \notin BackingOff) /\ \A a, b \in backoffs : a = b
  <2>1. backoffs = {} <=> j \notin BackingOff
    BY DEF BackingOff
  <2>2. \A a, b \in backoffs : a = b
    BY DEF JobInv, PlacesInv, TimersApart
  <2> QED  BY <2>1, <2>2
<1>4. (lists = {} <=> j \notin Queued) /\ \A a, b \in lists : a = b
  <2>1. \A p \in Jobs!Priority : j \in Jobs!ToSet(queue[p]) <=> \E i \in DOMAIN queue[p] : queue[p][i] = j
    BY DEF Jobs!ToSet
  <2>2. lists = {} <=> \A p \in Jobs!Priority : j \notin Jobs!ToSet(queue[p])
    <3>1. ASSUME NEW p \in Jobs!Priority, NEW i \in DOMAIN queue[p], queue[p][i] = j
          PROVE  <<p, i>> \in lists
      BY <3>1
    <3>2. ASSUME NEW x \in lists
          PROVE  \E p \in Jobs!Priority : \E i \in DOMAIN queue[p] : queue[p][i] = j
      BY <3>2
    <3> HIDE DEF lists
    <3> QED  BY <2>1, <3>1, <3>2
  <2>3. lists = {} <=> j \notin Queued
    BY <2>2 DEF Queued, Jobs!Priority
  <2>4. \A p, o \in Jobs!Priority : j \in Jobs!ToSet(queue[p]) /\ j \in Jobs!ToSet(queue[o]) => p = o
    BY DEF JobInv, PlacesInv, ListsApart
  <2>5. ASSUME NEW p \in Jobs!Priority, NEW i \in DOMAIN queue[p], queue[p][i] = j,
               NEW o \in Jobs!Priority, NEW k \in DOMAIN queue[o], queue[o][k] = j
        PROVE  <<p, i>> = <<o, k>>
    <3>1. p = o
      BY <2>1, <2>4, <2>5
    <3> QED  BY <2>5, <3>1 DEF JobInv, PlacesInv, ListsApart, Unrepeated
  <2> QED  BY <2>3, <2>5
<1> HIDE DEF hands, backoffs, lists
<1> QED  BY <1>1, <1>2, <1>3, <1>4 DEF JobInv, PlacesInv, PlacesApart

\* A job is never in two places: no two workers run one job at once, and a dropped or dead-lettered one
\* is in none.  And it is somewhere until it has completed, was dead-lettered or dropped
\* (enqueue, reserve, complete and fail of JobQueueService, the loop of JobQueueWorker).
THEOREM JobsAreSomewhere == InfraSpec => []JobsAccountedFor
<1>1. JobInv => JobsAccountedFor
  <2> SUFFICES ASSUME JobInv, NEW j \in Job
               PROVE  /\ \A a, b \in Jobs!Carriers(j) : a = b
                      /\ j \in Gone => Jobs!Carriers(j) = {}
                      /\ job[j].status # "none" /\ Jobs!Carriers(j) = {} =>
                           job[j].status = "completed" \/ j \in Gone
    BY DEF JobsAccountedFor, Jobs!JobsAccountedFor, Jobs!Ended, Gone
  <2> QED  BY CarriersAre DEF JobInv, PlacesInv, PlacesApart, NotLost, Somewhere
<1> QED  BY <1>1, JobsAlways, PTL

\* An artist is told one outcome of a generation, however many attempts it took; each further
\* announcement needs a fault of its own (generate of AiGenerationService, AiJobHandlers).
THEOREM OneOutcomeEach == InfraSpec => []OutcomesAnnouncedOnce
<1>1. JobInv => OutcomesAnnouncedOnce
  BY DEF JobInv, ToldInv, AllTold, AtMost, OutcomesAnnouncedOnce, Jobs!OutcomesAnnouncedOnce
<1> QED  BY <1>1, JobsAlways, PTL

----------------------------------------------------------------------------
(* Songs *)

SongTypes ==
    /\ saved \subseteq Song /\ settled \subseteq Song \X Songs!Outcome
    /\ ready \in [Songs!Message -> Nat]
    /\ slot \in [Server -> [Songs!Slot -> Songs!Taken \cup {Songs!Free}]]

Remembered(s) == Songs!Underway(s) \/ Songs!Outcomes(s) # {}
SongInv == SongTypes /\ \A s \in saved : Remembered(s)

LEMMA SongsCardinality == \A S : Songs!Cardinality(S) = Cardinality(S)
  BY DEF Songs!Cardinality, Cardinality

LEMMA SongInit == Songs!Init => SongInv
  BY DEF Songs!Init, SongInv, SongTypes

\* The broker takes deliveries back.
LEMMA BackInQueue ==
  ASSUME SongTypes, NEW ws \in SUBSET Server
  PROVE  /\ Songs!TakenBack(ws) \in [Songs!Message -> Nat]
         /\ \A m \in Songs!Message : Songs!TakenBack(ws)[m] >= ready[m]
         /\ \A w \in ws, i \in Songs!Slot : slot[w][i].stage = "active" =>
              slot[w][i].msg \in Songs!Message /\ Songs!TakenBack(ws)[slot[w][i].msg] > 0
<1> DEFINE back(m) == {h \in ws \X Songs!Slot : h[2] \in Songs!Unacked(h[1]) /\ slot[h[1]][h[2]].msg = m}
           n(m) == Songs!Cardinality(back(m))
<1>1. IsFiniteSet(ws \X Songs!Slot)
  <2>1. IsFiniteSet(ws)
    BY InfraAssumption, FS_Subset
  <2>2. IsFiniteSet(Songs!Slot)
    BY InfraAssumption, FS_Interval DEF Songs!Slot
  <2> QED  BY <2>1, <2>2, FS_Product
<1>2. \A m \in Songs!Message : IsFiniteSet(back(m)) /\ n(m) \in Nat /\ (back(m) # {} => n(m) > 0)
  <2> TAKE m \in Songs!Message
  <2> DEFINE b == back(m)
  <2>1. IsFiniteSet(b)
    BY <1>1, FS_Subset
  <2>2. n(m) = Cardinality(b)
    BY SongsCardinality
  <2> HIDE DEF b
  <2>3. Cardinality(b) \in Nat /\ (b # {} => Cardinality(b) # 0)
    BY <2>1, FS_CardinalityType, FS_EmptySet
  <2>4. n(m) \in Nat /\ (b # {} => n(m) > 0)
    BY <2>2, <2>3
  <2> QED  BY <2>1, <2>4 DEF b
<1>3. Songs!TakenBack(ws) = [m \in Songs!Message |-> ready[m] + n(m)]
  BY DEF Songs!TakenBack
<1>4. ASSUME NEW w \in ws, NEW i \in Songs!Slot, slot[w][i].stage = "active"
      PROVE  slot[w][i].msg \in Songs!Message /\ back(slot[w][i].msg) # {}
  <2>1. slot[w][i] \in Songs!Taken
    BY <1>4 DEF SongTypes, Songs!Free
  <2>2. slot[w][i].msg \in Songs!Message
    BY <2>1 DEF Songs!Taken
  <2>3. <<w, i>> \in ws \X Songs!Slot /\ i \in Songs!Unacked(w)
    BY <1>4 DEF Songs!Unacked
  <2>4. <<w, i>> \in back(slot[w][i].msg)
    BY <2>3
  <2> QED  BY <2>2, <2>4
<1> HIDE DEF back, n
<1>5. \A m \in Songs!Message : ready[m] \in Nat
  BY DEF SongTypes
<1> QED  BY <1>2, <1>3, <1>4, <1>5

\* A song stays remembered while no message of it leaves the queue and no live
\* delivery of it ends, but for a message in its place or a cause on record.
LEMMA StillRemembered ==
  ASSUME SongInv, NEW s \in Song, Remembered(s), SongTypes', settled \subseteq settled',
         \A m \in Songs!Message : m.song = s /\ ready[m] > 0 =>
           (\E n \in Songs!Message : n.song = s /\ ready'[n] > 0) \/ (\E o \in Songs!Outcome : <<s, o>> \in settled')
           \/ \E w \in Server, i \in Songs!Slot : slot'[w][i].stage = "active" /\ slot'[w][i].msg.song = s,
         \A w \in Server, i \in Songs!Slot : slot[w][i].stage = "active" /\ slot[w][i].msg.song = s =>
           \/ slot'[w][i] = slot[w][i]
           \/ \E n \in Songs!Message : n.song = s /\ ready'[n] > 0
           \/ \E o \in Songs!Outcome : <<s, o>> \in settled'
  PROVE  Remembered(s)'
<1> DEFINE queued == \E n \in Songs!Message : n.song = s /\ ready'[n] > 0
           held == \E w \in Server, i \in Songs!Slot : slot'[w][i].stage = "active" /\ slot'[w][i].msg.song = s
           caused == \E o \in Songs!Outcome : <<s, o>> \in settled'
<1>1. queued \/ held \/ caused
  <2>1. CASE \E m \in Songs!Message : m.song = s /\ ready[m] > 0
    BY <2>1
  <2>2. CASE \E w \in Server, i \in Songs!Slot : slot[w][i].stage = "active" /\ slot[w][i].msg.song = s
    <3>1. PICK w \in Server, i \in Songs!Slot : slot[w][i].stage = "active" /\ slot[w][i].msg.song = s
      BY <2>2
    <3> QED  BY <3>1
  <2>3. CASE Songs!Outcomes(s) # {}
    BY <2>3 DEF Songs!Outcomes
  <2> QED  BY <2>1, <2>2, <2>3 DEF Remembered, Songs!Underway
<1>2. queued \/ held => Songs!Underway(s)'
  BY DEF Songs!Underway, Songs!Message, Songs!Slot
<1>3. caused => Songs!Outcomes(s)' # {}
  BY DEF Songs!Outcomes, Songs!Outcome
<1> HIDE DEF queued, held, caused
<1> QED  BY <1>1, <1>2, <1>3 DEF Remembered

LEMMA SongUpload ==
  ASSUME SongInv, NEW s \in Song, Songs!Upload(s)
  PROVE  SongInv'
<1> DEFINE m == Songs!First(s)
<1>1. m \in Songs!Message /\ m.song = s
  BY InfraAssumption DEF Songs!First, Songs!Message
<1>2. /\ saved' = saved \cup {s} /\ slot' = slot
      /\ \/ ready' = [ready EXCEPT ![m] = @ + 1] /\ settled' = settled
         \/ ready' = ready /\ settled' = settled \cup {<<s, "unsent">>}
  BY DEF Songs!Upload, Songs!Enqueue, Songs!Settle
<1> HIDE DEF m
<1>3. SongTypes' /\ settled \subseteq settled' /\ \A n \in Songs!Message : ready'[n] >= ready[n]
  <2>1. ready \in [Songs!Message -> Nat] /\ \A n \in Songs!Message : ready[n] \in Nat
    BY DEF SongInv, SongTypes
  <2>2. ready' \in [Songs!Message -> Nat] /\ \A n \in Songs!Message : ready'[n] >= ready[n]
    BY <1>1, <1>2, <2>1
  <2>3. settled \subseteq settled' /\ settled' \subseteq Song \X Songs!Outcome /\ saved' \subseteq Song
    BY <1>2 DEF SongInv, SongTypes, Songs!Outcome
  <2> QED  BY <1>2, <2>2, <2>3 DEF SongInv, SongTypes, Songs!Outcome, Songs!Taken, Songs!Message, Songs!Slot, Songs!Free
<1>4. Remembered(s)'
  <2>1. CASE ready' = [ready EXCEPT ![m] = @ + 1]
    <3>1. ready'[m] > 0
      BY <1>1, <2>1 DEF SongInv, SongTypes
    <3> QED  BY <1>1, <3>1 DEF Remembered, Songs!Underway, Songs!Message
  <2>2. CASE settled' = settled \cup {<<s, "unsent">>}
    BY <2>2 DEF Remembered, Songs!Outcomes, Songs!Outcome
  <2> QED  BY <1>2, <2>1, <2>2
<1>5. ASSUME NEW r \in saved PROVE Remembered(r)'
  <2>1. r \in Song /\ Remembered(r)
    BY DEF SongInv, SongTypes
  <2>2. \A n \in Songs!Message : n.song = r /\ ready[n] > 0 => ready'[n] > 0
    BY <1>3 DEF SongInv, SongTypes
  <2> QED  BY <1>2, <1>3, <2>1, <2>2, StillRemembered
<1> QED  BY <1>2, <1>3, <1>4, <1>5 DEF SongInv

\* A handler's delivery, once put elsewhere or freed.
LEMMA SlotRow ==
  ASSUME SongInv, NEW w \in Server, NEW i \in Songs!Slot, slot[w][i].stage \in {"active", "published", "orphan"}
  PROVE  /\ slot[w][i] \in Songs!Taken /\ slot[w][i].msg \in Songs!Message /\ slot[w][i].msg.song \in Song
         /\ slot[w][i].msg.attempt \in Nat
<1>1. slot[w][i] \in Songs!Taken
  BY DEF SongInv, SongTypes, Songs!Free
<1> QED  BY <1>1 DEF Songs!Taken, Songs!Message

LEMMA SlotPut ==
  ASSUME SongInv, NEW w \in Server, NEW i \in Songs!Slot, NEW d \in Songs!Taken \cup {Songs!Free}, Songs!Put(w, i, d)
  PROVE  /\ slot' \in [Server -> [Songs!Slot -> Songs!Taken \cup {Songs!Free}]]
         /\ slot'[w][i] = d
         /\ \A v \in Server, k \in Songs!Slot : <<v, k>> # <<w, i>> => slot'[v][k] = slot[v][k]
  BY DEF SongInv, SongTypes, Songs!Put

\* A slot changes; the queue and the record of causes lose nothing.
LEMMA OneSlotChanges ==
  ASSUME SongInv, saved' = saved, NEW w \in Server, NEW i \in Songs!Slot, NEW d \in Songs!Taken \cup {Songs!Free},
         Songs!Put(w, i, d), ready' \in [Songs!Message -> Nat], \A m \in Songs!Message : ready'[m] >= ready[m],
         settled' \subseteq Song \X Songs!Outcome, settled \subseteq settled',
         slot[w][i].stage = "active" =>
           \/ \E n \in Songs!Message : n.song = slot[w][i].msg.song /\ ready'[n] > 0
           \/ \E o \in Songs!Outcome : <<slot[w][i].msg.song, o>> \in settled'
  PROVE  SongInv'
<1>1. /\ slot' \in [Server -> [Songs!Slot -> Songs!Taken \cup {Songs!Free}]]
      /\ \A v \in Server, k \in Songs!Slot : <<v, k>> # <<w, i>> => slot'[v][k] = slot[v][k]
  BY SlotPut
<1>2. SongTypes'
  BY <1>1 DEF SongInv, SongTypes, Songs!Outcome, Songs!Taken, Songs!Message, Songs!Slot, Songs!Free
<1>3. ASSUME NEW s \in saved PROVE Remembered(s)'
  <2>1. s \in Song /\ Remembered(s)
    BY DEF SongInv, SongTypes
  <2>2. \A m \in Songs!Message : m.song = s /\ ready[m] > 0 => ready'[m] > 0
    BY DEF SongInv, SongTypes
  <2>3. \A v \in Server, k \in Songs!Slot : slot[v][k].stage = "active" /\ slot[v][k].msg.song = s =>
          \/ slot'[v][k] = slot[v][k]
          \/ \E n \in Songs!Message : n.song = s /\ ready'[n] > 0
          \/ \E o \in Songs!Outcome : <<s, o>> \in settled'
    BY <1>1
  <2> QED  BY <1>2, <2>1, <2>2, <2>3, StillRemembered
<1> QED  BY <1>2, <1>3 DEF SongInv

LEMMA SongHandlerStep ==
  ASSUME SongInv, NEW w \in Server, NEW i \in Songs!Slot, Songs!HandlerStep(w, i)
  PROVE  SongInv'
<1> DEFINE at == slot[w][i]
           m == at.msg
<1>1. /\ ready \in [Songs!Message -> Nat] /\ settled \subseteq Song \X Songs!Outcome
      /\ \A n \in Songs!Message : ready[n] \in Nat
  BY DEF SongInv, SongTypes
<1>2. CASE Songs!HandlerResolves(w, i) \/ (Songs!HandlerRejects(w, i) /\ m.attempt + 1 >= MaxAttempts)
  <2>1. PICK o \in {"acked", "exhausted"} : settled' = settled \cup {<<m.song, o>>}
    BY <1>2 DEF Songs!HandlerResolves, Songs!HandlerRejects, Songs!Settle
  <2>2. at.stage = "active" /\ Songs!Put(w, i, Songs!Free) /\ UNCHANGED <<saved, ready>>
    BY <1>2 DEF Songs!HandlerResolves, Songs!HandlerRejects
  <2>3. m.song \in Song /\ o \in Songs!Outcome
    BY <2>2, SlotRow DEF Songs!Outcome
  <2>4. settled' \subseteq Song \X Songs!Outcome /\ settled \subseteq settled' /\ <<m.song, o>> \in settled'
    BY <1>1, <2>1, <2>3
  <2> QED  BY <1>1, <2>2, <2>3, <2>4, OneSlotChanges
<1>3. CASE Songs!HandlerRejects(w, i) /\ ~(m.attempt + 1 >= MaxAttempts)
  <2> DEFINE n == [m EXCEPT !.attempt = @ + 1]
             d == [at EXCEPT !.stage = "published"]
  <2>1. /\ at.stage = "active" /\ ready' = [ready EXCEPT ![n] = @ + 1] /\ Songs!Put(w, i, d)
        /\ UNCHANGED <<saved, settled>>
    BY <1>3 DEF Songs!HandlerRejects, Songs!Enqueue
  <2>2. m \in Songs!Message /\ at \in Songs!Taken /\ m.attempt \in Nat
    BY <2>1, SlotRow
  <2>3. n \in Songs!Message /\ n.song = m.song
    BY <1>3, <2>2, InfraAssumption DEF Songs!Message
  <2>4. d \in Songs!Taken
    BY <2>2 DEF Songs!Taken
  <2> HIDE DEF n, d
  <2>5. ready' \in [Songs!Message -> Nat] /\ (\A l \in Songs!Message : ready'[l] >= ready[l]) /\ ready'[n] > 0
    BY <1>1, <2>1, <2>3
  <2> QED  BY <1>1, <2>1, <2>3, <2>4, <2>5, OneSlotChanges
<1>4. CASE Songs!AckRetry(w, i) \/ Songs!OrphanEnds(w, i)
  <2>1. at.stage # "active" /\ Songs!Put(w, i, Songs!Free) /\ UNCHANGED <<saved, ready, settled>>
    BY <1>4 DEF Songs!AckRetry, Songs!OrphanEnds
  <2> QED  BY <1>1, <2>1, OneSlotChanges
<1> QED  BY <1>2, <1>3, <1>4 DEF Songs!HandlerStep

LEMMA SongDeliver ==
  ASSUME SongInv, NEW w \in Server, Songs!Deliver(w)
  PROVE  SongInv'
<1>1. PICK m \in Songs!Message, i \in Songs!Slot :
        /\ ready[m] > 0 /\ slot[w][i] = Songs!Free /\ ready' = [ready EXCEPT ![m] = @ - 1]
        /\ Songs!Put(w, i, [stage |-> "active", msg |-> m])
  BY DEF Songs!Deliver
<1> DEFINE d == [stage |-> "active", msg |-> m]
<1>2. d \in Songs!Taken /\ d.stage = "active" /\ d.msg = m
  BY DEF Songs!Taken
<1>3. UNCHANGED <<saved, settled>> /\ Songs!Put(w, i, d)
  BY <1>1 DEF Songs!Deliver
<1> HIDE DEF d
<1>4. /\ slot' \in [Server -> [Songs!Slot -> Songs!Taken \cup {Songs!Free}]] /\ slot'[w][i] = d
      /\ \A v \in Server, k \in Songs!Slot : <<v, k>> # <<w, i>> => slot'[v][k] = slot[v][k]
  BY <1>2, <1>3, SlotPut
<1>5. ready' \in [Songs!Message -> Nat] /\ \A n \in Songs!Message : n # m => ready'[n] = ready[n]
  BY <1>1 DEF SongInv, SongTypes
<1>6. SongTypes'
  BY <1>3, <1>4, <1>5 DEF SongInv, SongTypes, Songs!Outcome, Songs!Taken, Songs!Message, Songs!Slot, Songs!Free
<1>7. ASSUME NEW s \in saved PROVE Remembered(s)'
  <2>1. s \in Song /\ Remembered(s) /\ settled \subseteq settled'
    BY <1>3 DEF SongInv, SongTypes
  <2>2. \A n \in Songs!Message : n.song = s /\ ready[n] > 0 =>
          \/ ready'[n] > 0
          \/ \E v \in Server, k \in Songs!Slot : slot'[v][k].stage = "active" /\ slot'[v][k].msg.song = s
    BY <1>2, <1>4, <1>5
  <2>3. \A v \in Server, k \in Songs!Slot : slot[v][k].stage = "active" => slot'[v][k] = slot[v][k]
    BY <1>1, <1>4 DEF Songs!Free
  <2> QED  BY <1>6, <2>1, <2>2, <2>3, StillRemembered
<1> QED  BY <1>3, <1>6, <1>7 DEF SongInv

\* What a process that loses its channel keeps: handlers whose delivery is gone.
LEMMA Orphans ==
  ASSUME SongInv, NEW w \in Server
  PROVE  /\ Songs!Orphaned(w) \in [Songs!Slot -> Songs!Taken \cup {Songs!Free}]
         /\ \A i \in Songs!Slot : Songs!Orphaned(w)[i].stage # "active"
<1> DEFINE kept(i) == IF slot[w][i].stage = "active" THEN [slot[w][i] EXCEPT !.stage = "orphan"]
                      ELSE IF slot[w][i].stage = "orphan" THEN slot[w][i] ELSE Songs!Free
<1>1. ASSUME NEW i \in Songs!Slot PROVE kept(i) \in Songs!Taken \cup {Songs!Free} /\ kept(i).stage # "active"
  <2>1. CASE slot[w][i].stage \in {"active", "orphan"}
    <3>1. slot[w][i] \in Songs!Taken
      BY <2>1, SlotRow
    <3> QED  BY <2>1, <3>1 DEF Songs!Taken
  <2>2. CASE slot[w][i].stage \notin {"active", "orphan"}
    BY <2>2 DEF Songs!Free
  <2> QED  BY <2>1, <2>2
<1>2. Songs!Orphaned(w) = [i \in Songs!Slot |-> kept(i)]
  BY DEF Songs!Orphaned
<1> HIDE DEF kept
<1> QED  BY <1>1, <1>2

\* Processes that lose their deliveries, which the broker takes back.
LEMMA DeliveriesLost ==
  ASSUME SongInv, NEW ws \in SUBSET Server, ready' = Songs!TakenBack(ws), UNCHANGED <<saved, settled>>,
         slot' \in [Server -> [Songs!Slot -> Songs!Taken \cup {Songs!Free}]],
         \A w \in Server : w \notin ws => slot'[w] = slot[w]
  PROVE  SongInv'
<1>1. /\ ready' \in [Songs!Message -> Nat] /\ \A m \in Songs!Message : ready[m] \in Nat /\ ready'[m] >= ready[m]
      /\ \A w \in ws, i \in Songs!Slot : slot[w][i].stage = "active" =>
              slot[w][i].msg \in Songs!Message /\ ready'[slot[w][i].msg] > 0
  BY BackInQueue DEF SongInv, SongTypes
<1>2. SongTypes'
  BY <1>1 DEF SongInv, SongTypes, Songs!Outcome, Songs!Taken, Songs!Message, Songs!Slot, Songs!Free
<1>3. ASSUME NEW s \in saved PROVE Remembered(s)'
  <2>1. s \in Song /\ Remembered(s) /\ settled \subseteq settled'
    BY DEF SongInv, SongTypes
  <2>2. \A m \in Songs!Message : m.song = s /\ ready[m] > 0 => ready'[m] > 0
    BY <1>1
  <2>3. \A w \in Server, i \in Songs!Slot : slot[w][i].stage = "active" /\ slot[w][i].msg.song = s =>
          slot'[w][i] = slot[w][i] \/ \E n \in Songs!Message : n.song = s /\ ready'[n] > 0
    BY <1>1
  <2> QED  BY <1>2, <2>1, <2>2, <2>3, StillRemembered
<1> QED  BY <1>2, <1>3 DEF SongInv

LEMMA NoDeliveries == [i \in Songs!Slot |-> Songs!Free] \in [Songs!Slot -> Songs!Taken \cup {Songs!Free}]
  OBVIOUS

LEMMA SongFaults ==
  ASSUME SongInv, NEW w \in Server, Songs!Requeue(w) \/ Songs!LoseConnection(w) \/ Songs!Crash(w)
  PROVE  SongInv'
<1>1. /\ ready' = Songs!TakenBack({w}) /\ UNCHANGED <<saved, settled>>
      /\ slot' = [slot EXCEPT ![w] = Songs!Orphaned(w)] \/ slot' = [slot EXCEPT ![w] = [i \in Songs!Slot |-> Songs!Free]]
  BY DEF Songs!Requeue, Songs!LoseConnection, Songs!Crash
<1>2. PICK f \in [Songs!Slot -> Songs!Taken \cup {Songs!Free}] : slot' = [slot EXCEPT ![w] = f]
  BY <1>1, Orphans, NoDeliveries
<1>3. slot' \in [Server -> [Songs!Slot -> Songs!Taken \cup {Songs!Free}]] /\ \A v \in Server : v \notin {w} => slot'[v] = slot[v]
  BY <1>2 DEF SongInv, SongTypes
<1> QED  BY <1>1, <1>3, DeliveriesLost

\* A process that has drained handles no live delivery.
Drained ==
    /\ process \in [Server -> Songs!Process]
    /\ \A w \in Server : process[w] = "requeued" => \A i \in Songs!Slot : slot[w][i].stage # "active"

LEMMA SongExit ==
  ASSUME SongInv, Drained, NEW w \in Server, Songs!Exit(w)
  PROVE  SongInv'
<1> DEFINE none == [i \in Songs!Slot |-> Songs!Free]
<1>1. /\ process[w] = "requeued" /\ slot' = [slot EXCEPT ![w] = none] /\ UNCHANGED <<saved, ready, settled>>
      /\ \A i \in Songs!Slot : slot[w][i].stage # "active"
  BY DEF Songs!Exit, Drained
<1>2. none \in [Songs!Slot -> Songs!Taken \cup {Songs!Free}]
  BY NoDeliveries
<1> HIDE DEF none
<1>3. SongTypes'
  BY <1>1, <1>2 DEF SongInv, SongTypes, Songs!Outcome, Songs!Taken, Songs!Message, Songs!Slot, Songs!Free
<1>4. \A v \in Server, i \in Songs!Slot : slot[v][i].stage = "active" => slot'[v][i] = slot[v][i]
  BY <1>1 DEF SongInv, SongTypes
<1>5. ASSUME NEW s \in saved PROVE Remembered(s)'
  <2>1. s \in Song /\ Remembered(s)
    BY DEF SongInv, SongTypes
  <2>2. \A m \in Songs!Message : m.song = s /\ ready[m] > 0 => ready'[m] > 0
    BY <1>1
  <2> QED  BY <1>1, <1>3, <1>4, <2>1, <2>2, StillRemembered
<1> QED  BY <1>1, <1>3, <1>5 DEF SongInv

LEMMA SongExpire ==
  ASSUME SongInv, NEW m \in Songs!Message, Songs!Expire(m)
  PROVE  SongInv'
<1>1. /\ ready[m] > 0 /\ ready' = [ready EXCEPT ![m] = @ - 1] /\ settled' = settled \cup {<<m.song, "expired">>}
      /\ UNCHANGED <<saved, slot>> /\ m.song \in Song
  BY DEF Songs!Expire, Songs!Settle, Songs!Message
<1>2. /\ ready' \in [Songs!Message -> Nat] /\ \A n \in Songs!Message : n # m => ready'[n] = ready[n]
      /\ settled' \subseteq Song \X Songs!Outcome /\ settled \subseteq settled' /\ "expired" \in Songs!Outcome
      /\ <<m.song, "expired">> \in settled'
  BY <1>1 DEF SongInv, SongTypes, Songs!Outcome
<1>3. SongTypes'
  BY <1>1, <1>2 DEF SongInv, SongTypes, Songs!Outcome, Songs!Taken, Songs!Message, Songs!Slot, Songs!Free
<1>4. ASSUME NEW s \in saved PROVE Remembered(s)'
  <2>1. s \in Song /\ Remembered(s)
    BY DEF SongInv, SongTypes
  <2>2. \A n \in Songs!Message : n.song = s /\ ready[n] > 0 =>
          ready'[n] > 0 \/ \E o \in Songs!Outcome : <<s, o>> \in settled'
    BY <1>2
  <2> QED  BY <1>1, <1>2, <1>3, <2>1, <2>2, StillRemembered
<1> QED  BY <1>1, <1>3, <1>4 DEF SongInv

LEMMA SongBrokerRestart ==
  ASSUME SongInv, Songs!BrokerRestart
  PROVE  SongInv'
<1> DEFINE back == Songs!TakenBack(Server)
           lost == {<<m.song, "transient">> : m \in {n \in Songs!Message : n.attempt = 1 /\ back[n] > 0}}
<1>1. /\ ready' = [m \in Songs!Message |-> IF m.attempt = 1 THEN 0 ELSE back[m]]
      /\ settled' = settled \cup lost /\ slot' = [w \in Server |-> Songs!Orphaned(w)] /\ saved' = saved
  BY DEF Songs!BrokerRestart
<1>2. /\ back \in [Songs!Message -> Nat] /\ \A m \in Songs!Message : ready[m] \in Nat /\ back[m] >= ready[m]
      /\ \A w \in Server, i \in Songs!Slot : slot[w][i].stage = "active" =>
           slot[w][i].msg \in Songs!Message /\ back[slot[w][i].msg] > 0
  BY BackInQueue DEF SongInv, SongTypes
<1>3. "transient" \in Songs!Outcome /\ lost \subseteq Song \X Songs!Outcome
  BY DEF Songs!Outcome, Songs!Message
<1>4. \A m \in Songs!Message : back[m] > 0 => ready'[m] > 0 \/ <<m.song, "transient">> \in settled'
  BY <1>1
<1> HIDE DEF back, lost
<1>5. slot' \in [Server -> [Songs!Slot -> Songs!Taken \cup {Songs!Free}]]
  BY <1>1, Orphans
<1>6. ready' \in [Songs!Message -> Nat]
  BY <1>1, <1>2
<1>7. SongTypes'
  BY <1>1, <1>3, <1>5, <1>6 DEF SongInv, SongTypes, Songs!Outcome, Songs!Taken, Songs!Message, Songs!Slot, Songs!Free
<1>8. ASSUME NEW s \in saved PROVE Remembered(s)'
  <2>1. s \in Song /\ Remembered(s) /\ settled \subseteq settled'
    BY <1>1 DEF SongInv, SongTypes
  <2>2. \A m \in Songs!Message : m.song = s /\ ready[m] > 0 =>
          ready'[m] > 0 \/ \E o \in Songs!Outcome : <<s, o>> \in settled'
    <3> SUFFICES ASSUME NEW m \in Songs!Message, m.song = s, ready[m] > 0
                 PROVE  ready'[m] > 0 \/ \E o \in Songs!Outcome : <<s, o>> \in settled'
      OBVIOUS
    <3>1. back[m] > 0
      BY <1>2
    <3> QED  BY <1>3, <1>4, <3>1
  <2>3. \A w \in Server, i \in Songs!Slot : slot[w][i].stage = "active" /\ slot[w][i].msg.song = s =>
          \/ \E n \in Songs!Message : n.song = s /\ ready'[n] > 0
          \/ \E o \in Songs!Outcome : <<s, o>> \in settled'
    BY <1>2, <1>3, <1>4
  <2> QED  BY <1>7, <2>1, <2>2, <2>3, StillRemembered
<1> QED  BY <1>1, <1>7, <1>8 DEF SongInv

LEMMA SongProcessOnly ==
  ASSUME SongInv, UNCHANGED <<saved, ready, slot, settled>>
  PROVE  SongInv'
  BY DEF SongInv, SongTypes, Remembered, Songs!Underway, Songs!Outcomes, Songs!Outcome, Songs!Taken,
         Songs!Message, Songs!Slot, Songs!Free

LEMMA SongStep ==
  ASSUME SongInv, Drained, Songs!Next
  PROVE  SongInv'
<1>1. ASSUME NEW w \in Server, Songs!Shutdown(w) \/ Songs!CancelOk(w) \/ Songs!Start(w) PROVE SongInv'
  BY <1>1, SongProcessOnly DEF Songs!Shutdown, Songs!CancelOk, Songs!Start
<1>2. ASSUME NEW w \in Server, Songs!Deliver(w) \/ Songs!DrainStep(w) \/ Songs!Crash(w) \/ Songs!LoseConnection(w)
      PROVE  SongInv'
  BY <1>1, <1>2, SongDeliver, SongFaults, SongExit DEF Songs!DrainStep
<1> QED  BY <1>1, <1>2, SongUpload, SongHandlerStep, SongExpire, SongBrokerRestart DEF Songs!Next

LEMMA DrainedStep ==
  ASSUME SongInv, Drained, Songs!Next
  PROVE  Drained'
<1> USE DEF Songs!Process
<1>1. CASE \E s \in Song : Songs!Upload(s)
  BY <1>1 DEF Songs!Upload, Drained, Songs!Slot
<1>2. CASE \E m \in Songs!Message : Songs!Expire(m)
  BY <1>2 DEF Songs!Expire, Drained, Songs!Slot
<1>3. CASE Songs!BrokerRestart
  <2>1. slot' = [w \in Server |-> Songs!Orphaned(w)] /\ process' = [w \in Server |-> IF process[w] = "up" THEN "deaf" ELSE process[w]]
    BY <1>3 DEF Songs!BrokerRestart
  <2>2. process' \in [Server -> Songs!Process] /\ \A w \in Server, i \in Songs!Slot : slot'[w][i].stage # "active"
    BY <2>1, Orphans DEF Drained
  <2> QED  BY <2>2 DEF Drained, Songs!Slot
<1>4. ASSUME NEW w \in Server, Songs!Deliver(w) PROVE Drained'
  <2>1. process[w] = "up" /\ process' = process /\ \A v \in Server : v # w => slot'[v] = slot[v]
    BY <1>4 DEF Songs!Deliver, Songs!Put, SongInv, SongTypes
  <2> QED  BY <2>1 DEF Drained, Songs!Slot
<1>5. ASSUME NEW w \in Server, Songs!Shutdown(w) \/ Songs!CancelOk(w) \/ Songs!Start(w) PROVE Drained'
  <2>1. slot' = slot /\ \E p \in Songs!Process \ {"requeued"} : process' = [process EXCEPT ![w] = p]
    BY <1>5 DEF Songs!Shutdown, Songs!CancelOk, Songs!Start
  <2> QED  BY <2>1 DEF Drained, Songs!Slot
<1>6. ASSUME NEW w \in Server, Songs!Requeue(w) \/ Songs!LoseConnection(w) \/ Songs!Crash(w) \/ Songs!Exit(w)
      PROVE  Drained'
  <2>1. /\ \E p \in Songs!Process : process' = [process EXCEPT ![w] = p]
        /\ slot' = [slot EXCEPT ![w] = Songs!Orphaned(w)] \/ slot' = [slot EXCEPT ![w] = [i \in Songs!Slot |-> Songs!Free]]
    BY <1>6 DEF Songs!Requeue, Songs!LoseConnection, Songs!Crash, Songs!Exit, Drained
  <2>2. process' \in [Server -> Songs!Process] /\ \A v \in Server : v # w => process'[v] = process[v] /\ slot'[v] = slot[v]
    BY <2>1 DEF Drained, SongInv, SongTypes
  <2>3. \A i \in Songs!Slot : slot'[w][i].stage # "active"
    BY <2>1, Orphans DEF SongInv, SongTypes, Songs!Free
  <2> QED  BY <2>2, <2>3 DEF Drained, Songs!Slot
<1>7. ASSUME NEW w \in Server, NEW i \in Songs!Slot, Songs!HandlerStep(w, i) PROVE Drained'
  <2>1. process' = process /\ \E d : Songs!Put(w, i, d) /\ d.stage # "active"
    BY <1>7, SlotRow DEF Songs!HandlerStep, Songs!HandlerResolves, Songs!HandlerRejects, Songs!AckRetry,
                         Songs!OrphanEnds, Songs!Free, Songs!Taken
  <2>2. \A v \in Server, k \in Songs!Slot : slot'[v][k].stage = "active" => slot[v][k].stage = "active"
    BY <2>1 DEF Songs!Put, SongInv, SongTypes
  <2> QED  BY <2>1, <2>2 DEF Drained, Songs!Slot
<1> QED  BY <1>1, <1>2, <1>3, <1>4, <1>5, <1>6, <1>7 DEF Songs!Next, Songs!DrainStep

LEMMA SongsAlways == InfraSpec => [](SongInv /\ Drained)
<1>1. InfraInit => SongInv /\ Drained
  BY SongInit DEF InfraInit, Songs!Init, Drained, Songs!Process
<1>2. SongInv /\ Drained /\ [InfraNext]_allVars => (SongInv /\ Drained)'
  <2>1. SongInv /\ Drained /\ UNCHANGED songVars => (SongInv /\ Drained)'
    BY SongProcessOnly DEF songVars, Drained, Songs!Process, Songs!Slot
  <2> QED  BY <2>1, SongStep, DrainedStep DEF InfraNext, allVars
<1> QED  BY <1>1, <1>2, PTL DEF InfraSpec

\* An upload is never forgotten in silence: its message waits, or a live delivery of it is
\* handled, or the cause of its end is on record (finalizeUpload, startSongWorker,
\* handleFailure, drainWorkerQueues).
THEOREM UploadsAreRemembered == InfraSpec => []NoneForgotten
<1>1. SongInv => NoneForgotten
  BY DEF SongInv, Remembered, NoneForgotten, Songs!NoneForgotten
<1> QED  BY <1>1, SongsAlways, PTL

(* What the copies of a song and the causes on record come to *)

Active(m) == [stage |-> "active", msg |-> m]
Published(m) == [stage |-> "published", msg |-> m]
Retry(s) == [song |-> s, attempt |-> 2]

Handlers == Server \X Songs!Slot
At(c) == {h \in Handlers : slot[h[1]][h[2]] = c}
HandlersWith(c) == Cardinality(At(c))
Waits(m) == IF m \in Songs!Message THEN ready[m] ELSE 0

\* The first message of s, and the retry it may have become, its ack to come.
FirstCopies(s) ==
    Waits(Songs!First(s)) + HandlersWith(Active(Songs!First(s))) + HandlersWith(Published(Songs!First(s)))

\* Its copies and the causes on record.
AllCopies(s) ==
    Waits(Songs!First(s)) + HandlersWith(Active(Songs!First(s)))
      + Waits(Retry(s)) + HandlersWith(Active(Retry(s))) + Cardinality(Songs!Outcomes(s))

\* What has become a retry was not the last attempt.
RetriesAreFirst ==
    \A w \in Server, i \in Songs!Slot : slot[w][i].stage = "published" => slot[w][i].msg.attempt + 1 < MaxAttempts

\* A first message is never doubled, and a fault adds one copy or cause.
CopiesBounded ==
    /\ faults \in Nat
    /\ RetriesAreFirst
    /\ \A s \in Song :
         /\ FirstCopies(s) <= (IF s \in saved THEN 1 ELSE 0)
         /\ AllCopies(s) <= (IF s \in saved THEN 1 + faults ELSE 0)

LEMMA HandlersFinite == IsFiniteSet(Handlers)
<1>1. IsFiniteSet(Songs!Slot)
  BY InfraAssumption, FS_Interval DEF Songs!Slot
<1> QED  BY <1>1, InfraAssumption, FS_Product DEF Handlers

LEMMA AtFinite == \A c : IsFiniteSet(At(c)) /\ HandlersWith(c) \in Nat
<1> SUFFICES ASSUME NEW c PROVE IsFiniteSet(At(c)) /\ HandlersWith(c) \in Nat
  OBVIOUS
<1>1. At(c) \subseteq Handlers
  BY DEF At
<1>2. IsFiniteSet(At(c))
  BY <1>1, HandlersFinite, FS_Subset
<1> QED  BY <1>2, FS_CardinalityType DEF HandlersWith

LEMMA CausesFinite == IsFiniteSet({"acked", "exhausted", "expired", "transient", "unsent"})
<1>1. IsFiniteSet({"acked"})
  BY FS_Singleton
<1>2. IsFiniteSet({"acked"} \cup {"exhausted"})
  BY <1>1, FS_AddElement
<1>3. IsFiniteSet({"acked"} \cup {"exhausted"} \cup {"expired"})
  BY <1>2, FS_AddElement
<1>4. IsFiniteSet({"acked"} \cup {"exhausted"} \cup {"expired"} \cup {"transient"})
  BY <1>3, FS_AddElement
<1>5. IsFiniteSet({"acked"} \cup {"exhausted"} \cup {"expired"} \cup {"transient"} \cup {"unsent"})
  BY <1>4, FS_AddElement
<1>6. {"acked", "exhausted", "expired", "transient", "unsent"} =
        {"acked"} \cup {"exhausted"} \cup {"expired"} \cup {"transient"} \cup {"unsent"}
  OBVIOUS
<1> QED  BY <1>5, <1>6

LEMMA OutcomesFinite ==
  \A s : /\ IsFiniteSet(Songs!Outcomes(s)) /\ Cardinality(Songs!Outcomes(s)) \in Nat
<1> SUFFICES ASSUME NEW s PROVE IsFiniteSet(Songs!Outcomes(s)) /\ Cardinality(Songs!Outcomes(s)) \in Nat
  OBVIOUS
<1>1. Songs!Outcomes(s) \subseteq {"acked", "exhausted", "expired", "transient", "unsent"}
  BY DEF Songs!Outcomes, Songs!Outcome
<1>2. IsFiniteSet(Songs!Outcomes(s))
  BY <1>1, CausesFinite, FS_Subset
<1> QED  BY <1>2, FS_CardinalityType

LEMMA WaitsIs ==
  ASSUME SongTypes
  PROVE  \A m : Waits(m) \in Nat
  BY DEF SongTypes, Waits

\* One slot changes what it holds.
LEMMA OnePut ==
  ASSUME SongInv, NEW w \in Server, NEW i \in Songs!Slot, NEW d \in Songs!Taken \cup {Songs!Free}, Songs!Put(w, i, d),
         d # slot[w][i]
  PROVE  /\ HandlersWith(d)' = HandlersWith(d) + 1
         /\ HandlersWith(slot[w][i]) > 0
         /\ \A c : c = slot[w][i] => HandlersWith(c)' = HandlersWith(c) - 1
         /\ \A c : c # slot[w][i] /\ c # d => HandlersWith(c)' = HandlersWith(c)
<1> DEFINE h == <<w, i>>
<1>1. /\ slot'[w][i] = d
      /\ \A v \in Server, k \in Songs!Slot : <<v, k>> # <<w, i>> => slot'[v][k] = slot[v][k]
  BY SlotPut
<1>2. h \in Handlers /\ h[1] = w /\ h[2] = i
  BY DEF Handlers
<1>3. \A g \in Handlers : g # h => slot'[g[1]][g[2]] = slot[g[1]][g[2]]
  BY <1>1 DEF Handlers
<1>4. ASSUME NEW c, NEW before, NEW after, before = At(c), after = At(c)'
      PROVE  /\ c = d => after = before \cup {h} /\ h \notin before
             /\ c = slot[w][i] => after = before \ {h} /\ h \in before
             /\ c # slot[w][i] /\ c # d => after = before
  <2>1. before = {g \in Handlers : slot[g[1]][g[2]] = c}
    BY <1>4 DEF At
  <2>2. after = {g \in Handlers : slot'[g[1]][g[2]] = c}
    BY <1>4 DEF At, Handlers, Songs!Slot
  <2> QED  BY <1>1, <1>2, <1>3, <2>1, <2>2
<1> HIDE DEF h
<1>5. ASSUME NEW c, NEW before, NEW after, before = At(c), after = At(c)'
      PROVE  /\ c = d => Cardinality(after) = Cardinality(before) + 1
             /\ c = slot[w][i] => Cardinality(after) = Cardinality(before) - 1 /\ Cardinality(before) > 0
             /\ c # slot[w][i] /\ c # d => Cardinality(after) = Cardinality(before)
  <2>1. IsFiniteSet(before) /\ Cardinality(before) \in Nat
    BY <1>5, AtFinite, FS_CardinalityType
  <2>2. c = d => Cardinality(after) = Cardinality(before) + 1
    BY <1>4, <1>5, <2>1, FS_AddElement
  <2>3. c = slot[w][i] => Cardinality(after) = Cardinality(before) - 1 /\ Cardinality(before) > 0
    <3> SUFFICES ASSUME c = slot[w][i]
                 PROVE  Cardinality(after) = Cardinality(before) - 1 /\ Cardinality(before) > 0
      OBVIOUS
    <3>1. after = before \ {h} /\ h \in before
      BY <1>4, <1>5
    <3>2. Cardinality(before \ {h}) = Cardinality(before) - 1
      BY <2>1, <3>1, FS_RemoveElement
    <3>3. Cardinality(before) # 0
      BY <2>1, <3>1, FS_EmptySet
    <3> QED  BY <2>1, <3>1, <3>2, <3>3
  <2> QED  BY <1>4, <1>5, <2>2, <2>3
<1> QED  BY <1>5 DEF HandlersWith

\* What a slot holds, by its stage and message.
LEMMA SlotHolds ==
  ASSUME SongInv, NEW h \in Handlers, NEW m \in Songs!Message
  PROVE  /\ slot[h[1]][h[2]] = Active(m) <=> slot[h[1]][h[2]].stage = "active" /\ slot[h[1]][h[2]].msg = m
         /\ slot[h[1]][h[2]] = Published(m) <=> slot[h[1]][h[2]].stage = "published" /\ slot[h[1]][h[2]].msg = m
<1> DEFINE at == slot[h[1]][h[2]]
<1>1. h[1] \in Server /\ h[2] \in Songs!Slot
  BY DEF Handlers
<1>2. at \in Songs!Taken \cup {Songs!Free}
  BY <1>1 DEF SongInv, SongTypes
<1>3. Songs!Free.stage = "free" /\ Active(m).stage = "active" /\ Published(m).stage = "published"
      /\ Active(m).msg = m /\ Published(m).msg = m
  BY DEF Songs!Free, Active, Published
<1>4. at \in Songs!Taken => at = [stage |-> at.stage, msg |-> at.msg]
  BY DEF Songs!Taken
<1> HIDE DEF at
<1>5. at = Active(m) <=> at.stage = "active" /\ at.msg = m
  BY <1>2, <1>3, <1>4 DEF Active
<1>6. at = Published(m) <=> at.stage = "published" /\ at.msg = m
  BY <1>2, <1>3, <1>4 DEF Published
<1> QED  BY <1>5, <1>6 DEF at

\* A finite set and what is left of it.
LEMMA WhatIsLeft ==
  ASSUME NEW S, IsFiniteSet(S), NEW T \in SUBSET S
  PROVE  /\ IsFiniteSet(T) /\ IsFiniteSet(S \ T) /\ Cardinality(T) \in Nat /\ Cardinality(S \ T) \in Nat
         /\ Cardinality(S) = Cardinality(T) + Cardinality(S \ T)
<1>1. IsFiniteSet(T) /\ IsFiniteSet(S \ T)
  BY FS_Subset
<1>2. T \cap (S \ T) = {} /\ T \cup (S \ T) = S
  OBVIOUS
<1>3. Cardinality(T) \in Nat /\ Cardinality(S \ T) \in Nat /\ Cardinality({}) = 0
  BY <1>1, FS_CardinalityType, FS_EmptySet
<1>4. PICK R : R = S \ T
  OBVIOUS
<1>5. Cardinality(T \cup R) = Cardinality(T) + Cardinality(R) - Cardinality(T \cap R)
  BY <1>1, <1>4, FS_Union
<1>6. T \cup R = S /\ T \cap R = {}
  BY <1>2, <1>4
<1>7. Cardinality(S) = Cardinality(T) + Cardinality(R)
  <2>1. Cardinality(R) \in Nat /\ Cardinality(T \cap R) = 0
    BY <1>3, <1>4, <1>6
  <2>2. Cardinality(T \cup R) = Cardinality(S)
    BY <1>6
  <2> QED  BY <1>3, <1>5, <2>1, <2>2
<1> QED  BY <1>1, <1>3, <1>4, <1>7

\* The broker takes back what the processes ws held: no copy is lost, and those of a
\* retry whose ack is lost are two.
LEMMA TakenBackIs ==
  ASSUME SongInv, NEW ws \in SUBSET Server,
         \A w \in Server, i \in Songs!Slot : w \notin ws => slot'[w][i] = slot[w][i],
         \A w \in ws, i \in Songs!Slot : slot'[w][i].stage \notin {"active", "published"},
         NEW m \in Songs!Message
  PROVE  /\ Songs!TakenBack(ws)[m] + HandlersWith(Active(m))' + HandlersWith(Published(m))'
              = ready[m] + HandlersWith(Active(m)) + HandlersWith(Published(m))
         /\ Songs!TakenBack(ws)[m] \in Nat
         /\ HandlersWith(Active(m))' \in Nat /\ HandlersWith(Published(m))' \in Nat
         /\ HandlersWith(Published(m))' <= HandlersWith(Published(m))
         /\ (\A w \in ws, i \in Songs!Slot : slot[w][i].stage # "published")
              => HandlersWith(Published(m))' = HandlersWith(Published(m))
<1> DEFINE back == {h \in ws \X Songs!Slot : h[2] \in Songs!Unacked(h[1]) /\ slot[h[1]][h[2]].msg = m}
<1>1. PICK a, p, a1, p1 : a = At(Active(m)) /\ p = At(Published(m)) /\ a1 = At(Active(m))' /\ p1 = At(Published(m))'
  OBVIOUS
<1>2. /\ a = {h \in Handlers : slot[h[1]][h[2]] = Active(m)}
      /\ p = {h \in Handlers : slot[h[1]][h[2]] = Published(m)}
  BY <1>1 DEF At
<1>3. /\ a1 = {h \in Handlers : slot'[h[1]][h[2]] = Active(m)}
      /\ p1 = {h \in Handlers : slot'[h[1]][h[2]] = Published(m)}
  BY <1>1 DEF At, Handlers, Songs!Slot, Active, Published
<1>4. Active(m).stage = "active" /\ Published(m).stage = "published"
  BY DEF Active, Published
<1>5. \A h \in Handlers : h[1] \in Server /\ h[2] \in Songs!Slot /\ h = <<h[1], h[2]>>
  BY DEF Handlers
<1>6. \A h \in Handlers : h[1] \notin ws => slot'[h[1]][h[2]] = slot[h[1]][h[2]]
  BY <1>5
<1>7. \A h \in Handlers : h[1] \in ws => slot'[h[1]][h[2]].stage \notin {"active", "published"}
  BY <1>5
<1>8. a1 = {h \in a : h[1] \notin ws} /\ p1 = {h \in p : h[1] \notin ws}
  BY <1>2, <1>3, <1>4, <1>6, <1>7
<1>9. back = {h \in a \cup p : h[1] \in ws}
  <2>1. \A h \in Handlers : h[2] \in Songs!Unacked(h[1]) /\ slot[h[1]][h[2]].msg = m <=> h \in a \cup p
    BY <1>2, <1>5, SlotHolds DEF Songs!Unacked
  <2>2. \A h : h \in ws \X Songs!Slot <=> h \in Handlers /\ h[1] \in ws
    BY DEF Handlers
  <2>3. a \cup p \subseteq Handlers
    BY <1>2
  <2> HIDE DEF Handlers
  <2> QED  BY <2>1, <2>2, <2>3
<1>10. a \cap p = {}
  BY <1>2, <1>4
<1>11. IsFiniteSet(a) /\ IsFiniteSet(p)
  BY <1>1, AtFinite
<1> HIDE DEF back
<1>12. back = (a \ a1) \cup (p \ p1) /\ (a \ a1) \cap (p \ p1) = {} /\ a1 \in SUBSET a /\ p1 \in SUBSET p
  BY <1>8, <1>9, <1>10
<1>13. /\ Cardinality(a) = Cardinality(a1) + Cardinality(a \ a1) /\ Cardinality(a1) \in Nat
       /\ Cardinality(a \ a1) \in Nat /\ IsFiniteSet(a \ a1)
  BY <1>11, <1>12, WhatIsLeft
<1>14. /\ Cardinality(p) = Cardinality(p1) + Cardinality(p \ p1) /\ Cardinality(p1) \in Nat
       /\ Cardinality(p \ p1) \in Nat /\ IsFiniteSet(p \ p1)
  BY <1>11, <1>12, WhatIsLeft
<1>15. Cardinality(back) = Cardinality(a \ a1) + Cardinality(p \ p1)
  <2>1. Cardinality((a \ a1) \cup (p \ p1)) =
          Cardinality(a \ a1) + Cardinality(p \ p1) - Cardinality((a \ a1) \cap (p \ p1))
    BY <1>13, <1>14, FS_Union
  <2>2. Cardinality((a \ a1) \cap (p \ p1)) = 0
    BY <1>12, FS_EmptySet
  <2> QED  BY <1>12, <1>13, <1>14, <2>1, <2>2
<1>16. Songs!TakenBack(ws)[m] = ready[m] + Cardinality(back) /\ ready[m] \in Nat
  BY SongsCardinality DEF Songs!TakenBack, back, SongInv, SongTypes
<1>17. (\A w \in ws, i \in Songs!Slot : slot[w][i].stage # "published") => p1 = p
  BY <1>2, <1>4, <1>5, <1>8
<1>18. /\ HandlersWith(Active(m)) = Cardinality(a) /\ HandlersWith(Published(m)) = Cardinality(p)
       /\ HandlersWith(Active(m))' = Cardinality(a1) /\ HandlersWith(Published(m))' = Cardinality(p1)
  BY <1>1 DEF HandlersWith
<1> QED  BY <1>13, <1>14, <1>15, <1>16, <1>17, <1>18

\* The copies of s that wait, by their attempts.
LEMMA CopiesWait ==
  ASSUME NEW s, NEW S
  PROVE  Songs!MapThenSumSet(LAMBDA a : ready[[song |-> s, attempt |-> a]], S)
           = FoldFunctionOnSet(+, 0, [a \in S |-> ready[[song |-> s, attempt |-> a]]], S)
<1> DEFINE f == [a \in S |-> ready[[song |-> s, attempt |-> a]]]
           pick(t) == CHOOSE x \in t : TRUE
           ByCopies(it) == [t \in SUBSET S |->
             IF t = {} THEN 0 ELSE ready[[song |-> s, attempt |-> pick(t)]] + it[t \ {pick(t)}]]
           ByFunction(it) == [t \in SUBSET S |-> IF t = {} THEN 0 ELSE f[pick(t)] + it[t \ {pick(t)}]]
<1>1. ASSUME NEW it PROVE ByCopies(it) = ByFunction(it)
  <2> SUFFICES ASSUME NEW t \in SUBSET S, t # {} PROVE ready[[song |-> s, attempt |-> pick(t)]] = f[pick(t)]
    OBVIOUS
  <2>1. pick(t) \in t
    OBVIOUS
  <2> QED  BY <2>1
<1>2. Songs!MapThenSumSet(LAMBDA a : ready[[song |-> s, attempt |-> a]], S)
        = (CHOOSE it : it = ByCopies(it))[S]
  BY DEF Songs!MapThenSumSet, Songs!MapThenFoldSet
<1>3. FoldFunctionOnSet(+, 0, f, S) = (CHOOSE it : it = ByFunction(it))[S]
  BY DEF FoldFunctionOnSet, MapThenFoldSet
<1>4. (CHOOSE it : it = ByCopies(it)) = (CHOOSE it : it = ByFunction(it))
  <2> HIDE DEF ByCopies, ByFunction
  <2> QED  BY <1>1
<1> QED  BY <1>2, <1>3, <1>4

\* There are at most two attempts to wait for.
LEMMA TwoAttempts ==
  ASSUME SongInv, MaxAttempts <= 3, NEW s \in Song
  PROVE  FoldFunctionOnSet(+, 0, [a \in 1..MaxAttempts - 1 |-> ready[[song |-> s, attempt |-> a]]], 1..MaxAttempts - 1)
           = Waits(Songs!First(s)) + Waits(Retry(s))
<1>1. PICK f, S : f = [a \in 1..MaxAttempts - 1 |-> ready[[song |-> s, attempt |-> a]]] /\ S = 1..MaxAttempts - 1
  OBVIOUS
<1>2. MaxAttempts \in {2, 3}
  BY InfraAssumption
<1>3. \A a \in S : f[a] = ready[[song |-> s, attempt |-> a]] /\ [song |-> s, attempt |-> a] \in Songs!Message
  BY <1>1 DEF Songs!Message
<1>4. (\A a \in S : f[a] \in Nat) /\ IsFiniteSet(S)
  BY <1>1, <1>2, <1>3, FS_Interval DEF SongInv, SongTypes
<1>5. f[1] = Waits(Songs!First(s)) /\ f[1] \in Nat /\ 1 \in S
  <2>1. 1 \in S
    BY <1>1, <1>2
  <2> QED  BY <1>3, <1>4, <2>1 DEF Waits, Songs!First
<1>6. FoldFunctionOnSet(+, 0, f, S) = f[1] + FoldFunctionOnSet(+, 0, f, S \ {1})
  BY <1>4, <1>5, SumTakesOut
<1>7. FoldFunctionOnSet(+, 0, f, S \ {1}) = Waits(Retry(s))
  <2>1. CASE MaxAttempts = 2
    <3>1. S \ {1} = {} /\ Retry(s) \notin Songs!Message
      BY <1>1, <2>1 DEF Retry, Songs!Message
    <3>2. FoldFunctionOnSet(+, 0, f, S \ {1}) = 0
      BY <3>1, SumOfNone
    <3> QED  BY <3>1, <3>2 DEF Waits
  <2>2. CASE MaxAttempts = 3
    <3>1. S \ {1} = {2} /\ 2 \in S
      BY <1>1, <2>2
    <3>2. f[2] = Waits(Retry(s)) /\ f[2] \in Nat
      BY <1>3, <1>4, <3>1 DEF Waits, Retry
    <3>3. IsFiniteSet({2}) /\ (\A a \in {2} : f[a] \in Nat) /\ {2} \ {2} = {} /\ 2 \in {2}
      BY <3>2, FS_Singleton
    <3>4. FoldFunctionOnSet(+, 0, f, {2}) = f[2] + FoldFunctionOnSet(+, 0, f, {2} \ {2})
      BY <3>3, SumTakesOut
    <3>5. FoldFunctionOnSet(+, 0, f, {2} \ {2}) = 0
      BY <3>3, SumOfNone
    <3>6. PICK n : n = FoldFunctionOnSet(+, 0, f, {2})
      OBVIOUS
    <3>7. n = f[2] + 0
      BY <3>4, <3>5, <3>6
    <3>8. n = Waits(Retry(s))
      BY <3>2, <3>7
    <3> QED  BY <3>1, <3>6, <3>8
  <2> QED  BY <1>2, <2>1, <2>2
<1> QED  BY <1>1, <1>5, <1>6, <1>7

\* The copies of s, and the causes on record.
LEMMA CopiesAre ==
  ASSUME SongInv, MaxAttempts <= 3, NEW s \in Song
  PROVE  Songs!Copies(s) + Songs!Cardinality(Songs!Outcomes(s)) = AllCopies(s)
<1> DEFINE held == {h \in Server \X Songs!Slot : slot[h[1]][h[2]].stage = "active" /\ slot[h[1]][h[2]].msg.song = s}
<1>1. Songs!MapThenSumSet(LAMBDA a : ready[[song |-> s, attempt |-> a]], 1..MaxAttempts - 1)
        = Waits(Songs!First(s)) + Waits(Retry(s))
  BY CopiesWait, TwoAttempts
<1>2. PICK a1, a2 : a1 = At(Active(Songs!First(s))) /\ a2 = At(Active(Retry(s)))
  OBVIOUS
<1>3. held = a1 \cup a2
  <2>1. \A h \in Handlers : h \in held <=> slot[h[1]][h[2]] \in {Active(Songs!First(s)), Active(Retry(s))}
    <3> SUFFICES ASSUME NEW h \in Handlers
                 PROVE  h \in held <=> slot[h[1]][h[2]] \in {Active(Songs!First(s)), Active(Retry(s))}
      OBVIOUS
    <3>0. h[1] \in Server /\ h[2] \in Songs!Slot
      BY DEF Handlers
    <3>1. ASSUME h \in held PROVE slot[h[1]][h[2]] \in {Active(Songs!First(s)), Active(Retry(s))}
      <4>1. slot[h[1]][h[2]].stage = "active" /\ slot[h[1]][h[2]].msg.song = s
        BY <3>1
      <4>2. PICK m \in Songs!Message : m = slot[h[1]][h[2]].msg
        BY <3>0, <4>1, SlotRow
      <4>3. slot[h[1]][h[2]] = Active(m)
        BY <4>1, <4>2, SlotHolds
      <4>4. m = [song |-> s, attempt |-> m.attempt] /\ m.attempt \in {1, 2}
        BY <4>1, <4>2, InfraAssumption DEF Songs!Message
      <4>5. m = Songs!First(s) \/ m = Retry(s)
        BY <4>4 DEF Songs!First, Retry
      <4> QED  BY <4>3, <4>5
    <3>2. ASSUME slot[h[1]][h[2]] \in {Active(Songs!First(s)), Active(Retry(s))} PROVE h \in held
      BY <3>2 DEF Active, Songs!First, Retry, Handlers
    <3> QED  BY <3>1, <3>2
  <2>2. held \subseteq Handlers
    BY DEF Handlers
  <2> HIDE DEF held
  <2> QED  BY <1>2, <2>1, <2>2 DEF At
<1>4. a1 \cap a2 = {}
  <2>1. Active(Songs!First(s)) # Active(Retry(s))
    <3>1. Active(Songs!First(s)).msg.attempt = 1 /\ Active(Retry(s)).msg.attempt = 2
      BY DEF Active, Songs!First, Retry
    <3> QED  BY <3>1
  <2> QED  BY <1>2, <2>1 DEF At
<1>5. IsFiniteSet(a1) /\ IsFiniteSet(a2) /\ Cardinality(a1) \in Nat /\ Cardinality(a2) \in Nat
  BY <1>2, AtFinite, FS_CardinalityType
<1>6. Cardinality(a1 \cup a2) = Cardinality(a1) + Cardinality(a2)
  <2>1. Cardinality(a1 \cup a2) = Cardinality(a1) + Cardinality(a2) - Cardinality(a1 \cap a2)
    BY <1>5, FS_Union
  <2>2. Cardinality(a1 \cap a2) = 0
    BY <1>4, FS_EmptySet
  <2> QED  BY <1>5, <2>1, <2>2
<1>7. Songs!Copies(s) = (Waits(Songs!First(s)) + Waits(Retry(s))) + Cardinality(a1 \cup a2)
  <2>1. Songs!Copies(s) =
          Songs!MapThenSumSet(LAMBDA a : ready[[song |-> s, attempt |-> a]], 1..MaxAttempts - 1) + Songs!Cardinality(held)
    BY DEF Songs!Copies
  <2>2. Songs!Cardinality(held) = Cardinality(a1 \cup a2)
    BY <1>3, SongsCardinality
  <2> HIDE DEF held
  <2> QED  BY <1>1, <2>1, <2>2
<1>8. Songs!Cardinality(Songs!Outcomes(s)) = Cardinality(Songs!Outcomes(s)) /\ Cardinality(Songs!Outcomes(s)) \in Nat
  BY SongsCardinality, OutcomesFinite
<1>9. Waits(Songs!First(s)) \in Nat /\ Waits(Retry(s)) \in Nat
  BY WaitsIs DEF SongInv
<1>10. Cardinality(a1) = HandlersWith(Active(Songs!First(s))) /\ Cardinality(a2) = HandlersWith(Active(Retry(s)))
  BY <1>2 DEF HandlersWith
<1> QED  BY <1>5, <1>6, <1>7, <1>8, <1>9, <1>10 DEF AllCopies

LEMMA PutCounts ==
  ASSUME SongInv, NEW w \in Server, NEW i \in Songs!Slot, NEW d \in Songs!Taken \cup {Songs!Free}, Songs!Put(w, i, d),
         d # slot[w][i], NEW c
  PROVE  /\ HandlersWith(c) \in Nat /\ HandlersWith(c)' \in Nat
         /\ HandlersWith(c)' = HandlersWith(c) + (IF c = d THEN 1 ELSE 0) - (IF c = slot[w][i] THEN 1 ELSE 0)
<1>1. HandlersWith(c) \in Nat
  BY AtFinite
<1>2. CASE c = d
  BY <1>1, <1>2, OnePut
<1>3. CASE c = slot[w][i]
  <2>1. HandlersWith(c) > 0 /\ HandlersWith(c)' = HandlersWith(c) - 1
    BY <1>3, OnePut
  <2> QED  BY <1>1, <1>3, <2>1
<1>4. CASE c # d /\ c # slot[w][i]
  BY <1>1, <1>4, OnePut
<1> QED  BY <1>2, <1>3, <1>4

LEMMA CopyNumbers ==
  ASSUME SongInv, NEW s
  PROVE  /\ Waits(Songs!First(s)) \in Nat /\ Waits(Retry(s)) \in Nat /\ Cardinality(Songs!Outcomes(s)) \in Nat
         /\ HandlersWith(Active(Songs!First(s))) \in Nat /\ HandlersWith(Active(Retry(s))) \in Nat
         /\ HandlersWith(Published(Songs!First(s))) \in Nat
         /\ FirstCopies(s) \in Nat /\ AllCopies(s) \in Nat
<1>1. /\ Waits(Songs!First(s)) \in Nat /\ Waits(Retry(s)) \in Nat /\ Cardinality(Songs!Outcomes(s)) \in Nat
      /\ HandlersWith(Active(Songs!First(s))) \in Nat /\ HandlersWith(Active(Retry(s))) \in Nat
      /\ HandlersWith(Published(Songs!First(s))) \in Nat
  BY WaitsIs, AtFinite, OutcomesFinite DEF SongInv
<1> QED  BY <1>1 DEF FirstCopies, AllCopies

LEMMA NextHandlersFinite == ASSUME NEW c PROVE HandlersWith(c)' \in Nat
<1>1. PICK T : T = At(c)'
  OBVIOUS
<1>2. T \subseteq Handlers
  BY <1>1 DEF At, Handlers, Songs!Slot
<1>3. Cardinality(T) \in Nat
  BY <1>2, HandlersFinite, FS_Subset, FS_CardinalityType
<1> QED  BY <1>1, <1>3 DEF HandlersWith

LEMMA NextCopyNumbers ==
  ASSUME SongInv', NEW s
  PROVE  /\ Waits(Songs!First(s))' \in Nat /\ Waits(Retry(s))' \in Nat /\ Cardinality(Songs!Outcomes(s))' \in Nat
         /\ HandlersWith(Active(Songs!First(s)))' \in Nat /\ HandlersWith(Active(Retry(s)))' \in Nat
         /\ HandlersWith(Published(Songs!First(s)))' \in Nat
         /\ FirstCopies(s)' \in Nat /\ AllCopies(s)' \in Nat
<1>1. ASSUME NEW c PROVE HandlersWith(c)' \in Nat
  BY NextHandlersFinite
<1>2. ASSUME NEW m PROVE Waits(m)' \in Nat
  BY DEF SongInv, SongTypes, Waits, Songs!Message
<1>3. Cardinality(Songs!Outcomes(s))' \in Nat
  <2>1. PICK T : T = Songs!Outcomes(s)'
    OBVIOUS
  <2>2. T \subseteq {"acked", "exhausted", "expired", "transient", "unsent"}
    BY <2>1 DEF Songs!Outcomes, Songs!Outcome
  <2>3. Cardinality(T) \in Nat
    BY <2>2, CausesFinite, FS_Subset, FS_CardinalityType
  <2> QED  BY <2>1, <2>3
<1>4. /\ HandlersWith(Active(Songs!First(s)))' \in Nat /\ HandlersWith(Active(Retry(s)))' \in Nat
      /\ HandlersWith(Published(Songs!First(s)))' \in Nat
  BY <1>1 DEF Active, Published, Songs!First, Retry
<1>5. Waits(Songs!First(s))' \in Nat /\ Waits(Retry(s))' \in Nat
  BY <1>2 DEF Songs!First, Retry
<1> QED  BY <1>3, <1>4, <1>5 DEF FirstCopies, AllCopies

\* A cause goes on record, of one song.
LEMMA CauseAdded ==
  ASSUME NEW r \in Song, NEW o, settled' = settled \cup {<<r, o>>}, NEW s
  PROVE  Cardinality(Songs!Outcomes(s))' <= Cardinality(Songs!Outcomes(s)) + (IF s = r THEN 1 ELSE 0)
<1>1. PICK before, after : before = Songs!Outcomes(s) /\ after = Songs!Outcomes(s)'
  OBVIOUS
<1>2. before = {x \in Songs!Outcome : <<s, x>> \in settled}
  BY <1>1 DEF Songs!Outcomes
<1>3. after = {x \in Songs!Outcome : <<s, x>> \in settled'}
  BY <1>1 DEF Songs!Outcomes, Songs!Outcome
<1>4. IsFiniteSet(before) /\ Cardinality(before) \in Nat
  BY <1>1, OutcomesFinite
<1>5. IsFiniteSet(before \cup {o}) /\ Cardinality(before \cup {o}) <= Cardinality(before) + 1
      /\ Cardinality(before \cup {o}) \in Nat
  <2>1. IsFiniteSet(before \cup {o})
    BY <1>4, FS_AddElement
  <2>2. Cardinality(before \cup {o}) = IF o \in before THEN Cardinality(before) ELSE Cardinality(before) + 1
    BY <1>4, FS_AddElement
  <2> QED  BY <1>4, <2>1, <2>2
<1>6. CASE s = r
  <2>1. after \subseteq before \cup {o}
    BY <1>2, <1>3, <1>6
  <2>2. Cardinality(after) <= Cardinality(before \cup {o}) /\ Cardinality(after) \in Nat
    BY <1>5, <2>1, FS_Subset, FS_CardinalityType
  <2>3. Cardinality(after) <= Cardinality(before) + 1
    BY <1>4, <1>5, <2>2
  <2> QED  BY <1>1, <1>6, <2>3
<1>7. CASE s # r
  <2>1. after = before
    BY <1>2, <1>3, <1>7
  <2>2. Cardinality(after) <= Cardinality(before) + 0
    BY <1>4, <2>1
  <2> QED  BY <1>1, <1>7, <2>2
<1> QED  BY <1>6, <1>7

LEMMA SameCauses ==
  ASSUME settled' = settled, NEW s
  PROVE  Cardinality(Songs!Outcomes(s))' = Cardinality(Songs!Outcomes(s))
  BY DEF Songs!Outcomes, Songs!Outcome

\* Steps after which a song has no more copies and causes than before.
NoMoreCopies ==
    \A s \in Song : FirstCopies(s)' <= FirstCopies(s) /\ AllCopies(s)' <= AllCopies(s)

\* Those of a fault, which may put a first message back beside its retry.
FaultCopies ==
    \A s \in Song : FirstCopies(s)' <= FirstCopies(s) /\ AllCopies(s)' <= AllCopies(s) + FirstCopies(s)

LEMMA BoundedStep ==
  ASSUME SongInv, SongInv', CopiesBounded, RetriesAreFirst', saved' = saved,
         \/ NoMoreCopies /\ faults' \in {faults, faults + 1}
         \/ FaultCopies /\ faults' = faults + 1
  PROVE  CopiesBounded'
<1>1. faults \in Nat /\ faults' \in Nat /\ (faults' = faults \/ faults' = faults + 1)
  BY DEF CopiesBounded
<1>2. ASSUME NEW s \in Song
      PROVE  /\ FirstCopies(s)' <= (IF s \in saved THEN 1 ELSE 0)
             /\ AllCopies(s)' <= (IF s \in saved THEN 1 + faults' ELSE 0)
  <2>1. /\ FirstCopies(s) \in Nat /\ AllCopies(s) \in Nat
        /\ FirstCopies(s)' \in Nat /\ AllCopies(s)' \in Nat
    <3>1. FirstCopies(s) \in Nat /\ AllCopies(s) \in Nat
      BY CopyNumbers
    <3>2. FirstCopies(s)' \in Nat /\ AllCopies(s)' \in Nat
      BY NextCopyNumbers
    <3> QED  BY <3>1, <3>2
  <2>2. /\ FirstCopies(s) <= (IF s \in saved THEN 1 ELSE 0)
        /\ AllCopies(s) <= (IF s \in saved THEN 1 + faults ELSE 0)
    BY DEF CopiesBounded
  <2>3. CASE NoMoreCopies
    <3>1. FirstCopies(s)' <= FirstCopies(s) /\ AllCopies(s)' <= AllCopies(s)
      BY <2>3 DEF NoMoreCopies
    <3> QED  BY <1>1, <2>1, <2>2, <3>1
  <2>4. CASE FaultCopies /\ faults' = faults + 1
    <3>1. FirstCopies(s)' <= FirstCopies(s) /\ AllCopies(s)' <= AllCopies(s) + FirstCopies(s)
      BY <2>4 DEF FaultCopies
    <3> QED  BY <1>1, <2>1, <2>2, <2>4, <3>1
  <2> QED  BY <2>3, <2>4
<1> QED  BY <1>1, <1>2 DEF CopiesBounded, RetriesAreFirst

\* Two deliveries that are told apart by their message.
LEMMA SameDelivery ==
  \A m, n : /\ Active(m) = Active(n) <=> m = n
            /\ Published(m) = Published(n) <=> m = n
            /\ Active(m) # Published(n) /\ Active(m) # Songs!Free /\ Published(m) # Songs!Free
<1> SUFFICES ASSUME NEW m, NEW n
             PROVE  /\ Active(m) = Active(n) <=> m = n
                    /\ Published(m) = Published(n) <=> m = n
                    /\ Active(m) # Published(n) /\ Active(m) # Songs!Free /\ Published(m) # Songs!Free
  OBVIOUS
<1>1. /\ Active(m).msg = m /\ Active(n).msg = n /\ Published(m).msg = m /\ Published(n).msg = n
      /\ Active(m).stage = "active" /\ Published(n).stage = "published" /\ Published(m).stage = "published"
      /\ Songs!Free.stage = "free"
  BY DEF Active, Published, Songs!Free
<1> QED  BY <1>1

\* The messages of a song.
LEMMA MessagesAre ==
  ASSUME MaxAttempts <= 3, NEW m \in Songs!Message
  PROVE  /\ m.song \in Song
         /\ m.attempt = 1 => m = Songs!First(m.song)
         /\ m.attempt # 1 => m = Retry(m.song)
         /\ m.attempt + 1 < MaxAttempts => m.attempt = 1
         /\ \A s : s # m.song => m # Songs!First(s) /\ m # Retry(s)
         /\ \A s : Songs!First(s) # Retry(s)
<1>1. m.song \in Song /\ m.attempt \in {1, 2} /\ m = [song |-> m.song, attempt |-> m.attempt]
  BY InfraAssumption DEF Songs!Message
<1>2. \A s : /\ Songs!First(s).attempt = 1 /\ Songs!First(s).song = s
             /\ Retry(s).attempt = 2 /\ Retry(s).song = s
  BY DEF Songs!First, Retry
<1>3. m.attempt + 1 < MaxAttempts => m.attempt = 1
  BY <1>1, InfraAssumption
<1>4. (m.attempt = 1 => m = Songs!First(m.song)) /\ (m.attempt # 1 => m = Retry(m.song))
  BY <1>1 DEF Songs!First, Retry
<1> QED  BY <1>1, <1>2, <1>3, <1>4

\* The queue of one message changes.
LEMMA WaitsMove ==
  ASSUME SongInv, NEW m \in Songs!Message, NEW k \in Int, ready' = [ready EXCEPT ![m] = k]
  PROVE  \A n : Waits(n)' = IF n = m THEN k ELSE Waits(n)
<1>1. PICK M : M = Songs!Message
  OBVIOUS
<1>2. \A n : Waits(n)' = IF n \in M THEN ready'[n] ELSE 0
  BY <1>1 DEF Waits, Songs!Message
<1>3. \A n : Waits(n) = IF n \in M THEN ready[n] ELSE 0
  BY <1>1 DEF Waits
<1>4. m \in M /\ ready \in [M -> Nat]
  BY <1>1 DEF SongInv, SongTypes
<1>5. \A n \in M : ready'[n] = IF n = m THEN k ELSE ready[n]
  BY <1>4
<1> QED  BY <1>2, <1>3, <1>4, <1>5

\* A handler ends and frees its slot, its cause on record.
LEMMA CopiesSettle ==
  ASSUME SongInv, SongInv', MaxAttempts <= 3, NEW w \in Server, NEW i \in Songs!Slot, slot[w][i].stage = "active",
         Songs!Put(w, i, Songs!Free), ready' = ready, NEW o, settled' = settled \cup {<<slot[w][i].msg.song, o>>}
  PROVE  NoMoreCopies
<1>1. PICK m \in Songs!Message : slot[w][i] = Active(m) /\ m = slot[w][i].msg
  <2>1. slot[w][i].msg \in Songs!Message /\ <<w, i>> \in Handlers /\ <<w, i>>[1] = w /\ <<w, i>>[2] = i
    BY SlotRow DEF Handlers
  <2>2. PICK h \in Handlers : h[1] = w /\ h[2] = i
    BY <2>1
  <2> QED  BY <2>1, <2>2, SlotHolds
<1>2. Songs!Free # slot[w][i] /\ \A n : Published(n) # slot[w][i] /\ Published(n) # Songs!Free /\ Active(n) # Songs!Free
  BY <1>1, SameDelivery
<1>3. \A n : HandlersWith(Active(n))' = HandlersWith(Active(n)) - (IF n = m THEN 1 ELSE 0)
             /\ HandlersWith(Published(n))' = HandlersWith(Published(n))
  <2> SUFFICES ASSUME NEW n
               PROVE  HandlersWith(Active(n))' = HandlersWith(Active(n)) - (IF n = m THEN 1 ELSE 0)
                      /\ HandlersWith(Published(n))' = HandlersWith(Published(n))
    OBVIOUS
  <2>1. \A c : /\ HandlersWith(c) \in Nat
               /\ HandlersWith(c)' = HandlersWith(c) + (IF c = Songs!Free THEN 1 ELSE 0) - (IF c = slot[w][i] THEN 1 ELSE 0)
    BY <1>2, PutCounts
  <2>2. Active(n) = slot[w][i] <=> n = m
    BY <1>1, SameDelivery
  <2> QED  BY <1>2, <2>1, <2>2
<1>4. \A n : Waits(n)' = Waits(n)
  BY DEF Waits, Songs!Message
<1>5. \A s : Cardinality(Songs!Outcomes(s))' <= Cardinality(Songs!Outcomes(s)) + (IF s = m.song THEN 1 ELSE 0)
  BY <1>1, CauseAdded, MessagesAre
<1>6. ASSUME NEW s \in Song PROVE FirstCopies(s)' <= FirstCopies(s) /\ AllCopies(s)' <= AllCopies(s)
  <2>1. /\ Waits(Songs!First(s))' = Waits(Songs!First(s)) /\ Waits(Retry(s))' = Waits(Retry(s))
        /\ HandlersWith(Active(Songs!First(s)))'
             = HandlersWith(Active(Songs!First(s))) - (IF Songs!First(s) = m THEN 1 ELSE 0)
        /\ HandlersWith(Active(Retry(s)))' = HandlersWith(Active(Retry(s))) - (IF Retry(s) = m THEN 1 ELSE 0)
        /\ HandlersWith(Published(Songs!First(s)))' = HandlersWith(Published(Songs!First(s)))
    BY <1>3, <1>4
  <2>2. s = m.song => (Songs!First(s) = m \/ Retry(s) = m) /\ Songs!First(s) # Retry(s)
    BY MessagesAre
  <2>3. s # m.song => Songs!First(s) # m /\ Retry(s) # m
    BY MessagesAre
  <2>4. Cardinality(Songs!Outcomes(s))' <= Cardinality(Songs!Outcomes(s)) + (IF s = m.song THEN 1 ELSE 0)
    BY <1>5
  <2>5. /\ Waits(Songs!First(s)) \in Nat /\ Waits(Retry(s)) \in Nat /\ Cardinality(Songs!Outcomes(s)) \in Nat
        /\ HandlersWith(Active(Songs!First(s))) \in Nat /\ HandlersWith(Active(Retry(s))) \in Nat
        /\ HandlersWith(Published(Songs!First(s))) \in Nat /\ Cardinality(Songs!Outcomes(s))' \in Nat
    BY CopyNumbers, NextCopyNumbers
  <2>6. FirstCopies(s)' <= FirstCopies(s)
    BY <2>1, <2>5 DEF FirstCopies
  <2>7. AllCopies(s)' <= AllCopies(s)
    <3>1. CASE s = m.song
      BY <2>1, <2>2, <2>4, <2>5, <3>1 DEF AllCopies
    <3>2. CASE s # m.song
      BY <2>1, <2>3, <2>4, <2>5, <3>2 DEF AllCopies
    <3> QED  BY <3>1, <3>2
  <2> QED  BY <2>6, <2>7
<1> QED  BY <1>6 DEF NoMoreCopies

\* A handler publishes the retry of a first message, whose ack is to come.
LEMMA CopiesPublish ==
  ASSUME SongInv, SongInv', MaxAttempts <= 3, NEW w \in Server, NEW i \in Songs!Slot,
         NEW r \in Song, slot[w][i] = Active(Songs!First(r)), Songs!First(r) \in Songs!Message, Retry(r) \in Songs!Message,
         Songs!Put(w, i, Published(Songs!First(r))), ready' = [ready EXCEPT ![Retry(r)] = @ + 1], settled' = settled
  PROVE  NoMoreCopies
<1>1. PICK m, n \in Songs!Message : m = Songs!First(r) /\ n = Retry(r)
  OBVIOUS
<1>2. Published(m) \in Songs!Taken /\ Published(m) # slot[w][i]
  BY <1>1, SameDelivery DEF Songs!Taken, Published
<1>3. \A k : HandlersWith(Active(k))' = HandlersWith(Active(k)) - (IF k = m THEN 1 ELSE 0)
             /\ HandlersWith(Published(k))' = HandlersWith(Published(k)) + (IF k = m THEN 1 ELSE 0)
  <2> SUFFICES ASSUME NEW k
               PROVE  HandlersWith(Active(k))' = HandlersWith(Active(k)) - (IF k = m THEN 1 ELSE 0)
                      /\ HandlersWith(Published(k))' = HandlersWith(Published(k)) + (IF k = m THEN 1 ELSE 0)
    OBVIOUS
  <2>1. \A c : /\ HandlersWith(c) \in Nat
               /\ HandlersWith(c)' = HandlersWith(c) + (IF c = Published(m) THEN 1 ELSE 0) - (IF c = slot[w][i] THEN 1 ELSE 0)
    BY <1>1, <1>2, PutCounts
  <2>2. /\ Active(k) = slot[w][i] <=> k = m
        /\ Published(k) # slot[w][i] /\ Active(k) # Published(m)
        /\ Published(k) = Published(m) <=> k = m
    BY <1>1, SameDelivery
  <2> QED  BY <2>1, <2>2
<1>4. \A k : Waits(k)' = Waits(k) + (IF k = n THEN 1 ELSE 0)
  <2>1. ready[n] \in Nat /\ ready[n] + 1 \in Int /\ Waits(n) = ready[n]
    BY DEF Waits, SongInv, SongTypes
  <2>2. \A k : Waits(k)' = IF k = n THEN ready[n] + 1 ELSE Waits(k)
    BY <1>1, <2>1, WaitsMove
  <2>3. \A k : Waits(k) \in Nat
    BY WaitsIs DEF SongInv
  <2> QED  BY <2>1, <2>2, <2>3
<1>5. ASSUME NEW s \in Song PROVE FirstCopies(s)' <= FirstCopies(s) /\ AllCopies(s)' <= AllCopies(s)
  <2>1. /\ Waits(Songs!First(s))' = Waits(Songs!First(s)) + (IF Songs!First(s) = n THEN 1 ELSE 0)
        /\ Waits(Retry(s))' = Waits(Retry(s)) + (IF Retry(s) = n THEN 1 ELSE 0)
        /\ HandlersWith(Active(Songs!First(s)))'
             = HandlersWith(Active(Songs!First(s))) - (IF Songs!First(s) = m THEN 1 ELSE 0)
        /\ HandlersWith(Active(Retry(s)))' = HandlersWith(Active(Retry(s))) - (IF Retry(s) = m THEN 1 ELSE 0)
        /\ HandlersWith(Published(Songs!First(s)))'
             = HandlersWith(Published(Songs!First(s))) + (IF Songs!First(s) = m THEN 1 ELSE 0)
    BY <1>3, <1>4
  <2>2. /\ Songs!First(s) # n /\ Retry(s) # m
        /\ Songs!First(s) = m <=> s = r
        /\ Retry(s) = n <=> s = r
    <3>1. Songs!First(s).attempt = 1 /\ Retry(s).attempt = 2 /\ Songs!First(s).song = s /\ Retry(s).song = s
      BY DEF Songs!First, Retry
    <3>2. m.attempt = 1 /\ n.attempt = 2 /\ m.song = r /\ n.song = r
      BY <1>1 DEF Songs!First, Retry
    <3> QED  BY <1>1, <3>1, <3>2
  <2>3. Cardinality(Songs!Outcomes(s))' = Cardinality(Songs!Outcomes(s))
    BY SameCauses
  <2>4. /\ Waits(Songs!First(s)) \in Nat /\ Waits(Retry(s)) \in Nat /\ Cardinality(Songs!Outcomes(s)) \in Nat
        /\ HandlersWith(Active(Songs!First(s))) \in Nat /\ HandlersWith(Active(Retry(s))) \in Nat
        /\ HandlersWith(Published(Songs!First(s))) \in Nat
    BY CopyNumbers
  <2>5. FirstCopies(s)' <= FirstCopies(s)
    BY <2>1, <2>2, <2>4 DEF FirstCopies
  <2>6. AllCopies(s)' <= AllCopies(s)
    BY <2>1, <2>2, <2>3, <2>4 DEF AllCopies
  <2> QED  BY <2>5, <2>6
<1> QED  BY <1>5 DEF NoMoreCopies

\* A slot of no live delivery is freed, and nothing else happens.
LEMMA CopiesFreed ==
  ASSUME SongInv, SongInv', NEW w \in Server, NEW i \in Songs!Slot, slot[w][i].stage \in {"published", "orphan"},
         Songs!Put(w, i, Songs!Free), ready' = ready, settled' = settled
  PROVE  NoMoreCopies
<1>1. Songs!Free # slot[w][i] /\ \A n : Active(n) # slot[w][i]
  BY DEF Songs!Free, Active
<1>2. \A n : /\ HandlersWith(Active(n))' = HandlersWith(Active(n))
             /\ HandlersWith(Published(n))' <= HandlersWith(Published(n))
  <2> SUFFICES ASSUME NEW n
               PROVE  /\ HandlersWith(Active(n))' = HandlersWith(Active(n))
                      /\ HandlersWith(Published(n))' <= HandlersWith(Published(n))
    OBVIOUS
  <2>1. \A c : /\ HandlersWith(c) \in Nat /\ HandlersWith(c)' \in Nat
               /\ HandlersWith(c)' = HandlersWith(c) + (IF c = Songs!Free THEN 1 ELSE 0) - (IF c = slot[w][i] THEN 1 ELSE 0)
    BY <1>1, PutCounts
  <2>2. Active(n) # Songs!Free /\ Published(n) # Songs!Free
    BY SameDelivery
  <2> QED  BY <1>1, <2>1, <2>2
<1>3. \A n : Waits(n)' = Waits(n)
  BY DEF Waits, Songs!Message
<1>4. ASSUME NEW s \in Song PROVE FirstCopies(s)' <= FirstCopies(s) /\ AllCopies(s)' <= AllCopies(s)
  <2>1. /\ Waits(Songs!First(s))' = Waits(Songs!First(s)) /\ Waits(Retry(s))' = Waits(Retry(s))
        /\ HandlersWith(Active(Songs!First(s)))' = HandlersWith(Active(Songs!First(s)))
        /\ HandlersWith(Active(Retry(s)))' = HandlersWith(Active(Retry(s)))
        /\ HandlersWith(Published(Songs!First(s)))' <= HandlersWith(Published(Songs!First(s)))
    BY <1>2, <1>3
  <2>2. Cardinality(Songs!Outcomes(s))' = Cardinality(Songs!Outcomes(s))
    BY SameCauses
  <2>3. /\ Waits(Songs!First(s)) \in Nat /\ Waits(Retry(s)) \in Nat /\ Cardinality(Songs!Outcomes(s)) \in Nat
        /\ HandlersWith(Active(Songs!First(s))) \in Nat /\ HandlersWith(Active(Retry(s))) \in Nat
        /\ HandlersWith(Published(Songs!First(s))) \in Nat /\ HandlersWith(Published(Songs!First(s)))' \in Nat
    BY CopyNumbers, NextCopyNumbers
  <2>4. FirstCopies(s)' <= FirstCopies(s)
    BY <2>1, <2>3 DEF FirstCopies
  <2>5. AllCopies(s)' <= AllCopies(s)
    BY <2>1, <2>2, <2>3 DEF AllCopies
  <2> QED  BY <2>4, <2>5
<1> QED  BY <1>4 DEF NoMoreCopies

LEMMA CopiesDeliver ==
  ASSUME SongInv, SongInv', NEW w \in Server, Songs!Deliver(w)
  PROVE  NoMoreCopies
<1>1. PICK m \in Songs!Message, i \in Songs!Slot :
        /\ ready[m] > 0 /\ slot[w][i] = Songs!Free /\ ready' = [ready EXCEPT ![m] = @ - 1]
        /\ Songs!Put(w, i, Active(m))
  BY DEF Songs!Deliver, Active
<1>2. Active(m) \in Songs!Taken /\ Active(m) # slot[w][i]
  BY <1>1, SameDelivery DEF Songs!Taken, Active
<1>3. \A n : /\ HandlersWith(Active(n))' = HandlersWith(Active(n)) + (IF n = m THEN 1 ELSE 0)
             /\ HandlersWith(Published(n))' = HandlersWith(Published(n))
  <2> SUFFICES ASSUME NEW n
               PROVE  /\ HandlersWith(Active(n))' = HandlersWith(Active(n)) + (IF n = m THEN 1 ELSE 0)
                      /\ HandlersWith(Published(n))' = HandlersWith(Published(n))
    OBVIOUS
  <2>1. \A c : /\ HandlersWith(c) \in Nat
               /\ HandlersWith(c)' = HandlersWith(c) + (IF c = Active(m) THEN 1 ELSE 0) - (IF c = slot[w][i] THEN 1 ELSE 0)
    BY <1>1, <1>2, PutCounts
  <2>2. /\ Active(n) # slot[w][i] /\ Published(n) # slot[w][i] /\ Published(n) # Active(m)
        /\ Active(n) = Active(m) <=> n = m
    BY <1>1, SameDelivery
  <2> QED  BY <2>1, <2>2
<1>4. \A n : Waits(n)' = Waits(n) - (IF n = m THEN 1 ELSE 0)
  <2>1. ready[m] \in Nat /\ ready[m] - 1 \in Int /\ Waits(m) = ready[m]
    BY DEF Waits, SongInv, SongTypes
  <2>2. \A n : Waits(n)' = IF n = m THEN ready[m] - 1 ELSE Waits(n)
    BY <1>1, <2>1, WaitsMove
  <2>3. \A n : Waits(n) \in Nat
    BY WaitsIs DEF SongInv
  <2> QED  BY <2>1, <2>2, <2>3
<1>5. ASSUME NEW s \in Song PROVE FirstCopies(s)' <= FirstCopies(s) /\ AllCopies(s)' <= AllCopies(s)
  <2>1. /\ Waits(Songs!First(s))' = Waits(Songs!First(s)) - (IF Songs!First(s) = m THEN 1 ELSE 0)
        /\ Waits(Retry(s))' = Waits(Retry(s)) - (IF Retry(s) = m THEN 1 ELSE 0)
        /\ HandlersWith(Active(Songs!First(s)))'
             = HandlersWith(Active(Songs!First(s))) + (IF Songs!First(s) = m THEN 1 ELSE 0)
        /\ HandlersWith(Active(Retry(s)))' = HandlersWith(Active(Retry(s))) + (IF Retry(s) = m THEN 1 ELSE 0)
        /\ HandlersWith(Published(Songs!First(s)))' = HandlersWith(Published(Songs!First(s)))
    BY <1>3, <1>4
  <2>2. Cardinality(Songs!Outcomes(s))' = Cardinality(Songs!Outcomes(s))
    BY SameCauses DEF Songs!Deliver
  <2>3. /\ Waits(Songs!First(s)) \in Nat /\ Waits(Retry(s)) \in Nat /\ Cardinality(Songs!Outcomes(s)) \in Nat
        /\ HandlersWith(Active(Songs!First(s))) \in Nat /\ HandlersWith(Active(Retry(s))) \in Nat
        /\ HandlersWith(Published(Songs!First(s))) \in Nat
    BY CopyNumbers
  <2>4. FirstCopies(s)' <= FirstCopies(s)
    BY <2>1, <2>3 DEF FirstCopies
  <2>5. AllCopies(s)' <= AllCopies(s)
    BY <2>1, <2>2, <2>3 DEF AllCopies
  <2> QED  BY <2>4, <2>5
<1> QED  BY <1>5 DEF NoMoreCopies

LEMMA CopiesExpire ==
  ASSUME SongInv, SongInv', MaxAttempts <= 3, NEW m \in Songs!Message, Songs!Expire(m)
  PROVE  NoMoreCopies
<1>1. /\ m.attempt # 1 /\ ready[m] > 0 /\ ready' = [ready EXCEPT ![m] = @ - 1]
      /\ settled' = settled \cup {<<m.song, "expired">>} /\ slot' = slot
  BY DEF Songs!Expire, Songs!Settle, Songs!Message
<1>2. \A n : Waits(n)' = Waits(n) - (IF n = m THEN 1 ELSE 0)
  <2>1. ready[m] \in Nat /\ ready[m] - 1 \in Int /\ Waits(m) = ready[m]
    BY DEF Waits, SongInv, SongTypes
  <2>2. \A n : Waits(n)' = IF n = m THEN ready[m] - 1 ELSE Waits(n)
    BY <1>1, <2>1, WaitsMove
  <2>3. \A n : Waits(n) \in Nat
    BY WaitsIs DEF SongInv
  <2> QED  BY <2>1, <2>2, <2>3
<1>3. \A c : HandlersWith(c)' = HandlersWith(c)
  BY <1>1 DEF HandlersWith, At, Handlers, Songs!Slot
<1>4. m.song \in Song /\ m = Retry(m.song) /\ \A s : Songs!First(s) # m /\ (Retry(s) = m <=> s = m.song)
  <2>1. m.song \in Song /\ m = Retry(m.song)
    BY <1>1, MessagesAre
  <2>2. \A s : Songs!First(s).attempt = 1 /\ Retry(s).song = s
    BY DEF Songs!First, Retry
  <2> QED  BY <1>1, <2>1, <2>2
<1>5. ASSUME NEW s \in Song PROVE FirstCopies(s)' <= FirstCopies(s) /\ AllCopies(s)' <= AllCopies(s)
  <2>1. /\ Waits(Songs!First(s))' = Waits(Songs!First(s))
        /\ Waits(Retry(s))' = Waits(Retry(s)) - (IF s = m.song THEN 1 ELSE 0)
        /\ HandlersWith(Active(Songs!First(s)))' = HandlersWith(Active(Songs!First(s)))
        /\ HandlersWith(Active(Retry(s)))' = HandlersWith(Active(Retry(s)))
        /\ HandlersWith(Published(Songs!First(s)))' = HandlersWith(Published(Songs!First(s)))
    <3>1. Waits(Songs!First(s)) \in Nat
      BY CopyNumbers
    <3>2. Waits(Songs!First(s))' = Waits(Songs!First(s)) - 0 /\ Waits(Retry(s))' = Waits(Retry(s)) - (IF s = m.song THEN 1 ELSE 0)
      BY <1>2, <1>4
    <3> QED  BY <1>3, <3>1, <3>2 DEF Active, Published, Songs!First, Retry
  <2>2. Cardinality(Songs!Outcomes(s))' <= Cardinality(Songs!Outcomes(s)) + (IF s = m.song THEN 1 ELSE 0)
    BY <1>1, <1>4, CauseAdded
  <2>3. /\ Waits(Songs!First(s)) \in Nat /\ Waits(Retry(s)) \in Nat /\ Cardinality(Songs!Outcomes(s)) \in Nat
        /\ HandlersWith(Active(Songs!First(s))) \in Nat /\ HandlersWith(Active(Retry(s))) \in Nat
        /\ HandlersWith(Published(Songs!First(s))) \in Nat /\ Cardinality(Songs!Outcomes(s))' \in Nat
    BY CopyNumbers, NextCopyNumbers
  <2>4. FirstCopies(s)' <= FirstCopies(s)
    BY <2>1, <2>3 DEF FirstCopies
  <2>5. AllCopies(s)' <= AllCopies(s)
    BY <2>1, <2>2, <2>3 DEF AllCopies
  <2> QED  BY <2>4, <2>5
<1> QED  BY <1>5 DEF NoMoreCopies

\* Slots are given up, or stay as they are.
LEMMA FewerHandlers ==
  ASSUME SongInv,
         \A w \in Server, i \in Songs!Slot :
           slot'[w][i] = slot[w][i] \/ slot'[w][i].stage \notin {"active", "published"}
  PROVE  \A m : /\ HandlersWith(Active(m))' <= HandlersWith(Active(m))
                /\ HandlersWith(Published(m))' <= HandlersWith(Published(m))
<1>1. ASSUME NEW c, c.stage \in {"active", "published"}
      PROVE  HandlersWith(c)' <= HandlersWith(c)
  <2>1. PICK before, after : before = At(c) /\ after = At(c)'
    OBVIOUS
  <2>2. before = {h \in Handlers : slot[h[1]][h[2]] = c} /\ after = {h \in Handlers : slot'[h[1]][h[2]] = c}
    BY <2>1 DEF At, Handlers, Songs!Slot
  <2>3. \A h \in Handlers : h[1] \in Server /\ h[2] \in Songs!Slot
    BY DEF Handlers
  <2>4. after \in SUBSET before
    BY <1>1, <2>2, <2>3
  <2>5. IsFiniteSet(before)
    BY <2>1, AtFinite
  <2>6. Cardinality(after) <= Cardinality(before)
    BY <2>4, <2>5, FS_Subset
  <2> QED  BY <2>1, <2>6 DEF HandlersWith
<1>2. \A m : Active(m).stage = "active" /\ Published(m).stage = "published"
  BY DEF Active, Published
<1> SUFFICES ASSUME NEW m
             PROVE  /\ HandlersWith(Active(m))' <= HandlersWith(Active(m))
                    /\ HandlersWith(Published(m))' <= HandlersWith(Published(m))
  OBVIOUS
<1>3. HandlersWith(Active(m))' <= HandlersWith(Active(m))
  <2>1. PICK c : c = Active(m)
    OBVIOUS
  <2>2. HandlersWith(c)' <= HandlersWith(c)
    BY <1>1, <1>2, <2>1
  <2> QED  BY <2>1, <2>2 DEF HandlersWith, At, Active
<1>4. HandlersWith(Published(m))' <= HandlersWith(Published(m))
  <2>1. PICK c : c = Published(m)
    OBVIOUS
  <2>2. HandlersWith(c)' <= HandlersWith(c)
    BY <1>1, <1>2, <2>1
  <2> QED  BY <2>1, <2>2 DEF HandlersWith, At, Published
<1> QED  BY <1>3, <1>4

\* No retry is published again.
LEMMA NoRetryPublished ==
  ASSUME SongInv, RetriesAreFirst, MaxAttempts <= 3, NEW s
  PROVE  HandlersWith(Published(Retry(s))) = 0
<1>1. At(Published(Retry(s))) = {}
  <2> SUFFICES ASSUME NEW h \in Handlers, slot[h[1]][h[2]] = Published(Retry(s)) PROVE FALSE
    BY DEF At
  <2>1. h[1] \in Server /\ h[2] \in Songs!Slot
    BY DEF Handlers
  <2>2. Published(Retry(s)).stage = "published" /\ Published(Retry(s)).msg.attempt = 2
    BY DEF Published, Retry
  <2>3. 2 + 1 < MaxAttempts
    BY <2>1, <2>2 DEF RetriesAreFirst
  <2> QED  BY <2>3, InfraAssumption
<1> QED  BY <1>1, FS_EmptySet DEF HandlersWith

\* What the queue and the handlers have of m after processes ws lost their deliveries.
LEMMA LostCounts ==
  ASSUME SongInv, SongInv', NEW ws \in SUBSET Server,
         \A w \in Server, i \in Songs!Slot : w \notin ws => slot'[w][i] = slot[w][i],
         \A w \in ws, i \in Songs!Slot : slot'[w][i].stage \notin {"active", "published"},
         NEW m, NEW back \in Nat, back = (IF m \in Songs!Message THEN Songs!TakenBack(ws)[m] ELSE 0)
  PROVE  /\ HandlersWith(Active(m))' \in Nat /\ HandlersWith(Published(m))' \in Nat
         /\ HandlersWith(Active(m)) \in Nat /\ HandlersWith(Published(m)) \in Nat
         /\ back + HandlersWith(Active(m))' + HandlersWith(Published(m))'
              <= Waits(m) + HandlersWith(Active(m)) + HandlersWith(Published(m))
         /\ HandlersWith(Published(m))' <= HandlersWith(Published(m))
         /\ m \in Songs!Message /\ (\A w \in ws, i \in Songs!Slot : slot[w][i].stage # "published")
              => HandlersWith(Published(m))' = HandlersWith(Published(m))
<1>1. HandlersWith(Active(m)) \in Nat /\ HandlersWith(Published(m)) \in Nat /\ Waits(m) \in Nat
  BY AtFinite, WaitsIs DEF SongInv
<1>2. HandlersWith(Active(m))' \in Nat /\ HandlersWith(Published(m))' \in Nat
  BY NextHandlersFinite DEF Active, Published
<1>3. CASE m \in Songs!Message
  <2>1. /\ back + HandlersWith(Active(m))' + HandlersWith(Published(m))'
             = ready[m] + HandlersWith(Active(m)) + HandlersWith(Published(m))
        /\ HandlersWith(Published(m))' <= HandlersWith(Published(m))
        /\ (\A w \in ws, i \in Songs!Slot : slot[w][i].stage # "published")
             => HandlersWith(Published(m))' = HandlersWith(Published(m))
    BY <1>3, TakenBackIs
  <2>2. Waits(m) = ready[m]
    BY <1>3 DEF Waits
  <2> QED  BY <1>1, <1>2, <2>1, <2>2
<1>4. CASE m \notin Songs!Message
  <2>1. back = 0 /\ Waits(m) = 0
    BY <1>4 DEF Waits
  <2>2. \A w \in Server, i \in Songs!Slot :
          slot'[w][i] = slot[w][i] \/ slot'[w][i].stage \notin {"active", "published"}
    OBVIOUS
  <2>3. /\ HandlersWith(Active(m))' <= HandlersWith(Active(m))
        /\ HandlersWith(Published(m))' <= HandlersWith(Published(m))
    BY <2>2, FewerHandlers
  <2> QED  BY <1>1, <1>2, <1>4, <2>1, <2>3
<1> QED  BY <1>3, <1>4

\* What the broker takes back: all that a fault can add is a first message beside
\* its retry, and without one whose ack was to come it adds nothing.
LEMMA CopiesLost ==
  ASSUME SongInv, SongInv', RetriesAreFirst, MaxAttempts <= 3, NEW ws \in SUBSET Server,
         \A w \in Server, i \in Songs!Slot : w \notin ws => slot'[w][i] = slot[w][i],
         \A w \in ws, i \in Songs!Slot : slot'[w][i].stage \notin {"active", "published"},
         ready' = Songs!TakenBack(ws), settled' = settled
  PROVE  /\ FaultCopies
         /\ (\A w \in ws, i \in Songs!Slot : slot[w][i].stage # "published") => NoMoreCopies
<1>1. PICK M : M = Songs!Message
  OBVIOUS
<1>2. \A m : /\ Waits(m)' = IF m \in M THEN Songs!TakenBack(ws)[m] ELSE 0
             /\ Waits(m)' \in Nat
  <2>1. \A m : Waits(m)' = IF m \in M THEN ready'[m] ELSE 0
    BY <1>1 DEF Waits, Songs!Message
  <2>2. \A m \in M : Songs!TakenBack(ws)[m] \in Nat
    BY <1>1, BackInQueue DEF SongInv
  <2> QED  BY <2>1, <2>2
<1>3. ASSUME NEW s \in Song
      PROVE  /\ FirstCopies(s)' <= FirstCopies(s) /\ AllCopies(s)' <= AllCopies(s) + FirstCopies(s)
             /\ (\A w \in ws, i \in Songs!Slot : slot[w][i].stage # "published") => AllCopies(s)' <= AllCopies(s)
  <2>1. PICK f, r : f = Songs!First(s) /\ r = Retry(s)
    OBVIOUS
  <2>2. PICK bf, br : bf = Waits(f)' /\ br = Waits(r)'
    OBVIOUS
  <2>3. /\ bf \in Nat /\ bf = (IF f \in Songs!Message THEN Songs!TakenBack(ws)[f] ELSE 0)
        /\ br \in Nat /\ br = (IF r \in Songs!Message THEN Songs!TakenBack(ws)[r] ELSE 0)
    BY <1>1, <1>2, <2>2
  <2>4. /\ HandlersWith(Active(f))' \in Nat /\ HandlersWith(Published(f))' \in Nat
        /\ HandlersWith(Active(f)) \in Nat /\ HandlersWith(Published(f)) \in Nat
        /\ bf + HandlersWith(Active(f))' + HandlersWith(Published(f))'
             <= Waits(f) + HandlersWith(Active(f)) + HandlersWith(Published(f))
        /\ (\A w \in ws, i \in Songs!Slot : slot[w][i].stage # "published")
             => HandlersWith(Published(f))' = HandlersWith(Published(f))
    <3>1. f \in Songs!Message
      BY <2>1, InfraAssumption DEF Songs!First, Songs!Message
    <3> QED  BY <2>3, <3>1, LostCounts
  <2>5. /\ HandlersWith(Active(r))' \in Nat /\ HandlersWith(Published(r))' \in Nat
        /\ HandlersWith(Active(r)) \in Nat /\ HandlersWith(Published(r)) \in Nat
        /\ br + HandlersWith(Active(r))' + HandlersWith(Published(r))'
             <= Waits(r) + HandlersWith(Active(r)) + HandlersWith(Published(r))
    BY <2>3, LostCounts
  <2>6. HandlersWith(Published(r)) = 0
    BY <2>1, NoRetryPublished
  <2>7. Waits(f) \in Nat /\ Waits(r) \in Nat /\ Cardinality(Songs!Outcomes(s)) \in Nat
    BY WaitsIs, OutcomesFinite DEF SongInv
  <2>8. Cardinality(Songs!Outcomes(s))' = Cardinality(Songs!Outcomes(s))
    BY SameCauses
  <2>9. /\ FirstCopies(s) = Waits(f) + HandlersWith(Active(f)) + HandlersWith(Published(f))
        /\ AllCopies(s) = Waits(f) + HandlersWith(Active(f)) + Waits(r) + HandlersWith(Active(r))
                            + Cardinality(Songs!Outcomes(s))
    BY <2>1 DEF FirstCopies, AllCopies
  <2>10. /\ FirstCopies(s)' = bf + HandlersWith(Active(f))' + HandlersWith(Published(f))'
         /\ AllCopies(s)' = bf + HandlersWith(Active(f))' + br + HandlersWith(Active(r))'
                              + Cardinality(Songs!Outcomes(s))'
    BY <2>1, <2>2 DEF FirstCopies, AllCopies, Songs!First, Retry
  <2>11. FirstCopies(s)' <= FirstCopies(s)
    BY <2>4, <2>9, <2>10
  <2>12. AllCopies(s)' <= AllCopies(s) + FirstCopies(s)
    BY <2>3, <2>4, <2>5, <2>6, <2>7, <2>8, <2>9, <2>10
  <2>13. (\A w \in ws, i \in Songs!Slot : slot[w][i].stage # "published") => AllCopies(s)' <= AllCopies(s)
    <3> SUFFICES ASSUME \A w \in ws, i \in Songs!Slot : slot[w][i].stage # "published"
                 PROVE  AllCopies(s)' <= AllCopies(s)
      OBVIOUS
    <3>1. HandlersWith(Published(f))' = HandlersWith(Published(f))
      BY <2>4
    <3> QED  BY <2>3, <2>4, <2>5, <2>6, <2>7, <2>8, <2>9, <2>10, <3>1
  <2> QED  BY <2>11, <2>12, <2>13
<1> QED  BY <1>3 DEF FaultCopies, NoMoreCopies

\* A process that loses its channel holds no delivery.
LEMMA NoneLive ==
  ASSUME SongInv, NEW w \in Server, NEW i \in Songs!Slot
  PROVE  Songs!Orphaned(w)[i].stage \notin {"active", "published"}
<1>1. Songs!Orphaned(w)[i] = IF slot[w][i].stage = "active" THEN [slot[w][i] EXCEPT !.stage = "orphan"]
                             ELSE IF slot[w][i].stage = "orphan" THEN slot[w][i] ELSE Songs!Free
  BY DEF Songs!Orphaned
<1>2. slot[w][i].stage = "active" => slot[w][i] \in Songs!Taken
  BY SlotRow
<1>3. CASE slot[w][i].stage = "active"
  BY <1>1, <1>2, <1>3 DEF Songs!Taken
<1>4. CASE slot[w][i].stage # "active"
  BY <1>1, <1>4 DEF Songs!Free
<1> QED  BY <1>3, <1>4

\* A broker that restarts forgets first messages, for a cause each.
LEMMA CopiesBrokerRestart ==
  ASSUME SongInv, SongInv', RetriesAreFirst, MaxAttempts <= 3, Songs!BrokerRestart
  PROVE  FaultCopies
<1>1. PICK M, all : M = Songs!Message /\ all = Songs!TakenBack(Server)
  OBVIOUS
<1>2. /\ ready' = [m \in M |-> IF m.attempt = 1 THEN 0 ELSE all[m]]
      /\ settled' = settled \cup {<<m.song, "transient">> : m \in {n \in M : n.attempt = 1 /\ all[n] > 0}}
      /\ slot' = [w \in Server |-> Songs!Orphaned(w)]
  BY <1>1 DEF Songs!BrokerRestart
<1>3. \A w \in Server, i \in Songs!Slot : slot'[w][i].stage \notin {"active", "published"}
  BY <1>2, NoneLive
<1>4. \A m : /\ Waits(m)' = (IF m \in M THEN ready'[m] ELSE 0)
             /\ m \in M => all[m] \in Nat
  <2>1. \A m : Waits(m)' = IF m \in M THEN ready'[m] ELSE 0
    BY <1>1 DEF Waits, Songs!Message
  <2>2. Server \in SUBSET Server
    OBVIOUS
  <2>3. \A m \in M : all[m] \in Nat
    BY <1>1, <2>2, BackInQueue DEF SongInv
  <2> QED  BY <2>1, <2>3
<1>5. ASSUME NEW s \in Song
      PROVE  FirstCopies(s)' <= FirstCopies(s) /\ AllCopies(s)' <= AllCopies(s) + FirstCopies(s)
  <2>1. PICK f, r : f = Songs!First(s) /\ r = Retry(s)
    OBVIOUS
  <2>2. PICK bf, br : bf = (IF f \in M THEN all[f] ELSE 0) /\ br = (IF r \in M THEN all[r] ELSE 0)
    OBVIOUS
  <2>3. bf \in Nat /\ br \in Nat
    BY <1>4, <2>2
  <2>4. Waits(f)' = 0 /\ Waits(r)' = br
    <3>1. f.attempt = 1 /\ r.attempt = 2
      BY <2>1 DEF Songs!First, Retry
    <3> QED  BY <1>2, <1>4, <2>2, <3>1
  <2>5. /\ bf = (IF f \in Songs!Message THEN Songs!TakenBack(Server)[f] ELSE 0)
        /\ br = (IF r \in Songs!Message THEN Songs!TakenBack(Server)[r] ELSE 0)
        /\ Server \in SUBSET Server
        /\ \A w \in Server, i \in Songs!Slot : w \notin Server => slot'[w][i] = slot[w][i]
    BY <1>1, <2>2
  <2>6. /\ HandlersWith(Active(f))' \in Nat /\ HandlersWith(Published(f))' \in Nat
        /\ HandlersWith(Active(f)) \in Nat /\ HandlersWith(Published(f)) \in Nat
        /\ bf + HandlersWith(Active(f))' + HandlersWith(Published(f))'
             <= Waits(f) + HandlersWith(Active(f)) + HandlersWith(Published(f))
    BY <1>3, <2>3, <2>5, LostCounts
  <2>7. /\ HandlersWith(Active(r))' \in Nat /\ HandlersWith(Published(r))' \in Nat
        /\ HandlersWith(Active(r)) \in Nat /\ HandlersWith(Published(r)) \in Nat
        /\ br + HandlersWith(Active(r))' + HandlersWith(Published(r))'
             <= Waits(r) + HandlersWith(Active(r)) + HandlersWith(Published(r))
    BY <1>3, <2>3, <2>5, LostCounts
  <2>8. HandlersWith(Published(r)) = 0
    BY <2>1, NoRetryPublished
  <2>9. Waits(f) \in Nat /\ Waits(r) \in Nat /\ Cardinality(Songs!Outcomes(s)) \in Nat
    BY WaitsIs, OutcomesFinite DEF SongInv
  <2>10. /\ Cardinality(Songs!Outcomes(s))' \in Nat
         /\ Cardinality(Songs!Outcomes(s))' <= Cardinality(Songs!Outcomes(s)) + bf
    <3>1. PICK before, after : before = Songs!Outcomes(s) /\ after = Songs!Outcomes(s)'
      OBVIOUS
    <3>2. before = {x \in Songs!Outcome : <<s, x>> \in settled}
      BY <3>1 DEF Songs!Outcomes
    <3>3. after = {x \in Songs!Outcome : <<s, x>> \in settled'}
      BY <3>1 DEF Songs!Outcomes, Songs!Outcome
    <3>4. ASSUME NEW m \in M, m.attempt = 1, m.song = s PROVE m = f
      BY <1>1, <2>1, <3>4 DEF Songs!Message, Songs!First
    <3>5. after \subseteq before \cup {"transient"} /\ (bf = 0 => after = before)
      <4>1. \A x : <<s, x>> \in settled' <=>
              <<s, x>> \in settled \/ (x = "transient" /\ \E m \in M : m.attempt = 1 /\ all[m] > 0 /\ m.song = s)
        BY <1>2
      <4>2. (\E m \in M : m.attempt = 1 /\ all[m] > 0 /\ m.song = s) => bf > 0
        BY <2>2, <3>4
      <4> QED  BY <2>3, <3>2, <3>3, <4>1, <4>2
    <3>6. IsFiniteSet(before) /\ Cardinality(before) \in Nat
      BY <3>1, OutcomesFinite
    <3>7. IsFiniteSet(before \cup {"transient"}) /\ Cardinality(before \cup {"transient"}) \in Nat
      BY <3>6, FS_AddElement, FS_CardinalityType
    <3>8. Cardinality(before \cup {"transient"}) <= Cardinality(before) + 1
      <4>1. Cardinality(before \cup {"transient"}) =
              IF "transient" \in before THEN Cardinality(before) ELSE Cardinality(before) + 1
        BY <3>6, FS_AddElement
      <4> QED  BY <3>6, <4>1
    <3>9. Cardinality(after) \in Nat /\ Cardinality(after) <= Cardinality(before \cup {"transient"})
      BY <3>5, <3>7, FS_Subset, FS_CardinalityType
    <3>10. Cardinality(after) <= Cardinality(before) + bf
      <4>1. CASE bf = 0
        BY <3>5, <3>6, <4>1
      <4>2. CASE bf # 0
        BY <2>3, <3>6, <3>7, <3>8, <3>9, <4>2
      <4> QED  BY <4>1, <4>2
    <3> QED  BY <3>1, <3>9, <3>10
  <2>11. /\ FirstCopies(s) = Waits(f) + HandlersWith(Active(f)) + HandlersWith(Published(f))
         /\ AllCopies(s) = Waits(f) + HandlersWith(Active(f)) + Waits(r) + HandlersWith(Active(r))
                             + Cardinality(Songs!Outcomes(s))
    BY <2>1 DEF FirstCopies, AllCopies
  <2>12. /\ FirstCopies(s)' = Waits(f)' + HandlersWith(Active(f))' + HandlersWith(Published(f))'
         /\ AllCopies(s)' = Waits(f)' + HandlersWith(Active(f))' + Waits(r)' + HandlersWith(Active(r))'
                              + Cardinality(Songs!Outcomes(s))'
    BY <2>1 DEF FirstCopies, AllCopies, Songs!First, Retry
  <2>13. FirstCopies(s)' <= FirstCopies(s)
    <3>1. FirstCopies(s)' = HandlersWith(Active(f))' + HandlersWith(Published(f))'
      BY <2>4, <2>6, <2>12
    <3> QED  BY <2>3, <2>6, <2>9, <2>11, <3>1
  <2>14. AllCopies(s)' <= AllCopies(s) + FirstCopies(s)
    BY <2>3, <2>4, <2>6, <2>7, <2>8, <2>9, <2>10, <2>11, <2>12
  <2> QED  BY <2>13, <2>14
<1> QED  BY <1>5 DEF FaultCopies

LEMMA RetriesStep ==
  ASSUME SongInv, RetriesAreFirst, Songs!Next
  PROVE  RetriesAreFirst'
<1>1. ASSUME slot' = slot PROVE RetriesAreFirst'
  BY <1>1 DEF RetriesAreFirst, Songs!Slot
<1>2. ASSUME NEW w \in Server, NEW i \in Songs!Slot, NEW d, Songs!Put(w, i, d),
             d.stage = "published" => d.msg.attempt + 1 < MaxAttempts
      PROVE  RetriesAreFirst'
  <2>1. \A v \in Server, k \in Songs!Slot : slot'[v][k] = slot[v][k] \/ slot'[v][k] = d
    BY <1>2 DEF Songs!Put, SongInv, SongTypes
  <2> QED  BY <1>2, <2>1 DEF RetriesAreFirst, Songs!Slot
<1>3. ASSUME NEW w \in Server, NEW f, slot' = [slot EXCEPT ![w] = f],
             \A i \in Songs!Slot : f[i].stage \notin {"active", "published"}
      PROVE  RetriesAreFirst'
  <2>1. \A v \in Server, k \in Songs!Slot : slot'[v][k] = slot[v][k] \/ slot'[v][k].stage # "published"
    BY <1>3 DEF SongInv, SongTypes
  <2> QED  BY <2>1 DEF RetriesAreFirst, Songs!Slot
<1>4. CASE Songs!BrokerRestart
  <2>1. slot' = [w \in Server |-> Songs!Orphaned(w)]
    BY <1>4 DEF Songs!BrokerRestart
  <2>2. \A v \in Server, k \in Songs!Slot : slot'[v][k].stage # "published"
    BY <2>1, NoneLive
  <2> QED  BY <2>2 DEF RetriesAreFirst, Songs!Slot
<1>5. ASSUME NEW w \in Server, Songs!Requeue(w) \/ Songs!LoseConnection(w) \/ Songs!Crash(w) \/ Songs!Exit(w)
      PROVE  RetriesAreFirst'
  <2>1. \/ slot' = [slot EXCEPT ![w] = Songs!Orphaned(w)]
        \/ slot' = [slot EXCEPT ![w] = [i \in Songs!Slot |-> Songs!Free]]
    BY <1>5 DEF Songs!Requeue, Songs!LoseConnection, Songs!Crash, Songs!Exit
  <2>2. /\ \A i \in Songs!Slot : Songs!Orphaned(w)[i].stage \notin {"active", "published"}
        /\ \A i \in Songs!Slot : [k \in Songs!Slot |-> Songs!Free][i].stage \notin {"active", "published"}
    BY NoneLive DEF Songs!Free
  <2> QED  BY <1>3, <2>1, <2>2
<1>6. ASSUME NEW w \in Server, Songs!Deliver(w) PROVE RetriesAreFirst'
  <2>1. PICK m \in Songs!Message, i \in Songs!Slot : Songs!Put(w, i, [stage |-> "active", msg |-> m])
    BY <1>6 DEF Songs!Deliver
  <2> QED  BY <1>2, <2>1
<1>7. ASSUME NEW w \in Server, NEW i \in Songs!Slot, Songs!HandlerStep(w, i) PROVE RetriesAreFirst'
  <2> DEFINE m == slot[w][i].msg
  <2>1. CASE Songs!Put(w, i, Songs!Free)
    BY <1>2, <2>1 DEF Songs!Free
  <2>2. CASE Songs!HandlerRejects(w, i) /\ ~(m.attempt + 1 >= MaxAttempts)
    <3> DEFINE d == [slot[w][i] EXCEPT !.stage = "published"]
    <3>1. slot[w][i].stage = "active" /\ Songs!Put(w, i, d)
      BY <2>2 DEF Songs!HandlerRejects
    <3>2. m.attempt \in Nat /\ slot[w][i] \in Songs!Taken
      BY <3>1, SlotRow
    <3>3. d.msg.attempt + 1 < MaxAttempts
      BY <2>2, <3>2, InfraAssumption DEF Songs!Taken
    <3> HIDE DEF d
    <3> QED  BY <1>2, <3>1, <3>3
  <2> QED
    BY <1>7, <2>1, <2>2 DEF Songs!HandlerStep, Songs!HandlerResolves, Songs!HandlerRejects, Songs!AckRetry,
                            Songs!OrphanEnds
<1>8. (\E s \in Song : Songs!Upload(s)) \/ (\E m \in Songs!Message : Songs!Expire(m))
        \/ (\E w \in Server : Songs!Shutdown(w) \/ Songs!CancelOk(w) \/ Songs!Start(w)) => slot' = slot
  BY DEF Songs!Upload, Songs!Expire, Songs!Shutdown, Songs!CancelOk, Songs!Start
<1> QED  BY <1>1, <1>4, <1>5, <1>6, <1>7, <1>8 DEF Songs!Next, Songs!DrainStep

\* A handler ends, or its retry is acked.
LEMMA CopiesHandlerStep ==
  ASSUME SongInv, SongInv', RetriesAreFirst, MaxAttempts <= 3, NEW w \in Server, NEW i \in Songs!Slot,
         Songs!HandlerStep(w, i)
  PROVE  NoMoreCopies /\ saved' = saved /\ faults' = faults
<1> DEFINE m == slot[w][i].msg
<1>1. saved' = saved /\ faults' = faults
  BY DEF Songs!HandlerStep, Songs!HandlerResolves, Songs!HandlerRejects, Songs!AckRetry, Songs!OrphanEnds
<1>2. CASE Songs!HandlerResolves(w, i) \/ (Songs!HandlerRejects(w, i) /\ m.attempt + 1 >= MaxAttempts)
  <2>1. PICK o \in {"acked", "exhausted"} : settled' = settled \cup {<<m.song, o>>}
    BY <1>2 DEF Songs!HandlerResolves, Songs!HandlerRejects, Songs!Settle
  <2>2. slot[w][i].stage = "active" /\ Songs!Put(w, i, Songs!Free) /\ ready' = ready
    BY <1>2 DEF Songs!HandlerResolves, Songs!HandlerRejects
  <2>3. NoMoreCopies
    BY <2>1, <2>2, CopiesSettle
  <2> QED  BY <1>1, <2>3
<1>3. CASE Songs!HandlerRejects(w, i) /\ ~(m.attempt + 1 >= MaxAttempts)
  <2>1. /\ slot[w][i].stage = "active" /\ settled' = settled
        /\ ready' = [ready EXCEPT ![[m EXCEPT !.attempt = @ + 1]] = @ + 1]
        /\ Songs!Put(w, i, [slot[w][i] EXCEPT !.stage = "published"])
    BY <1>3 DEF Songs!HandlerRejects, Songs!Enqueue
  <2>2. m \in Songs!Message /\ slot[w][i] \in Songs!Taken /\ m.attempt \in Nat
    BY <2>1, SlotRow
  <2>3. PICK r \in Song : r = m.song
    BY <2>2, MessagesAre
  <2>4. m.attempt = 1 /\ m = Songs!First(r) /\ MaxAttempts = 3
    <3>1. m.attempt + 1 < MaxAttempts
      BY <1>3, <2>2, InfraAssumption
    <3>2. m.attempt = 1
      BY <2>2, <3>1, MessagesAre
    <3> QED  BY <2>2, <2>3, <3>1, <3>2, MessagesAre, InfraAssumption
  <2>5. [m EXCEPT !.attempt = @ + 1] = Retry(r)
    BY <2>2, <2>3, <2>4 DEF Songs!First, Retry
  <2>6. slot[w][i] = Active(Songs!First(r)) /\ [slot[w][i] EXCEPT !.stage = "published"] = Published(Songs!First(r))
    <3>1. slot[w][i] = [stage |-> "active", msg |-> m]
      BY <2>1, <2>2 DEF Songs!Taken
    <3> QED  BY <2>4, <3>1 DEF Active, Published
  <2>7. Songs!First(r) \in Songs!Message /\ Retry(r) \in Songs!Message
    BY <2>2, <2>3, <2>4 DEF Retry, Songs!Message
  <2>8. /\ Songs!Put(w, i, Published(Songs!First(r)))
        /\ ready' = [ready EXCEPT ![Retry(r)] = @ + 1]
    BY <2>1, <2>5, <2>6
  <2>9. NoMoreCopies
    BY <2>1, <2>6, <2>7, <2>8, CopiesPublish
  <2> QED  BY <1>1, <2>9
<1>4. CASE Songs!AckRetry(w, i) \/ Songs!OrphanEnds(w, i)
  <2>1. slot[w][i].stage \in {"published", "orphan"} /\ Songs!Put(w, i, Songs!Free) /\ UNCHANGED <<ready, settled>>
    BY <1>4 DEF Songs!AckRetry, Songs!OrphanEnds
  <2> QED  BY <1>1, <2>1, CopiesFreed
<1> QED  BY <1>2, <1>3, <1>4 DEF Songs!HandlerStep

\* Processes lose their deliveries, or give them up.
LEMMA CopiesFaultStep ==
  ASSUME SongInv, SongInv', RetriesAreFirst, MaxAttempts <= 3, NEW w \in Server,
         Songs!Requeue(w) \/ Songs!LoseConnection(w) \/ Songs!Crash(w)
  PROVE  saved' = saved /\ ((NoMoreCopies /\ faults' = faults) \/ (FaultCopies /\ faults' = faults + 1))
<1>1. /\ ready' = Songs!TakenBack({w}) /\ saved' = saved /\ settled' = settled
      /\ \/ slot' = [slot EXCEPT ![w] = Songs!Orphaned(w)]
         \/ slot' = [slot EXCEPT ![w] = [i \in Songs!Slot |-> Songs!Free]]
  BY DEF Songs!Requeue, Songs!LoseConnection, Songs!Crash
<1>2. /\ \A v \in Server, i \in Songs!Slot : v \notin {w} => slot'[v][i] = slot[v][i]
      /\ \A v \in {w}, i \in Songs!Slot : slot'[v][i].stage \notin {"active", "published"}
  <2>1. \A i \in Songs!Slot : /\ Songs!Orphaned(w)[i].stage \notin {"active", "published"}
                              /\ [k \in Songs!Slot |-> Songs!Free][i].stage \notin {"active", "published"}
    BY NoneLive DEF Songs!Free
  <2> QED  BY <1>1, <2>1 DEF SongInv, SongTypes
<1>3. /\ FaultCopies
      /\ (\A v \in {w}, i \in Songs!Slot : slot[v][i].stage # "published") => NoMoreCopies
  <2>1. {w} \in SUBSET Server
    OBVIOUS
  <2> QED  BY <1>1, <1>2, <2>1, CopiesLost
<1>4. CASE Songs!Requeue(w)
  BY <1>1, <1>3, <1>4 DEF Songs!Requeue
<1>5. CASE Songs!LoseConnection(w) \/ Songs!Crash(w)
  BY <1>1, <1>3, <1>5 DEF Songs!LoseConnection, Songs!Crash, Songs!Fault
<1> QED  BY <1>4, <1>5

\* The drained process exits with no delivery; the others only change what they do.
LEMMA CopiesQuiet ==
  ASSUME SongInv, SongInv', NEW w \in Server,
         Songs!Exit(w) \/ Songs!Shutdown(w) \/ Songs!CancelOk(w) \/ Songs!Start(w)
  PROVE  NoMoreCopies /\ saved' = saved /\ (faults' = faults \/ faults' = faults + 1)
<1>1. /\ ready' = ready /\ settled' = settled /\ saved' = saved /\ (faults' = faults \/ faults' = faults + 1)
      /\ slot' = slot \/ slot' = [slot EXCEPT ![w] = [i \in Songs!Slot |-> Songs!Free]]
  BY DEF Songs!Exit, Songs!Shutdown, Songs!CancelOk, Songs!Start, Songs!Fault
<1>2. \A v \in Server, i \in Songs!Slot :
        slot'[v][i] = slot[v][i] \/ slot'[v][i].stage \notin {"active", "published"}
  BY <1>1 DEF SongInv, SongTypes, Songs!Free
<1>3. \A m : /\ HandlersWith(Active(m))' <= HandlersWith(Active(m))
             /\ HandlersWith(Published(m))' <= HandlersWith(Published(m))
  BY <1>2, FewerHandlers
<1>4. \A n : Waits(n)' = Waits(n)
  BY <1>1 DEF Waits, Songs!Message
<1>5. ASSUME NEW s \in Song PROVE FirstCopies(s)' <= FirstCopies(s) /\ AllCopies(s)' <= AllCopies(s)
  <2>1. /\ Waits(Songs!First(s))' = Waits(Songs!First(s)) /\ Waits(Retry(s))' = Waits(Retry(s))
        /\ HandlersWith(Active(Songs!First(s)))' <= HandlersWith(Active(Songs!First(s)))
        /\ HandlersWith(Active(Retry(s)))' <= HandlersWith(Active(Retry(s)))
        /\ HandlersWith(Published(Songs!First(s)))' <= HandlersWith(Published(Songs!First(s)))
    BY <1>3, <1>4
  <2>2. Cardinality(Songs!Outcomes(s))' = Cardinality(Songs!Outcomes(s))
    BY <1>1, SameCauses
  <2>3. /\ Waits(Songs!First(s)) \in Nat /\ Waits(Retry(s)) \in Nat /\ Cardinality(Songs!Outcomes(s)) \in Nat
        /\ HandlersWith(Active(Songs!First(s))) \in Nat /\ HandlersWith(Active(Retry(s))) \in Nat
        /\ HandlersWith(Published(Songs!First(s))) \in Nat
    BY CopyNumbers
  <2>4. /\ HandlersWith(Active(Songs!First(s)))' \in Nat /\ HandlersWith(Active(Retry(s)))' \in Nat
        /\ HandlersWith(Published(Songs!First(s)))' \in Nat
    BY NextCopyNumbers
  <2>5. FirstCopies(s)' <= FirstCopies(s)
    BY <2>1, <2>3, <2>4 DEF FirstCopies
  <2>6. AllCopies(s)' <= AllCopies(s)
    BY <2>1, <2>2, <2>3, <2>4 DEF AllCopies
  <2> QED  BY <2>5, <2>6
<1> QED  BY <1>1, <1>5 DEF NoMoreCopies

\* A new upload brings its first message, or the cause it was never sent.
LEMMA CopiesUpload ==
  ASSUME SongInv, SongInv', CopiesBounded, RetriesAreFirst', NEW r \in Song, Songs!Upload(r)
  PROVE  CopiesBounded'
<1>1. /\ r \notin saved /\ saved' = saved \cup {r} /\ slot' = slot
      /\ \/ ready' = [ready EXCEPT ![Songs!First(r)] = @ + 1] /\ settled' = settled /\ faults' = faults
         \/ ready' = ready /\ settled' = settled \cup {<<r, "unsent">>} /\ faults' = faults + 1
  BY DEF Songs!Upload, Songs!Enqueue, Songs!Settle, Songs!Fault
<1>2. faults \in Nat /\ faults' \in Nat /\ faults' >= faults
  BY <1>1 DEF CopiesBounded
<1>3. \A c : HandlersWith(c)' = HandlersWith(c)
  BY <1>1 DEF HandlersWith, At, Handlers, Songs!Slot
<1>4. PICK n, k \in {0, 1} :
        /\ n + k = 1
        /\ \A m : Waits(m)' = Waits(m) + (IF m = Songs!First(r) THEN n ELSE 0)
        /\ \A s : Cardinality(Songs!Outcomes(s))' <= Cardinality(Songs!Outcomes(s)) + (IF s = r THEN k ELSE 0)
  <2>0. (\A m : Waits(m) \in Nat) /\ \A s : Cardinality(Songs!Outcomes(s)) \in Nat
    BY WaitsIs, OutcomesFinite DEF SongInv
  <2>1. CASE ready' = [ready EXCEPT ![Songs!First(r)] = @ + 1] /\ settled' = settled
    <3>0. Songs!First(r) \in Songs!Message
      BY InfraAssumption DEF Songs!First, Songs!Message
    <3>1. PICK f \in Songs!Message : f = Songs!First(r)
      BY <3>0
    <3>2. ready[f] \in Nat /\ Waits(f) = ready[f] /\ ready[f] + 1 \in Int
      BY DEF SongInv, SongTypes, Waits
    <3>3. ready' = [ready EXCEPT ![f] = ready[f] + 1]
      BY <2>1, <3>1
    <3>4. \A m : Waits(m)' = IF m = f THEN ready[f] + 1 ELSE Waits(m)
      BY <3>2, <3>3, WaitsMove
    <3>5. \A m : Waits(m)' = Waits(m) + (IF m = Songs!First(r) THEN 1 ELSE 0)
      BY <2>0, <3>1, <3>2, <3>4
    <3>6. \A s : Cardinality(Songs!Outcomes(s))' = Cardinality(Songs!Outcomes(s))
      BY <2>1, SameCauses
    <3>7. \A s : Cardinality(Songs!Outcomes(s))' <= Cardinality(Songs!Outcomes(s)) + (IF s = r THEN 0 ELSE 0)
      BY <2>0, <3>6
    <3>8. 1 \in {0, 1} /\ 0 \in {0, 1} /\ 1 + 0 = 1
      OBVIOUS
    <3> QED  BY <3>5, <3>7, <3>8
  <2>2. CASE ready' = ready /\ settled' = settled \cup {<<r, "unsent">>}
    <3>1. \A m : Waits(m)' = Waits(m)
      BY <2>2 DEF Waits, Songs!Message
    <3>2. \A m : Waits(m)' = Waits(m) + (IF m = Songs!First(r) THEN 0 ELSE 0)
      BY <2>0, <3>1
    <3>3. \A s : Cardinality(Songs!Outcomes(s))' <= Cardinality(Songs!Outcomes(s)) + (IF s = r THEN 1 ELSE 0)
      BY <2>2, CauseAdded
    <3>4. 1 \in {0, 1} /\ 0 \in {0, 1} /\ 0 + 1 = 1
      OBVIOUS
    <3> QED  BY <3>2, <3>3, <3>4
  <2> QED  BY <1>1, <2>1, <2>2
<1>5. ASSUME NEW s \in Song
      PROVE  /\ FirstCopies(s)' <= (IF s \in saved' THEN 1 ELSE 0)
             /\ AllCopies(s)' <= (IF s \in saved' THEN 1 + faults' ELSE 0)
  <2>1. /\ Songs!First(s) = Songs!First(r) <=> s = r
        /\ Retry(s) # Songs!First(r)
    <3>1. Songs!First(s).song = s /\ Songs!First(r).song = r /\ Songs!First(r).attempt = 1 /\ Retry(s).attempt = 2
      BY DEF Songs!First, Retry
    <3> QED  BY <3>1
  <2>2. /\ Waits(Songs!First(s)) \in Nat /\ Waits(Retry(s)) \in Nat /\ Cardinality(Songs!Outcomes(s)) \in Nat
        /\ HandlersWith(Active(Songs!First(s))) \in Nat /\ HandlersWith(Active(Retry(s))) \in Nat
        /\ HandlersWith(Published(Songs!First(s))) \in Nat
        /\ FirstCopies(s) \in Nat /\ AllCopies(s) \in Nat
    BY CopyNumbers
  <2>3. Cardinality(Songs!Outcomes(s))' \in Nat
    BY NextCopyNumbers
  <2>4. /\ Waits(Songs!First(s))' = Waits(Songs!First(s)) + (IF s = r THEN n ELSE 0)
        /\ Waits(Retry(s))' = Waits(Retry(s))
        /\ HandlersWith(Active(Songs!First(s)))' = HandlersWith(Active(Songs!First(s)))
        /\ HandlersWith(Active(Retry(s)))' = HandlersWith(Active(Retry(s)))
        /\ HandlersWith(Published(Songs!First(s)))' = HandlersWith(Published(Songs!First(s)))
        /\ Cardinality(Songs!Outcomes(s))' <= Cardinality(Songs!Outcomes(s)) + (IF s = r THEN k ELSE 0)
    <3>1. /\ Waits(Songs!First(s))' = Waits(Songs!First(s)) + (IF Songs!First(s) = Songs!First(r) THEN n ELSE 0)
          /\ Waits(Retry(s))' = Waits(Retry(s)) + 0
      BY <1>4, <2>1
    <3>2. /\ HandlersWith(Active(Songs!First(s)))' = HandlersWith(Active(Songs!First(s)))
          /\ HandlersWith(Active(Retry(s)))' = HandlersWith(Active(Retry(s)))
          /\ HandlersWith(Published(Songs!First(s)))' = HandlersWith(Published(Songs!First(s)))
      BY <1>3 DEF Active, Published, Songs!First, Retry
    <3> QED  BY <1>4, <2>1, <2>2, <3>1, <3>2
  <2>5. /\ FirstCopies(s)' <= FirstCopies(s) + (IF s = r THEN n ELSE 0)
        /\ AllCopies(s)' <= AllCopies(s) + (IF s = r THEN n + k ELSE 0)
    <3>1. n \in Nat /\ k \in Nat
      OBVIOUS
    <3>2. FirstCopies(s)' <= FirstCopies(s) + (IF s = r THEN n ELSE 0)
      BY <2>2, <2>4, <3>1 DEF FirstCopies
    <3>3. AllCopies(s)' <= AllCopies(s) + (IF s = r THEN n + k ELSE 0)
      BY <2>2, <2>3, <2>4, <3>1 DEF AllCopies
    <3> QED  BY <3>2, <3>3
  <2>6. /\ FirstCopies(s) <= (IF s \in saved THEN 1 ELSE 0)
        /\ AllCopies(s) <= (IF s \in saved THEN 1 + faults ELSE 0)
    BY DEF CopiesBounded
  <2>7. FirstCopies(s)' \in Nat /\ AllCopies(s)' \in Nat
    BY NextCopyNumbers
  <2>8. CASE s = r
    BY <1>1, <1>2, <1>4, <2>2, <2>5, <2>6, <2>7, <2>8
  <2>9. CASE s # r
    BY <1>1, <1>2, <2>2, <2>5, <2>6, <2>7, <2>9
  <2> QED  BY <2>8, <2>9
<1> QED  BY <1>2, <1>5 DEF CopiesBounded

LEMMA CopiesStep ==
  ASSUME SongInv, SongInv', CopiesBounded, MaxAttempts <= 3, Songs!Next
  PROVE  CopiesBounded'
<1>1. RetriesAreFirst /\ RetriesAreFirst'
  BY RetriesStep DEF CopiesBounded
<1>2. CASE \E s \in Song : Songs!Upload(s)
  BY <1>1, <1>2, CopiesUpload
<1>3. ASSUME NEW w \in Server, Songs!Deliver(w) PROVE CopiesBounded'
  <2>1. saved' = saved /\ faults' = faults /\ NoMoreCopies
    BY <1>3, CopiesDeliver DEF Songs!Deliver
  <2> QED  BY <1>1, <2>1, BoundedStep
<1>4. ASSUME NEW w \in Server, Songs!Exit(w) \/ Songs!Shutdown(w) \/ Songs!CancelOk(w) \/ Songs!Start(w)
      PROVE  CopiesBounded'
  <2>1. NoMoreCopies /\ saved' = saved /\ (faults' = faults \/ faults' = faults + 1)
    BY <1>4, CopiesQuiet
  <2> QED  BY <1>1, <2>1, BoundedStep
<1>5. ASSUME NEW w \in Server, Songs!Requeue(w) \/ Songs!LoseConnection(w) \/ Songs!Crash(w)
      PROVE  CopiesBounded'
  <2>1. saved' = saved /\ ((NoMoreCopies /\ faults' = faults) \/ (FaultCopies /\ faults' = faults + 1))
    BY <1>1, <1>5, CopiesFaultStep
  <2> QED  BY <1>1, <2>1, BoundedStep
<1>6. ASSUME NEW w \in Server, NEW i \in Songs!Slot, Songs!HandlerStep(w, i)
      PROVE  CopiesBounded'
  <2>1. NoMoreCopies /\ saved' = saved /\ faults' = faults
    BY <1>1, <1>6, CopiesHandlerStep
  <2> QED  BY <1>1, <2>1, BoundedStep
<1>7. ASSUME NEW m \in Songs!Message, Songs!Expire(m) PROVE CopiesBounded'
  <2>1. NoMoreCopies /\ saved' = saved /\ faults' = faults
    BY <1>7, CopiesExpire DEF Songs!Expire
  <2> QED  BY <1>1, <2>1, BoundedStep
<1>8. CASE Songs!BrokerRestart
  <2>1. FaultCopies /\ saved' = saved /\ faults' = faults + 1
    BY <1>1, <1>8, CopiesBrokerRestart DEF Songs!BrokerRestart, Songs!Fault
  <2> QED  BY <1>1, <2>1, BoundedStep
<1> QED  BY <1>2, <1>3, <1>4, <1>5, <1>6, <1>7, <1>8 DEF Songs!Next, Songs!DrainStep

LEMMA CopiesInit == Songs!Init => CopiesBounded
<1> SUFFICES ASSUME Songs!Init PROVE CopiesBounded
  OBVIOUS
<1>1. /\ saved = {} /\ settled = {} /\ faults = 0 /\ ready = [m \in Songs!Message |-> 0]
      /\ slot = [w \in Server |-> [i \in Songs!Slot |-> Songs!Free]]
  BY DEF Songs!Init
<1>2. \A m : Waits(m) = 0
  BY <1>1 DEF Waits
<1>3. \A m : HandlersWith(Active(m)) = 0 /\ HandlersWith(Published(m)) = 0
  <2>1. \A h \in Handlers : slot[h[1]][h[2]] = Songs!Free
    BY <1>1 DEF Handlers
  <2>2. \A m : At(Active(m)) = {} /\ At(Published(m)) = {}
    BY <2>1, SameDelivery DEF At
  <2> QED  BY <2>2, FS_EmptySet DEF HandlersWith
<1>4. \A s : Cardinality(Songs!Outcomes(s)) = 0
  <2>1. \A s : Songs!Outcomes(s) = {}
    BY <1>1 DEF Songs!Outcomes
  <2> QED  BY <2>1, FS_EmptySet
<1>5. \A s : FirstCopies(s) = 0 /\ AllCopies(s) = 0
  BY <1>2, <1>3, <1>4 DEF FirstCopies, AllCopies
<1>6. RetriesAreFirst
  BY <1>1 DEF RetriesAreFirst, Songs!Free
<1> QED  BY <1>1, <1>5, <1>6 DEF CopiesBounded

LEMMA CopiesStutter == CopiesBounded /\ UNCHANGED songVars => CopiesBounded'
<1> SUFFICES ASSUME CopiesBounded, UNCHANGED songVars PROVE CopiesBounded'
  OBVIOUS
<1>1. /\ saved' = saved /\ ready' = ready /\ slot' = slot /\ settled' = settled /\ faults' = faults
  BY DEF songVars
<1>2. \A c : HandlersWith(c)' = HandlersWith(c)
  BY <1>1 DEF HandlersWith, At, Handlers, Songs!Slot
<1>3. \A m : Waits(m)' = Waits(m)
  BY <1>1 DEF Waits, Songs!Message
<1>4. \A s : Cardinality(Songs!Outcomes(s))' = Cardinality(Songs!Outcomes(s))
  BY <1>1, SameCauses
<1>5. \A s : FirstCopies(s)' = FirstCopies(s) /\ AllCopies(s)' = AllCopies(s)
  <2> SUFFICES ASSUME NEW s PROVE FirstCopies(s)' = FirstCopies(s) /\ AllCopies(s)' = AllCopies(s)
    OBVIOUS
  <2>1. /\ Waits(Songs!First(s))' = Waits(Songs!First(s)) /\ Waits(Retry(s))' = Waits(Retry(s))
        /\ HandlersWith(Active(Songs!First(s)))' = HandlersWith(Active(Songs!First(s)))
        /\ HandlersWith(Active(Retry(s)))' = HandlersWith(Active(Retry(s)))
        /\ HandlersWith(Published(Songs!First(s)))' = HandlersWith(Published(Songs!First(s)))
    BY <1>2, <1>3 DEF Active, Published, Songs!First, Retry
  <2> QED  BY <1>4, <2>1 DEF FirstCopies, AllCopies
<1> QED  BY <1>1, <1>5 DEF CopiesBounded, RetriesAreFirst, Songs!Slot

\* With the three attempts of the code, an upload is never forgotten in silence, and
\* its copies and the causes on record are one, and one more at most for each fault:
\* stopping a process neither duplicates a message nor settles it twice
\* (handleFailure, drainWorkerQueues, startSongWorker).
THEOREM MessagesAreAccountedFor ==
  ASSUME MaxAttempts <= 3
  PROVE  InfraSpec => []MessagesAccountedFor
<1>1. InfraInit => CopiesBounded
  BY CopiesInit DEF InfraInit
<1>2. SongInv /\ SongInv' /\ CopiesBounded /\ [InfraNext]_allVars => CopiesBounded'
  BY CopiesStep, CopiesStutter DEF InfraNext, allVars
<1>3. SongInv /\ CopiesBounded => MessagesAccountedFor
  <2> SUFFICES ASSUME SongInv, CopiesBounded PROVE MessagesAccountedFor
    OBVIOUS
  <2>1. Songs!NoneForgotten
    BY DEF SongInv, Remembered, Songs!NoneForgotten
  <2>2. ASSUME NEW s \in Song
        PROVE  Songs!Copies(s) + Songs!Cardinality(Songs!Outcomes(s)) <= 1 + faults
    <3>1. Songs!Copies(s) + Songs!Cardinality(Songs!Outcomes(s)) = AllCopies(s)
      BY CopiesAre
    <3>2. AllCopies(s) <= (IF s \in saved THEN 1 + faults ELSE 0) /\ faults \in Nat /\ AllCopies(s) \in Nat
      BY CopyNumbers DEF CopiesBounded
    <3> QED  BY <3>1, <3>2
  <2> QED  BY <2>1, <2>2 DEF MessagesAccountedFor, Songs!MessagesAccountedFor
<1> QED  BY <1>1, <1>2, <1>3, SongsAlways, PTL DEF InfraSpec

----------------------------------------------------------------------------
(* Backfill *)

LEMMA FillCardinality == \A S : Fill!Cardinality(S) = Cardinality(S)
  BY DEF Fill!Cardinality, Cardinality

LEMMA NatMin ==
  ASSUME NEW T, T \subseteq Nat, T # {}
  PROVE  \E x \in T : \A y \in T : x <= y
<1>1. PICK x \in T : \A y \in T : ~ (<<y, x>> \in OpToRel(<, Nat))
  BY NatLessThanWellFounded, WFMin
<1>2. \A y \in T : ~ (y < x)
  BY <1>1 DEF OpToRel
<1> QED  BY <1>2

LEMMA NatMax ==
  ASSUME NEW T, T \subseteq Nat, T # {}, NEW bound \in Nat, \A y \in T : y <= bound
  PROVE  \E x \in T : \A y \in T : y <= x
<1> DEFINE up == {n \in Nat : \A y \in T : y <= n}
<1>1. bound \in up
  OBVIOUS
<1>2. PICK n \in up : \A k \in up : n <= k
  BY <1>1, NatMin
<1>3. n \in T
  <2> SUFFICES ASSUME n \notin T PROVE FALSE
    OBVIOUS
  <2>1. \A y \in T : y <= n - 1
    BY <1>2
  <2>2. n - 1 \in Nat
    <3>1. PICK y \in T : y <= n - 1
      BY <2>1
    <3> QED  BY <1>2, <3>1
  <2>3. n - 1 \in up
    BY <2>1, <2>2
  <2> QED  BY <1>2, <2>3
<1> QED  BY <1>2, <1>3

\* Events are pairs, in a strict and total order.
Pair == Nat \X Nat

LEMMA BeforeIsAnOrder ==
  ASSUME NEW a \in Pair, NEW b \in Pair, NEW c \in Pair
  PROVE  /\ ~Fill!Before(a, a) /\ ~(Fill!Before(a, b) /\ Fill!Before(b, a))
         /\ a = b \/ Fill!Before(a, b) \/ Fill!Before(b, a)
         /\ Fill!Before(a, b) /\ Fill!Before(b, c) => Fill!Before(a, c)
         /\ Fill!Before(a, b) => a[1] <= b[1]
<1>1. a[1] \in Nat /\ a[2] \in Nat /\ b[1] \in Nat /\ b[2] \in Nat /\ c[1] \in Nat /\ c[2] \in Nat
  BY DEF Pair
<1>2. a = b <=> a[1] = b[1] /\ a[2] = b[2]
  BY DEF Pair
<1> QED  BY <1>1, <1>2 DEF Fill!Before

LEMMA FirstOf ==
  ASSUME NEW S, S \subseteq Pair, S # {}
  PROVE  \E m \in S : \A x \in S : ~Fill!Before(x, m)
<1> DEFINE ones == {x[1] : x \in S}
<1>1. ones \subseteq Nat /\ ones # {}
  BY DEF Pair
<1>2. PICK l \in ones : \A y \in ones : l <= y
  BY <1>1, NatMin
<1> DEFINE twos == {x[2] : x \in {x \in S : x[1] = l}}
<1>3. twos \subseteq Nat /\ twos # {}
  BY <1>2 DEF Pair
<1>4. PICK i \in twos : \A y \in twos : i <= y
  BY <1>3, NatMin
<1>5. PICK m \in S : m[1] = l /\ m[2] = i
  BY <1>4
<1>6. \A x \in S : ~Fill!Before(x, m)
  <2> SUFFICES ASSUME NEW x \in S PROVE ~Fill!Before(x, m)
    OBVIOUS
  <2>1. x[1] \in ones /\ l <= x[1] /\ (x[1] = l => x[2] \in twos)
    BY <1>2
  <2>2. x[1] = l => i <= x[2]
    BY <1>4, <2>1
  <2>3. x[1] \in Nat /\ x[2] \in Nat /\ l \in Nat /\ i \in Nat
    BY <1>1, <1>3 DEF Pair
  <2> QED  BY <1>5, <2>1, <2>2, <2>3 DEF Fill!Before
<1> QED  BY <1>6

\* Events of a chain.
EventsOf(h, first, last) == UNION {{l} \X (1..h[l]) : l \in DOMAIN h \cap (first..last)}

LEMMA EventsAre ==
  ASSUME NEW h \in Seq(Nat), NEW first \in Int, NEW last \in Int
  PROVE  /\ EventsOf(h, first, last) \subseteq Pair
         /\ \A e : e \in EventsOf(h, first, last) <=>
              /\ e \in Pair /\ e[1] \in 1..Len(h) /\ first <= e[1] /\ e[1] <= last
              /\ 1 <= e[2] /\ e[2] <= h[e[1]]
<1>1. DOMAIN h = 1..Len(h) /\ Len(h) \in Nat
  OBVIOUS
<1>2. \A l \in 1..Len(h) : h[l] \in Nat
  OBVIOUS
<1>3. \A e : e \in EventsOf(h, first, last) <=>
        \E l \in 1..Len(h) : first <= l /\ l <= last /\ e \in {l} \X (1..h[l])
  BY <1>1 DEF EventsOf
<1>4. \A e : e \in EventsOf(h, first, last) <=>
              /\ e \in Pair /\ e[1] \in 1..Len(h) /\ first <= e[1] /\ e[1] <= last
              /\ 1 <= e[2] /\ e[2] <= h[e[1]]
  BY <1>1, <1>2, <1>3 DEF Pair
<1> QED  BY <1>4

\* There are finitely many, so that a set of them has a last one.
LEMMA EventsFinite ==
  ASSUME NEW h \in Seq(Nat), NEW first \in Int, NEW last \in Int
  PROVE  IsFiniteSet(EventsOf(h, first, last))
<1> DEFINE some == DOMAIN h \cap (first..last)
           of == [l \in some |-> {l} \X (1..h[l])]
           all == {{l} \X (1..h[l]) : l \in some}
<1>1. IsFiniteSet(some)
  <2>1. IsFiniteSet(first..last)
    BY FS_Interval
  <2> QED  BY <2>1, FS_Subset
<1>2. of \in Surjection(some, all)
  BY DEF Surjection
<1>3. IsFiniteSet(all)
  BY <1>1, <1>2, FS_Surjection
<1>4. ASSUME NEW l \in some PROVE IsFiniteSet({l} \X (1..h[l]))
  <2>1. h[l] \in Nat
    OBVIOUS
  <2>2. IsFiniteSet(1..h[l])
    BY <2>1, FS_Interval
  <2>3. IsFiniteSet({l})
    BY FS_Singleton
  <2> QED  BY <2>2, <2>3, FS_Product
<1>5. \A t \in all : IsFiniteSet(t)
  BY <1>4
<1> HIDE DEF all
<1>6. IsFiniteSet(UNION all)
  BY <1>3, <1>5, FS_UNION
<1> QED  BY <1>6 DEF EventsOf, all

LEMMA LastOf ==
  ASSUME NEW h \in Seq(Nat), NEW first \in Int, NEW last \in Int,
         NEW S, S \subseteq EventsOf(h, first, last), S # {}
  PROVE  \E m \in S : \A x \in S : ~Fill!Before(m, x)
<1> DEFINE ones == {x[1] : x \in S}
<1>1. \A x \in S : x \in Pair /\ x[1] \in Nat /\ x[2] \in Nat /\ x[1] \in 1..Len(h)
                     /\ x[1] <= Len(h) /\ x[2] <= h[x[1]]
  BY EventsAre DEF Pair
<1>2. ones \subseteq Nat /\ ones # {} /\ Len(h) \in Nat /\ \A y \in ones : y <= Len(h)
  BY <1>1
<1> HIDE DEF ones
<1>3. PICK l \in ones : \A y \in ones : y <= l
  BY <1>2, NatMax
<1> DEFINE twos == {x[2] : x \in {x \in S : x[1] = l}}
<1>4. twos \subseteq Nat /\ twos # {} /\ h[l] \in Nat /\ \A y \in twos : y <= h[l]
  BY <1>1 DEF ones
<1> HIDE DEF twos
<1>5. PICK i \in twos : \A y \in twos : y <= i
  BY <1>4, NatMax
<1>6. PICK m \in S : m[1] = l /\ m[2] = i
  BY DEF twos
<1>7. \A x \in S : ~Fill!Before(m, x)
  <2> SUFFICES ASSUME NEW x \in S PROVE ~Fill!Before(m, x)
    OBVIOUS
  <2>1. x[1] \in ones /\ x[1] <= l
    BY <1>3 DEF ones
  <2>2. x[1] = l => x[2] <= i
    BY <1>5 DEF twos
  <2>3. x[1] \in Nat /\ x[2] \in Nat /\ l \in Nat /\ i \in Nat
    BY <1>1, <1>2, <1>4
  <2> QED  BY <1>6, <2>1, <2>2, <2>3 DEF Fill!Before
<1> QED  BY <1>7

----------------------------------------------------------------------------
(* The first events of a window, as many as a page holds *)

FirstEvents(window) == {e \in window : Fill!Cardinality({d \in window : Fill!Before(d, e)}) < Limit}

LEMMA PageIsClosed ==
  ASSUME NEW window, window \subseteq Pair, IsFiniteSet(window),
         NEW e \in FirstEvents(window), NEW d \in window, Fill!Before(d, e)
  PROVE  d \in FirstEvents(window)
<1> DEFINE below(x) == {c \in window : Fill!Before(c, x)}
<1>1. below(d) \subseteq below(e)
  <2> SUFFICES ASSUME NEW c \in window, Fill!Before(c, d) PROVE Fill!Before(c, e)
    OBVIOUS
  <2>1. c \in Pair /\ d \in Pair /\ e \in Pair
    BY DEF FirstEvents
  <2> QED  BY <2>1, BeforeIsAnOrder
<1>2. IsFiniteSet(below(e))
  BY FS_Subset
<1>3. Cardinality(below(d)) <= Cardinality(below(e)) /\ Cardinality(below(e)) \in Nat /\ Cardinality(below(d)) \in Nat
  BY <1>1, <1>2, FS_Subset, FS_CardinalityType
<1>4. Cardinality(below(e)) < Limit
  BY FillCardinality DEF FirstEvents
<1>5. Cardinality(below(d)) < Limit
  BY <1>3, <1>4, InfraAssumption
<1> QED  BY <1>5, FillCardinality DEF FirstEvents

\* A page that leaves an event out is full.
LEMMA PageIsFull ==
  ASSUME NEW h \in Seq(Nat), NEW first \in Int, NEW last \in Int,
         NEW window, window \subseteq EventsOf(h, first, last)
  PROVE  /\ IsFiniteSet(window) /\ window \subseteq Pair
         /\ window # FirstEvents(window) => Fill!Cardinality(FirstEvents(window)) = Limit
         /\ window # {} => FirstEvents(window) # {}
<1> DEFINE page == FirstEvents(window)
           below(x) == {c \in window : Fill!Before(c, x)}
<1>1. IsFiniteSet(window) /\ window \subseteq Pair
  BY EventsFinite, EventsAre, FS_Subset
<1>2. page \subseteq window /\ IsFiniteSet(page) /\ Cardinality(page) \in Nat
  <2>1. page \subseteq window
    BY DEF FirstEvents
  <2> QED  BY <1>1, <2>1, FS_Subset, FS_CardinalityType
<1>3. \A x \in window : x \in page <=> Cardinality(below(x)) < Limit
  BY FillCardinality DEF FirstEvents
<1>4. \A x \in window : IsFiniteSet(below(x)) /\ Cardinality(below(x)) \in Nat
  BY <1>1, FS_Subset, FS_CardinalityType
<1>5. Cardinality(page) <= Limit
  <2>1. CASE page = {}
    BY <2>1, FS_EmptySet, InfraAssumption
  <2>2. CASE page # {}
    <3>1. page \subseteq EventsOf(h, first, last)
      BY <1>2
    <3> HIDE DEF page
    <3>2. PICK m \in page : \A x \in page : ~Fill!Before(m, x)
      BY <2>2, <3>1, LastOf
    <3>3. page \ {m} \subseteq below(m)
      BY <1>1, <1>2, <3>2, BeforeIsAnOrder
    <3>4. Cardinality(page \ {m}) <= Cardinality(below(m)) /\ Cardinality(below(m)) < Limit
      BY <1>2, <1>3, <1>4, <3>3, FS_Subset
    <3>5. Cardinality(page \ {m}) = Cardinality(page) - 1
      BY <1>2, FS_RemoveElement
    <3>6. Cardinality(below(m)) \in Nat
      BY <1>2, <1>4
    <3> HIDE DEF below
    <3> QED  BY <1>2, <3>4, <3>5, <3>6, InfraAssumption
  <2> QED  BY <2>1, <2>2
<1>6. ASSUME window # page PROVE Cardinality(page) >= Limit
  <2>1. window \ page \subseteq Pair /\ window \ page # {}
    BY <1>1, <1>2, <1>6
  <2> HIDE DEF page
  <2>2. PICK m \in window \ page : \A x \in window \ page : ~Fill!Before(x, m)
    BY <2>1, FirstOf
  <2>3. below(m) \subseteq page
    BY <2>2
  <2>4. Cardinality(below(m)) <= Cardinality(page)
    BY <1>2, <2>3, FS_Subset
  <2>5. ~(Cardinality(below(m)) < Limit)
    BY <1>3, <2>2
  <2>6. Cardinality(below(m)) \in Nat
    BY <1>4
  <2> HIDE DEF below
  <2> QED  BY <1>2, <2>4, <2>5, <2>6, InfraAssumption
<1>7. ASSUME window # {} PROVE page # {}
  <2>1. CASE window = page
    BY <1>7, <2>1
  <2>2. CASE window # page
    <3>1. Cardinality(page) # 0
      BY <1>2, <1>6, <2>2, InfraAssumption
    <3> QED  BY <3>1, FS_EmptySet
  <2> QED  BY <2>1, <2>2
<1>8. Fill!Cardinality(page) = Cardinality(page)
  BY FillCardinality
<1> HIDE DEF page
<1>9. window # page => Fill!Cardinality(page) = Limit
  BY <1>2, <1>5, <1>6, <1>8, InfraAssumption
<1> QED  BY <1>1, <1>7, <1>9 DEF page

----------------------------------------------------------------------------
(* What runs know *)

\* Pages, as functions of the chain.
FetchedOf(h, from, end) == FirstEvents(EventsOf(h, from, Fill!Min({end, from + ScanLimit - 1})))
AfterOf(h, p) == FirstEvents({e \in EventsOf(h, p[1], p[1] + ScanLimit - 1) : Fill!Before(p, e)})

LEMMA OfTheChain ==
  /\ \A first, last : Fill!Events(first, last) = EventsOf(history, first, last)
  /\ \A from, end : Fill!Fetched(from, end) = FetchedOf(history, from, end)
  /\ \A p : Fill!After(p) = AfterOf(history, p)
<1>1. \A first, last : Fill!Events(first, last) = EventsOf(history, first, last)
  BY DEF Fill!Events, Fill!Ledgers, EventsOf
<1>2. \A from, end : Fill!Fetched(from, end) = FetchedOf(history, from, end)
  BY <1>1 DEF Fill!Fetched, FetchedOf, FirstEvents
<1>3. \A p : Fill!After(p) = AfterOf(history, p)
  BY <1>1 DEF Fill!After, AfterOf, FirstEvents
<1> QED  BY <1>1, <1>2, <1>3

Importing == [at : {"fetching", "storing"}, from : Nat \ {0}, end : Nat, stale : Nat,
              page : SUBSET Pair, todo : SUBSET Pair]
Reindexing == [at : {"paging", "reindexing"}, from : Nat \ {0}, end : Nat, position : Pair,
               page : SUBSET Pair, todo : SUBSET Pair, failed : BOOLEAN]

FillTypes ==
    /\ history \in Seq(Nat) /\ cursor \in Nat
    /\ backfill \in [Operator -> {Fill!Quiet} \cup Importing \cup Reindexing]

\* A backfill has dealt with all before its page, and with what it no longer has to
\* store of it; a cut ledger is excused already.
Imports(me) == me.at \in {"fetching", "storing"}
ImportHonest(h, me, known) ==
    /\ Imports(me) => EventsOf(h, 1, me.from - 1) \subseteq known
    /\ me.at = "storing" =>
         LET top == Fill!Highest(me.page, me.from)
         IN  /\ me.page = FetchedOf(h, me.from, me.end) /\ me.page \ me.todo \subseteq known
             /\ Fill!Cardinality(me.page) = Limit => EventsOf(h, top, top) \ me.page \subseteq known

\* A reindex without failures has stored all of its range up to its position, and
\* what it no longer has to store of its page.
Clean(me) == me.at \in {"paging", "reindexing"} /\ ~me.failed
ReindexHonest(h, me, kept) ==
    /\ Clean(me) => \A e \in EventsOf(h, me.from, me.end) : ~Fill!Before(me.position, e) => e \in kept
    /\ me.at = "reindexing" =>
         /\ me.page = AfterOf(h, me.position)
         /\ Clean(me) => \A e \in me.page : e[1] <= me.end /\ e \notin me.todo => e \in kept

Known == stored \cup excused \cup jumped
FillInv ==
    /\ FillTypes
    /\ EventsOf(history, 1, cursor) \subseteq Known /\ reindexed \subseteq stored
    /\ \A o \in Operator : ImportHonest(history, backfill[o], Known) /\ ReindexHonest(history, backfill[o], stored)

LEMMA FillConclude ==
  ASSUME history' = history, history \in Seq(Nat), cursor' \in Nat,
         backfill' \in [Operator -> {Fill!Quiet} \cup Importing \cup Reindexing],
         EventsOf(history, 1, cursor') \subseteq Known', reindexed' \subseteq stored',
         \A o \in Operator : ImportHonest(history, backfill'[o], Known') /\ ReindexHonest(history, backfill'[o], stored')
  PROVE  FillInv'
<1>1. FillTypes'
  BY DEF FillTypes, Fill!Quiet, Importing, Reindexing, Pair
<1>2. \A o \in Operator : ImportHonest(history', backfill'[o], Known') /\ ReindexHonest(history', backfill'[o], stored')
  OBVIOUS
<1> QED  BY <1>1, <1>2 DEF FillInv

\* What a run knows it keeps knowing.
LEMMA StillHonest ==
  ASSUME NEW h, NEW me, NEW known, NEW more, known \subseteq more
  PROVE  /\ ImportHonest(h, me, known) => ImportHonest(h, me, more)
         /\ ReindexHonest(h, me, known) => ReindexHonest(h, me, more)
  BY DEF ImportHonest, ReindexHonest

LEMMA QuietHonest ==
  ASSUME NEW known
  PROVE  ImportHonest(history, Fill!Quiet, known) /\ ReindexHonest(history, Fill!Quiet, known)
  BY DEF ImportHonest, ReindexHonest, Imports, Clean, Fill!Quiet

LEMMA FillInit == Fill!Init => FillInv
<1> SUFFICES ASSUME Fill!Init PROVE FillInv
  OBVIOUS
<1>1. /\ history \in Seq(Nat) /\ cursor = 0 /\ stored = {} /\ excused = {} /\ jumped = {} /\ reindexed = {}
      /\ backfill = [o \in Operator |-> Fill!Quiet]
  BY InfraAssumption DEF Fill!Init
<1>2. EventsOf(history, 1, cursor) = {}
  <2>1. \A e \in EventsOf(history, 1, 0) : 1 <= e[1] /\ e[1] <= 0 /\ e[1] \in Nat
    BY <1>1, EventsAre DEF Pair
  <2> QED  BY <1>1, <2>1, OfTheChain
<1>3. \A o \in Operator : ImportHonest(history, backfill[o], Known) /\ ReindexHonest(history, backfill[o], stored)
  BY <1>1, QuietHonest
<1> QED  BY <1>1, <1>2, <1>3 DEF FillInv, FillTypes

\* One run moves on; what is stored or excused stays so.
LEMMA RunMoves ==
  ASSUME FillInv, NEW o \in Operator, NEW me \in {Fill!Quiet} \cup Importing \cup Reindexing, Fill!Become(o, me),
         history' = history, cursor' \in Nat, stored \subseteq stored', Known \subseteq Known',
         EventsOf(history, 1, cursor') \subseteq Known', reindexed' \subseteq stored',
         ImportHonest(history, me, Known'), ReindexHonest(history, me, stored')
  PROVE  FillInv'
<1>1. backfill' = [backfill EXCEPT ![o] = me] /\ backfill \in [Operator -> {Fill!Quiet} \cup Importing \cup Reindexing]
  BY DEF Fill!Become, FillInv, FillTypes
<1>2. backfill' \in [Operator -> {Fill!Quiet} \cup Importing \cup Reindexing]
  BY <1>1
<1>4. ASSUME NEW p \in Operator
      PROVE  ImportHonest(history, backfill'[p], Known') /\ ReindexHonest(history, backfill'[p], stored')
  <2>1. CASE p = o
    BY <1>1, <2>1
  <2>2. CASE p # o
    <3>1. backfill'[p] = backfill[p] /\ ImportHonest(history, backfill[p], Known) /\ ReindexHonest(history, backfill[p], stored)
      BY <1>1, <2>2 DEF FillInv
    <3>2. ImportHonest(history, backfill[p], Known') /\ ReindexHonest(history, backfill[p], stored')
      BY <3>1, StillHonest
    <3> QED  BY <3>1, <3>2
  <2> QED  BY <2>1, <2>2
<1>5. history \in Seq(Nat)
  BY DEF FillInv, FillTypes
<1> QED  BY <1>2, <1>4, <1>5, FillConclude

----------------------------------------------------------------------------
(* A backfill *)

LEMMA EventRange ==
  ASSUME NEW h \in Seq(Nat), NEW first \in Int, NEW last \in Int, NEW lo \in Int, NEW hi \in Int,
         NEW e \in EventsOf(h, first, last), lo <= e[1], e[1] <= hi
  PROVE  e \in EventsOf(h, lo, hi)
  BY EventsAre

\* The ledgers an RPC page may come from.
LEMMA Window ==
  ASSUME NEW from \in Nat \ {0}, NEW end \in Nat
  PROVE  LET w == Fill!Min({end, from + ScanLimit - 1})
         IN  w \in Nat /\ w <= end /\ w <= from + ScanLimit - 1 /\ (w = end \/ w = from + ScanLimit - 1)
<1> DEFINE a == from + ScanLimit - 1
           S == {end, a}
<1>1. a \in Nat
  BY InfraAssumption
<1>2. \E m \in S : \A x \in S : m <= x
  <2>1. CASE end <= a
    BY <1>1, <2>1
  <2>2. CASE a <= end
    BY <1>1, <2>2
  <2> QED  BY <1>1, <2>1, <2>2
<1>3. Fill!Min(S) \in S /\ \A x \in S : Fill!Min(S) <= x
  BY <1>2 DEF Fill!Min
<1> QED  BY <1>1, <1>3

LEMMA FetchedIs ==
  ASSUME NEW h \in Seq(Nat), NEW from \in Nat \ {0}, NEW end \in Nat, NEW page, page = FetchedOf(h, from, end)
  PROVE  /\ page \in SUBSET Pair /\ page \subseteq EventsOf(h, from, end)
         \* Within the ledgers looked at, what lies before an event of the page is on it, ...
         /\ \A e \in EventsOf(h, from, end), d \in page : e[1] < d[1] => e \in page
         \* ... a page that is not full has all, and one that is empty saw none.
         /\ \A e \in EventsOf(h, from, end) :
              e[1] <= from + ScanLimit - 1 => Fill!Cardinality(page) = Limit \/ e \in page
         /\ \A e \in EventsOf(h, from, end) : e[1] <= from + ScanLimit - 1 => page # {}
         /\ \A d \in page : d[1] <= from + ScanLimit - 1
<1> DEFINE w == Fill!Min({end, from + ScanLimit - 1})
           window == EventsOf(h, from, w)
<1>1. w \in Nat /\ w <= end /\ w <= from + ScanLimit - 1 /\ (w = end \/ w = from + ScanLimit - 1)
  BY Window
<1>2. page = FirstEvents(window)
  BY DEF FetchedOf
<1> HIDE DEF w
<1>3. /\ IsFiniteSet(window) /\ window \subseteq Pair
      /\ window # FirstEvents(window) => Fill!Cardinality(FirstEvents(window)) = Limit
      /\ window # {} => FirstEvents(window) # {}
  <2>1. from \in Int /\ w \in Int /\ window \subseteq EventsOf(h, from, w)
    BY <1>1
  <2> HIDE DEF window
  <2> QED  BY <2>1, PageIsFull
<1>4. window \subseteq EventsOf(h, from, end)
  BY <1>1, EventsAre
<1>5. ASSUME NEW e \in EventsOf(h, from, end), e[1] <= from + ScanLimit - 1 PROVE e \in window
  <2>1. from <= e[1] /\ e[1] <= end /\ e[1] \in Nat
    BY EventsAre
  <2>2. e[1] <= w
    BY <1>1, <1>5, <2>1
  <2> QED  BY <1>1, <2>1, <2>2, EventRange
<1>6. FirstEvents(window) \subseteq window
  BY DEF FirstEvents
<1>7. ASSUME NEW e \in EventsOf(h, from, end), NEW d \in FirstEvents(window), e[1] < d[1]
      PROVE  e \in FirstEvents(window)
  <2>1. d \in window /\ d \in Pair /\ e \in Pair /\ e[1] \in Nat /\ d[1] \in Nat
    BY <1>3, <1>6, EventsAre DEF Pair
  <2>2. d[1] <= w /\ from <= e[1]
    BY <1>1, <2>1, EventsAre
  <2>3. e \in window
    BY <1>1, <1>7, <2>1, <2>2, EventRange
  <2>4. Fill!Before(e, d)
    BY <1>7 DEF Fill!Before
  <2> HIDE DEF window
  <2> QED  BY <1>3, <2>3, <2>4, PageIsClosed
<1>8. \A d \in window : d[1] <= from + ScanLimit - 1
  <2> SUFFICES ASSUME NEW d \in window PROVE d[1] <= from + ScanLimit - 1
    OBVIOUS
  <2>1. d[1] <= w /\ d[1] \in Nat
    BY <1>1, EventsAre DEF Pair
  <2> QED  BY <1>1, <2>1, InfraAssumption
<1> HIDE DEF window
<1> QED  BY <1>2, <1>3, <1>4, <1>5, <1>6, <1>7, <1>8

\* The last ledger of a page.
LEMMA HighestIs ==
  ASSUME NEW h \in Seq(Nat), NEW from \in Nat \ {0}, NEW end \in Nat,
         NEW page, page \subseteq EventsOf(h, from, end), page # {}
  PROVE  LET top == Fill!Highest(page, from)
         IN  top \in Nat /\ (\E d \in page : d[1] = top) /\ \A d \in page : d[1] <= top
<1> DEFINE S == {from - 1} \cup {e[1] : e \in page}
<1>1. \A d \in page : d[1] \in Nat /\ from <= d[1] /\ d[1] <= end
  BY EventsAre
<1>2. S \subseteq Nat /\ S # {} /\ from + end \in Nat /\ \A y \in S : y <= from + end
  BY <1>1
<1> HIDE DEF S
<1>3. \E m \in S : \A y \in S : y <= m
  BY <1>2, NatMax
<1>4. \E m \in S : \A y \in S : m >= y
  BY <1>2, <1>3
<1>5. Fill!Max(S) \in S /\ \A y \in S : Fill!Max(S) >= y
  BY <1>4 DEF Fill!Max
<1>6. Fill!Highest(page, from) = Fill!Max(S)
  BY DEF Fill!Highest, S
<1>7. \A d \in page : d[1] \in S
  BY DEF S
<1>8. PICK d \in page : TRUE
  OBVIOUS
<1>9. Fill!Max(S) # from - 1
  BY <1>1, <1>2, <1>5, <1>7, <1>8
<1>10. Fill!Max(S) \in {e[1] : e \in page}
  BY <1>5, <1>9 DEF S
<1> QED  BY <1>2, <1>5, <1>6, <1>7, <1>10

LEMMA RunTypes ==
  ASSUME FillInv, NEW o \in Operator
  PROVE  /\ history \in Seq(Nat) /\ cursor \in Nat
         /\ backfill[o] \in {Fill!Quiet} \cup Importing \cup Reindexing
         /\ backfill[o].at \in {"fetching", "storing"} => backfill[o] \in Importing
         /\ backfill[o].at \in {"paging", "reindexing"} => backfill[o] \in Reindexing
         /\ ImportHonest(history, backfill[o], Known) /\ ReindexHonest(history, backfill[o], stored)
  BY DEF FillInv, FillTypes, Fill!Quiet, Importing, Reindexing

\* A checkpoint covers nothing that is not stored or excused: what precedes the next
\* page was seen, cut off, or lies beyond the range.
LEMMA NextCovers ==
  ASSUME NEW h \in Seq(Nat), NEW me \in Importing, NEW known, ImportHonest(h, me, known),
         me.at = "storing", me.todo = {}
  PROVE  LET next == Fill!NextStart(me.page, me.from)
         IN  /\ next \in Nat \ {0}
             /\ EventsOf(h, 1, next - 1) \subseteq known \cup EventsOf(h, me.end + 1, next - 1)
<1> DEFINE next == Fill!NextStart(me.page, me.from)
           page == me.page
           from == me.from
           end == me.end
           top == Fill!Highest(page, from)
<1>1. /\ from \in Nat \ {0} /\ end \in Nat /\ page = FetchedOf(h, from, end) /\ page \subseteq known
      /\ EventsOf(h, 1, from - 1) \subseteq known
      /\ Fill!Cardinality(page) = Limit => EventsOf(h, top, top) \ page \subseteq known
  BY DEF Importing, ImportHonest, Imports
<1> HIDE DEF page, from, end, top
<1>2. /\ page \subseteq EventsOf(h, from, end)
      /\ \A e \in EventsOf(h, from, end), d \in page : e[1] < d[1] => e \in page
      /\ \A e \in EventsOf(h, from, end) :
           e[1] <= from + ScanLimit - 1 => Fill!Cardinality(page) = Limit \/ e \in page
      /\ \A e \in EventsOf(h, from, end) : e[1] <= from + ScanLimit - 1 => page # {}
      /\ \A d \in page : d[1] <= from + ScanLimit - 1
  BY <1>1, FetchedIs
<1>3. next = IF page # {} THEN top + 1 ELSE from + Limit
  BY DEF Fill!NextStart, top, page, from
<1> HIDE DEF next
<1>4. page # {} => top \in Nat /\ (\E d \in page : d[1] = top) /\ \A d \in page : d[1] <= top
  BY <1>1, <1>2, HighestIs DEF top
<1>5. next \in Nat \ {0}
  BY <1>1, <1>3, <1>4, InfraAssumption
<1>6. ASSUME NEW e \in EventsOf(h, 1, next - 1) PROVE e \in known \cup EventsOf(h, end + 1, next - 1)
  <2>1. e[1] \in Nat /\ 1 <= e[1] /\ e[1] <= next - 1 /\ next - 1 \in Int
    <3>1. next - 1 \in Int /\ 1 \in Int
      BY <1>5
    <3> QED  BY <3>1, EventsAre DEF Pair
  <2>2. CASE e[1] < from
    <3>1. from - 1 \in Int /\ next - 1 \in Int /\ e[1] <= from - 1
      BY <1>1, <2>1, <2>2
    <3>2. e \in EventsOf(h, 1, from - 1)
      BY <2>1, <3>1, EventRange
    <3> QED  BY <1>1, <3>2
  <2>3. CASE e[1] > end
    <3>1. e \in EventsOf(h, end + 1, next - 1)
      BY <1>1, <2>1, <2>3, EventRange
    <3> QED  BY <3>1
  <2>4. CASE from <= e[1] /\ e[1] <= end
    <3>1. e \in EventsOf(h, from, end)
      BY <1>1, <2>1, <2>4, EventRange
    <3>2. CASE page = {}
      <4>1. e[1] <= from + ScanLimit - 1
        BY <1>1, <1>3, <2>1, <3>2, InfraAssumption
      <4> QED  BY <1>2, <3>1, <3>2, <4>1
    <3>3. CASE page # {}
      <4>1. e[1] <= top /\ top \in Nat
        BY <1>3, <1>4, <2>1, <3>3
      <4>2. PICK d \in page : d[1] = top
        BY <1>4, <3>3
      <4>3. CASE e[1] < top
        BY <1>1, <1>2, <3>1, <4>2, <4>3
      <4>4. CASE e[1] = top
        <5>1. e \in EventsOf(h, top, top)
          BY <2>1, <4>1, <4>4, EventRange
        <5>2. Fill!Cardinality(page) = Limit \/ e \in page
          BY <1>2, <3>1, <4>2, <4>4
        <5> QED  BY <1>1, <5>1, <5>2
      <4> QED  BY <2>1, <4>1, <4>3, <4>4
    <3> QED  BY <3>2, <3>3
  <2> QED  BY <1>1, <2>1, <2>2, <2>3, <2>4
<1> QED  BY <1>5, <1>6 DEF next, page, from, end

LEMMA FillBegin ==
  ASSUME FillInv, NEW o \in Operator, NEW start \in Fill!Ledgers, NEW end \in Fill!Ledgers,
         Fill!BeginRun(o, start, end)
  PROVE  FillInv'
<1> DEFINE from == Fill!Max({start, Fill!Resumed})
           begun == [at |-> "fetching", from |-> from, end |-> end, stale |-> 0, page |-> {}, todo |-> {}]
           me == IF from > end THEN Fill!Quiet ELSE begun
<1>1. /\ history \in Seq(Nat) /\ cursor \in Nat /\ start \in Nat \ {0} /\ end \in Nat
      /\ EventsOf(history, 1, cursor) \subseteq Known /\ reindexed \subseteq stored
  BY DEF FillInv, FillTypes, Fill!Ledgers
<1>2. from \in Nat \ {0} /\ start <= from
  <2> DEFINE S == {start, Fill!Resumed}
  <2>1. Fill!Resumed \in Nat \ {0}
    BY <1>1 DEF Fill!Resumed
  <2>2. \E m \in S : \A x \in S : m >= x
    <3>1. CASE start <= Fill!Resumed
      BY <1>1, <2>1, <3>1
    <3>2. CASE Fill!Resumed <= start
      BY <1>1, <2>1, <3>2
    <3> QED  BY <1>1, <2>1, <3>1, <3>2
  <2>3. Fill!Max(S) \in S /\ \A x \in S : Fill!Max(S) >= x
    BY <2>2 DEF Fill!Max
  <2> QED  BY <1>1, <2>1, <2>3
<1> HIDE DEF from
<1>3. /\ Fill!Become(o, me) /\ excused' = excused \cup EventsOf(history, cursor + 1, start - 1)
      /\ jumped' = jumped \cup {e \in EventsOf(history, start, end) : cursor < e[1] /\ e[1] < from}
      /\ history' = history /\ stored' = stored /\ cursor' = cursor /\ reindexed' = reindexed
  BY OfTheChain DEF Fill!BeginRun, from
<1>4. /\ Known \subseteq Known' /\ EventsOf(history, cursor + 1, start - 1) \subseteq Known'
      /\ \A e \in EventsOf(history, start, end) : cursor < e[1] /\ e[1] < from => e \in Known'
  BY <1>3 DEF Known
\* What precedes the first page is covered already, precedes the range, or is jumped over.
<1>5. ASSUME from <= end PROVE EventsOf(history, 1, from - 1) \subseteq Known'
  <2> SUFFICES ASSUME NEW e \in EventsOf(history, 1, from - 1) PROVE e \in Known'
    OBVIOUS
  <2>1. from - 1 \in Int /\ cursor + 1 \in Int /\ start - 1 \in Int
    BY <1>1, <1>2
  <2>2. e[1] \in Nat /\ 1 <= e[1] /\ e[1] <= from - 1
    BY <1>1, <2>1, EventsAre DEF Pair
  <2>3. CASE e[1] <= cursor
    <3>1. e \in EventsOf(history, 1, cursor)
      BY <1>1, <2>1, <2>2, <2>3, EventRange
    <3> QED  BY <1>1, <1>4, <3>1
  <2>4. CASE cursor < e[1] /\ e[1] < start
    <3>1. cursor + 1 <= e[1] /\ e[1] <= start - 1
      BY <1>1, <2>2, <2>4
    <3>2. e \in EventsOf(history, cursor + 1, start - 1)
      BY <1>1, <2>1, <3>1, EventRange
    <3> QED  BY <1>4, <3>2
  <2>5. CASE cursor < e[1] /\ start <= e[1]
    <3>1. e[1] <= end /\ e[1] < from
      BY <1>1, <1>2, <1>5, <2>2
    <3>2. e \in EventsOf(history, start, end)
      BY <1>1, <2>1, <2>5, <3>1, EventRange
    <3> QED  BY <1>4, <2>5, <3>1, <3>2
  <2> QED  BY <1>1, <2>2, <2>3, <2>4, <2>5
<1>6. begun \in Importing
  BY <1>1, <1>2 DEF Importing
<1>7. from <= end => ImportHonest(history, begun, Known') /\ ReindexHonest(history, begun, stored')
  BY <1>5 DEF ImportHonest, ReindexHonest, Imports, Clean
<1> HIDE DEF begun
<1>8. me \in {Fill!Quiet} \cup Importing \cup Reindexing /\ ImportHonest(history, me, Known') /\ ReindexHonest(history, me, stored')
  BY <1>1, <1>2, <1>6, <1>7, QuietHonest
<1> HIDE DEF me
<1>9. cursor' \in Nat /\ stored \subseteq stored' /\ Known \subseteq Known' /\ reindexed' \subseteq stored'
      /\ EventsOf(history, 1, cursor') \subseteq Known'
  BY <1>1, <1>3, <1>4
<1> QED  BY <1>3, <1>8, <1>9, RunMoves

LEMMA FillFetch ==
  ASSUME FillInv, NEW o \in Operator, Fill!Fetch(o)
  PROVE  FillInv'
<1> DEFINE old == backfill[o]
           page == FetchedOf(history, old.from, old.end)
           top == Fill!Highest(page, old.from)
           me == [old EXCEPT !.at = "storing", !.page = page, !.todo = page]
<1>1. /\ Fill!Become(o, me) /\ old.at = "fetching"
      /\ excused' = IF Fill!Cardinality(page) = Limit THEN excused \cup (EventsOf(history, top, top) \ page) ELSE excused
      /\ history' = history /\ stored' = stored /\ cursor' = cursor /\ jumped' = jumped /\ reindexed' = reindexed
  BY OfTheChain DEF Fill!Fetch
<1>2. /\ history \in Seq(Nat) /\ cursor \in Nat /\ old \in Importing
      /\ EventsOf(history, 1, cursor) \subseteq Known /\ reindexed \subseteq stored
      /\ EventsOf(history, 1, old.from - 1) \subseteq Known
  BY <1>1, RunTypes DEF FillInv, ImportHonest, Imports
<1>3. Known \subseteq Known'
      /\ (Fill!Cardinality(page) = Limit => EventsOf(history, top, top) \ page \subseteq Known')
  BY <1>1 DEF Known
<1>4. old.from \in Nat \ {0} /\ old.end \in Nat
  BY <1>2 DEF Importing
<1>5. page \in SUBSET Pair
  BY <1>2, <1>4, FetchedIs
<1> DEFINE seen == page
           highest == top
<1>6. seen = FetchedOf(history, old.from, old.end) /\ highest = Fill!Highest(seen, old.from)
  OBVIOUS
<1> HIDE DEF seen, highest
<1>7. me = [old EXCEPT !.at = "storing", !.page = seen, !.todo = seen]
  BY DEF seen
<1>8. me \in Importing /\ me.at = "storing" /\ me.page = seen /\ me.todo = seen /\ me.from = old.from /\ me.end = old.end
  BY <1>2, <1>5, <1>7 DEF Importing, seen
<1>9. Fill!Cardinality(seen) = Limit => EventsOf(history, highest, highest) \ seen \subseteq Known'
  BY <1>3 DEF seen, highest
<1> HIDE DEF me
<1>10. ImportHonest(history, me, Known')
  BY <1>2, <1>3, <1>6, <1>8, <1>9 DEF ImportHonest, Imports
<1>11. ReindexHonest(history, me, stored')
  BY <1>8 DEF ReindexHonest, Clean
<1>12. cursor' \in Nat /\ stored \subseteq stored' /\ reindexed' \subseteq stored' /\ EventsOf(history, 1, cursor') \subseteq Known'
  BY <1>1, <1>2, <1>3
<1> QED  BY <1>1, <1>3, <1>8, <1>10, <1>11, <1>12, RunMoves

LEMMA FillStore ==
  ASSUME FillInv, NEW o \in Operator, NEW e, Fill!Store(o, e)
  PROVE  FillInv'
<1> DEFINE old == backfill[o]
           me == [old EXCEPT !.todo = @ \ {e}]
<1>1. /\ Fill!Become(o, me) /\ old.at = "storing"
      /\ (stored' = stored \cup {e} /\ excused' = excused) \/ (excused' = excused \cup {e} /\ stored' = stored)
      /\ history' = history /\ cursor' = cursor /\ jumped' = jumped /\ reindexed' = reindexed
  BY DEF Fill!Store
<1>2. /\ history \in Seq(Nat) /\ cursor \in Nat /\ old \in Importing
      /\ EventsOf(history, 1, cursor) \subseteq Known /\ reindexed \subseteq stored
      /\ ImportHonest(history, old, Known)
  BY <1>1, RunTypes DEF FillInv
<1>3. Known' = Known \cup {e} /\ stored \subseteq stored' /\ Known \subseteq Known'
  BY <1>1 DEF Known
<1>4. me \in Importing /\ me.at = "storing" /\ me.page = old.page /\ me.todo = old.todo \ {e} /\ me.from = old.from /\ me.end = old.end
  BY <1>1, <1>2 DEF Importing
<1> HIDE DEF me
<1>5. ImportHonest(history, me, Known')
  BY <1>1, <1>2, <1>3, <1>4 DEF ImportHonest, Imports
<1>6. ReindexHonest(history, me, stored')
  BY <1>4 DEF ReindexHonest, Clean
<1>7. cursor' \in Nat /\ reindexed' \subseteq stored' /\ EventsOf(history, 1, cursor') \subseteq Known'
  BY <1>1, <1>2, <1>3
<1> QED  BY <1>1, <1>3, <1>4, <1>5, <1>6, <1>7, RunMoves

LEMMA FillCheckpoint ==
  ASSUME FillInv, NEW o \in Operator, Fill!Checkpoint(o)
  PROVE  FillInv'
<1> DEFINE old == backfill[o]
           next == Fill!NextStart(old.page, old.from)
           stale == IF old.page = {} THEN old.stale + 1 ELSE 0
           more == [old EXCEPT !.at = "fetching", !.from = next, !.stale = stale, !.page = {}]
           me == IF next > old.end \/ stale = 3 THEN Fill!Quiet ELSE more
<1>1. /\ Fill!Become(o, me) /\ old.at = "storing" /\ old.todo = {} /\ cursor' = next - 1
      /\ excused' = excused \cup EventsOf(history, old.end + 1, next - 1)
      /\ history' = history /\ stored' = stored /\ jumped' = jumped /\ reindexed' = reindexed
  BY OfTheChain DEF Fill!Checkpoint
<1>2. /\ history \in Seq(Nat) /\ old \in Importing /\ reindexed \subseteq stored
      /\ ImportHonest(history, old, Known)
  BY <1>1, RunTypes DEF FillInv
<1>3. next \in Nat \ {0} /\ EventsOf(history, 1, next - 1) \subseteq Known \cup EventsOf(history, old.end + 1, next - 1)
  BY <1>1, <1>2, NextCovers
<1> HIDE DEF next
<1>4. EventsOf(history, 1, next - 1) \subseteq Known' /\ Known \subseteq Known' /\ stored \subseteq stored'
  BY <1>1, <1>3 DEF Known
<1>5. stale \in Nat
  BY <1>2 DEF Importing
<1> HIDE DEF stale
<1>6. more \in Importing /\ more.at = "fetching" /\ more.from = next
  BY <1>2, <1>3, <1>5 DEF Importing
<1> HIDE DEF more
<1>7. ImportHonest(history, more, Known') /\ ReindexHonest(history, more, stored')
  BY <1>4, <1>6 DEF ImportHonest, Imports, ReindexHonest, Clean
<1>8. me \in {Fill!Quiet} \cup Importing \cup Reindexing /\ ImportHonest(history, me, Known') /\ ReindexHonest(history, me, stored')
  BY <1>6, <1>7, QuietHonest
<1> HIDE DEF me
<1>9. cursor' \in Nat /\ reindexed' \subseteq stored' /\ EventsOf(history, 1, cursor') \subseteq Known'
  BY <1>1, <1>2, <1>3, <1>4
<1> QED  BY <1>1, <1>4, <1>8, <1>9, RunMoves

----------------------------------------------------------------------------
(* A reindex *)

LEMMA FillBeginReindex ==
  ASSUME FillInv, NEW o \in Operator, NEW first \in Fill!Ledgers, NEW last \in Fill!Ledgers,
         Fill!BeginReindex(o, first, last)
  PROVE  FillInv'
<1> DEFINE me == [at |-> "paging", from |-> first, end |-> last, position |-> <<first, 0>>,
                  page |-> {}, todo |-> {}, failed |-> FALSE]
<1>1. /\ history \in Seq(Nat) /\ cursor \in Nat /\ first \in Nat \ {0} /\ last \in Nat
      /\ EventsOf(history, 1, cursor) \subseteq Known /\ reindexed \subseteq stored
  BY DEF FillInv, FillTypes, Fill!Ledgers
<1>2. /\ Fill!Become(o, me)
      /\ history' = history /\ stored' = stored /\ cursor' = cursor /\ reindexed' = reindexed /\ excused' = excused /\ jumped' = jumped
  BY DEF Fill!BeginReindex
<1>3. \A e \in EventsOf(history, first, last) : Fill!Before(<<first, 0>>, e)
  <2> SUFFICES ASSUME NEW e \in EventsOf(history, first, last) PROVE Fill!Before(<<first, 0>>, e)
    OBVIOUS
  <2>1. e[1] \in Nat /\ e[2] \in Nat /\ first <= e[1] /\ 1 <= e[2]
    BY <1>1, EventsAre DEF Pair
  <2> QED  BY <1>1, <2>1 DEF Fill!Before
<1>4. me \in Reindexing
  BY <1>1 DEF Reindexing, Pair
<1>5. ImportHonest(history, me, Known') /\ ReindexHonest(history, me, stored')
  BY <1>3 DEF ImportHonest, ReindexHonest, Imports, Clean
<1> HIDE DEF me
<1>6. Known' = Known
  BY <1>2 DEF Known
<1> QED  BY <1>1, <1>2, <1>4, <1>5, <1>6, RunMoves

LEMMA AfterIs ==
  ASSUME NEW h \in Seq(Nat), NEW p \in Pair
  PROVE  /\ AfterOf(h, p) \in SUBSET Pair /\ AfterOf(h, p) \subseteq EventsOf(h, p[1], p[1] + ScanLimit - 1)
         /\ \A e \in AfterOf(h, p) : Fill!Before(p, e)
<1>1. p[1] \in Int /\ p[1] + ScanLimit - 1 \in Int
  BY InfraAssumption DEF Pair
<1>2. EventsOf(h, p[1], p[1] + ScanLimit - 1) \subseteq Pair
  BY <1>1, EventsAre
<1> QED  BY <1>2 DEF AfterOf, FirstEvents

LEMMA FillFetchAfter ==
  ASSUME FillInv, NEW o \in Operator, Fill!FetchAfter(o)
  PROVE  FillInv'
<1> DEFINE old == backfill[o]
           page == AfterOf(history, old.position)
           todo == {e \in page : e[1] <= old.end}
           me == [old EXCEPT !.at = "reindexing", !.page = page, !.todo = todo]
<1>1. /\ Fill!Become(o, me) /\ old.at = "paging" /\ excused' = excused /\ jumped' = jumped
      /\ history' = history /\ stored' = stored /\ cursor' = cursor /\ reindexed' = reindexed
  BY OfTheChain DEF Fill!FetchAfter
<1>2. /\ history \in Seq(Nat) /\ cursor \in Nat /\ old \in Reindexing
      /\ EventsOf(history, 1, cursor) \subseteq Known /\ reindexed \subseteq stored
      /\ ReindexHonest(history, old, stored)
  BY <1>1, RunTypes DEF FillInv
<1>3. page \in SUBSET Pair /\ old.position \in Pair
  BY <1>2, AfterIs DEF Reindexing
<1> DEFINE seen == page
           left == todo
<1>4. seen = AfterOf(history, old.position) /\ \A e \in seen : e[1] <= old.end => e \in left
  OBVIOUS
<1>5. seen \in SUBSET Pair /\ left \in SUBSET Pair /\ me = [old EXCEPT !.at = "reindexing", !.page = seen, !.todo = left]
  BY <1>3
<1> HIDE DEF seen, left
<1> HIDE DEF me
<1>6. /\ me \in Reindexing /\ me.at = "reindexing" /\ me.page = seen /\ me.todo = left /\ me.position = old.position
      /\ me.from = old.from /\ me.end = old.end /\ me.failed = old.failed
  BY <1>2, <1>5 DEF Reindexing
<1>7. ImportHonest(history, me, Known')
  BY <1>6 DEF ImportHonest, Imports
<1>8. ReindexHonest(history, me, stored')
  BY <1>1, <1>2, <1>4, <1>6 DEF ReindexHonest, Clean
<1>9. Known' = Known
  BY <1>1 DEF Known
<1>10. /\ cursor' \in Nat /\ stored \subseteq stored' /\ Known \subseteq Known'
       /\ EventsOf(history, 1, cursor') \subseteq Known' /\ reindexed' \subseteq stored'
  BY <1>1, <1>2, <1>9
<1> QED  BY <1>1, <1>6, <1>7, <1>8, <1>10, RunMoves

LEMMA FillStoreAgain ==
  ASSUME FillInv, NEW o \in Operator, NEW e, Fill!StoreAgain(o, e)
  PROVE  FillInv'
<1> DEFINE old == backfill[o]
           done == [old EXCEPT !.todo = @ \ {e}]
           failed == [old EXCEPT !.todo = @ \ {e}, !.failed = TRUE]
<1>1. /\ old.at = "reindexing" /\ excused' = excused /\ jumped' = jumped
      /\ (stored' = stored \cup {e} /\ Fill!Become(o, done)) \/ (stored' = stored /\ Fill!Become(o, failed))
      /\ history' = history /\ cursor' = cursor /\ reindexed' = reindexed
  BY DEF Fill!StoreAgain
<1>2. /\ history \in Seq(Nat) /\ cursor \in Nat /\ old \in Reindexing
      /\ EventsOf(history, 1, cursor) \subseteq Known /\ reindexed \subseteq stored
      /\ ReindexHonest(history, old, stored)
  BY <1>1, RunTypes DEF FillInv
<1>3. Known \subseteq Known' /\ stored \subseteq stored' /\ Known \subseteq Known'
  BY <1>1 DEF Known
<1>4. cursor' \in Nat /\ reindexed' \subseteq stored' /\ EventsOf(history, 1, cursor') \subseteq Known'
  BY <1>1, <1>2, <1>3
<1>5. /\ done \in Reindexing /\ done.at = "reindexing" /\ done.page = old.page /\ done.todo = old.todo \ {e}
      /\ done.position = old.position /\ done.from = old.from /\ done.end = old.end /\ done.failed = old.failed
  BY <1>1, <1>2 DEF Reindexing
<1>6. /\ failed \in Reindexing /\ failed.at = "reindexing" /\ failed.page = old.page /\ failed.failed
      /\ failed.position = old.position
  BY <1>1, <1>2 DEF Reindexing
<1> HIDE DEF done, failed
<1>7. CASE stored' = stored \cup {e} /\ Fill!Become(o, done)
  <2>1. ImportHonest(history, done, Known')
    BY <1>5 DEF ImportHonest, Imports
  <2>2. ReindexHonest(history, done, stored')
    BY <1>1, <1>2, <1>5, <1>7 DEF ReindexHonest, Clean
  <2> QED  BY <1>1, <1>3, <1>4, <1>5, <1>7, <2>1, <2>2, RunMoves
<1>8. CASE stored' = stored /\ Fill!Become(o, failed)
  <2>1. ImportHonest(history, failed, Known')
    BY <1>6 DEF ImportHonest, Imports
  <2>2. ReindexHonest(history, failed, stored')
    BY <1>1, <1>2, <1>6 DEF ReindexHonest, Clean
  <2> QED  BY <1>1, <1>3, <1>4, <1>6, <1>8, <2>1, <2>2, RunMoves
<1> QED  BY <1>1, <1>7, <1>8

\* Where the next page starts: after the last event of a full page, or at the first
\* ledger not looked at.
LEMMA ReachedIs ==
  ASSUME history \in Seq(Nat), NEW p \in Pair, NEW page, page = AfterOf(history, p)
  PROVE  /\ Fill!Reached(p) \in Pair
         /\ Fill!Cardinality(page) = Limit =>
              Fill!Reached(p) \in page /\ \A d \in page : ~Fill!Before(Fill!Reached(p), d)
         /\ Fill!Cardinality(page) # Limit =>
              /\ Fill!Reached(p)[2] = 0 /\ Fill!Reached(p)[1] <= p[1] + ScanLimit
              /\ Fill!Reached(p) = p => p[1] > Len(history)
<1>1. /\ page \in SUBSET Pair /\ page \subseteq EventsOf(history, p[1], p[1] + ScanLimit - 1)
      /\ p[1] \in Nat /\ p[1] \in Int /\ p[1] + ScanLimit - 1 \in Int
  BY AfterIs, InfraAssumption DEF Pair
<1>2. Fill!After(p) = page
  BY OfTheChain
<1>3. CASE Fill!Cardinality(page) = Limit
  <2>1. page # {}
    <3>1. Cardinality({}) = 0
      BY FS_EmptySet
    <3> QED  BY <1>3, <3>1, FillCardinality, InfraAssumption
  <2>2. \E m \in page : \A x \in page : ~Fill!Before(m, x)
    BY <1>1, <2>1, LastOf
  <2>3. Fill!Reached(p) = CHOOSE e \in page : \A d \in page : ~Fill!Before(e, d)
    BY <1>2, <1>3 DEF Fill!Reached
  <2>4. Fill!Reached(p) \in page /\ \A d \in page : ~Fill!Before(Fill!Reached(p), d)
    BY <2>2, <2>3
  <2> QED  BY <1>1, <1>3, <2>4
<1>4. CASE Fill!Cardinality(page) # Limit
  <2> DEFINE S == {p[1] + ScanLimit, Len(history) + 1}
             r == Fill!Min(S)
  <2>1. p[1] + ScanLimit \in Nat /\ Len(history) + 1 \in Nat
    BY <1>1, InfraAssumption
  <2>2. \E m \in S : \A x \in S : m <= x
    <3>1. CASE p[1] + ScanLimit <= Len(history) + 1
      BY <2>1, <3>1
    <3>2. CASE Len(history) + 1 <= p[1] + ScanLimit
      BY <2>1, <3>2
    <3> QED  BY <2>1, <3>1, <3>2
  <2>3. r \in S /\ \A x \in S : r <= x
    BY <2>2 DEF Fill!Min
  <2>4. r \in Nat /\ r <= p[1] + ScanLimit /\ (r = p[1] + ScanLimit \/ r = Len(history) + 1)
    BY <2>1, <2>3
  <2>5. Fill!Reached(p) = <<r, 0>>
    BY <1>2, <1>4 DEF Fill!Reached
  <2> HIDE DEF r
  <2>6. r = p[1] => p[1] > Len(history)
    BY <1>1, <2>1, <2>4, InfraAssumption
  <2>7. <<r, 0>>[1] = r /\ <<r, 0>>[2] = 0 /\ <<r, 0>> \in Pair
    BY <2>4 DEF Pair
  <2> QED  BY <1>4, <2>4, <2>5, <2>6, <2>7
<1> QED  BY <1>3, <1>4

\* A reindex that has stored its page leaves nothing of its range behind the next one,
\* and nothing at all when it ends.
LEMMA PageIsDone ==
  ASSUME history \in Seq(Nat), NEW me \in Reindexing, NEW kept, ReindexHonest(history, me, kept),
         me.at = "reindexing", me.todo = {}, ~me.failed,
         NEW e \in EventsOf(history, me.from, me.end),
         Fill!EndsAt(me) \/ ~Fill!Before(Fill!Reached(me.position), e)
  PROVE  e \in kept
<1> DEFINE p == me.position
           page == me.page
           window == {d \in EventsOf(history, p[1], p[1] + ScanLimit - 1) : Fill!Before(p, d)}
<1>1. /\ me.from \in Nat /\ me.end \in Nat /\ p \in Pair /\ page = AfterOf(history, p)
      /\ \A d \in EventsOf(history, me.from, me.end) : ~Fill!Before(p, d) => d \in kept
      /\ \A d \in page : d[1] <= me.end => d \in kept
  BY DEF Reindexing, ReindexHonest, Clean
<1>2. p[1] \in Nat /\ p[1] + ScanLimit - 1 \in Int /\ p[2] \in Nat /\ p[1] \in Int
  BY <1>1, InfraAssumption DEF Pair
<1>3. e \in Pair /\ e[1] \in Nat /\ e[2] \in Nat /\ 1 <= e[2] /\ e[1] <= me.end /\ e[1] <= Len(history)
  BY <1>1, EventsAre DEF Pair
<1>4. /\ Fill!Reached(p) \in Pair
      /\ Fill!Cardinality(page) = Limit =>
           Fill!Reached(p) \in page /\ \A d \in page : ~Fill!Before(Fill!Reached(p), d)
      /\ Fill!Cardinality(page) # Limit =>
           /\ Fill!Reached(p)[2] = 0 /\ Fill!Reached(p)[1] <= p[1] + ScanLimit
           /\ Fill!Reached(p) = p => p[1] > Len(history)
  BY <1>1, ReachedIs
<1> DEFINE reached == Fill!Reached(p)
<1>5. (\E d \in page : d[1] > me.end) \/ reached = p \/ ~Fill!Before(reached, e)
  BY DEF Fill!EndsAt
<1> HIDE DEF reached, page, p
<1>6. page = FirstEvents(window)
  BY <1>1 DEF AfterOf
<1>7. window \subseteq EventsOf(history, p[1], p[1] + ScanLimit - 1) /\ page \subseteq window
  BY <1>6 DEF FirstEvents
<1>8. \A d \in page : d \in window /\ d \in Pair /\ d[1] \in Nat /\ Fill!Before(p, d) /\ d[1] <= p[1] + ScanLimit - 1
  BY <1>2, <1>7, EventsAre DEF Pair
<1>9. ASSUME Fill!Before(p, e), e[1] <= p[1] + ScanLimit - 1 PROVE e \in window
  <2>1. p[1] <= e[1]
    BY <1>2, <1>3, <1>9 DEF Fill!Before
  <2>2. e \in EventsOf(history, p[1], p[1] + ScanLimit - 1)
    BY <1>1, <1>2, <1>9, <2>1, EventRange
  <2> QED  BY <1>9, <2>2
<1> HIDE DEF window
<1>10. /\ IsFiniteSet(window) /\ window \subseteq Pair
       /\ window # page => Fill!Cardinality(page) = Limit
  BY <1>2, <1>6, <1>7, PageIsFull
<1>11. ASSUME Fill!Before(p, e), NEW d \in page, Fill!Before(e, d) PROVE e \in kept
  <2>1. e[1] <= d[1]
    BY <1>3, <1>8, <1>11, BeforeIsAnOrder
  <2>2. e[1] <= p[1] + ScanLimit - 1
    BY <1>2, <1>3, <1>8, <2>1, InfraAssumption
  <2>3. e \in window
    BY <1>9, <1>11, <2>2
  <2>4. e \in page
    BY <1>6, <1>10, <1>11, <2>3, PageIsClosed
  <2> QED  BY <1>1, <1>3, <2>4
<1>12. CASE ~Fill!Before(p, e)
  BY <1>1, <1>12
<1>13. CASE Fill!Before(p, e) /\ \E d \in page : d[1] > me.end
  <2>1. PICK d \in page : d[1] > me.end
    BY <1>13
  <2>2. Fill!Before(e, d)
    <3>1. e[1] < d[1]
      BY <1>1, <1>3, <1>8, <2>1
    <3> QED  BY <3>1 DEF Fill!Before
  <2> QED  BY <1>11, <1>13, <2>1, <2>2
<1>14. CASE Fill!Before(p, e) /\ Fill!Cardinality(page) = Limit /\ (reached = p \/ ~Fill!Before(reached, e))
  <2>1. reached \in page /\ reached \in Pair /\ p \in Pair
    BY <1>1, <1>4, <1>14 DEF reached
  <2>2. Fill!Before(p, reached)
    BY <1>8, <2>1
  <2>3. ~Fill!Before(reached, e)
    BY <1>14, <2>1, <2>2, BeforeIsAnOrder
  <2>4. CASE e = reached
    BY <1>1, <1>3, <2>1, <2>4
  <2>5. CASE Fill!Before(e, reached)
    BY <1>11, <1>14, <2>1, <2>5
  <2> QED  BY <1>3, <2>1, <2>3, <2>4, <2>5, BeforeIsAnOrder
<1>15. CASE Fill!Before(p, e) /\ Fill!Cardinality(page) # Limit /\ (reached = p \/ ~Fill!Before(reached, e))
  <2>1. reached \in Pair /\ reached[2] = 0 /\ reached[1] <= p[1] + ScanLimit /\ (reached = p => p[1] > Len(history))
    BY <1>4, <1>15 DEF reached
  <2>2. p[1] <= e[1] /\ Len(history) \in Nat
    BY <1>2, <1>3, <1>15 DEF Fill!Before
  <2>3. reached # p
    BY <1>2, <1>3, <2>1, <2>2
  <2>4. reached[1] \in Nat
    BY <2>1 DEF Pair
  <2>5. e[1] < reached[1]
    BY <1>3, <1>15, <2>1, <2>3, <2>4 DEF Fill!Before
  <2>6. e[1] <= p[1] + ScanLimit - 1
    BY <1>2, <1>3, <2>1, <2>4, <2>5, InfraAssumption
  <2>7. e \in window /\ window = page
    BY <1>9, <1>10, <1>15, <2>6
  <2> QED  BY <1>1, <1>3, <2>7
<1> QED  BY <1>5, <1>12, <1>13, <1>14, <1>15

LEMMA FillNextPage ==
  ASSUME FillInv, NEW o \in Operator, Fill!NextPage(o)
  PROVE  FillInv'
<1> DEFINE old == backfill[o]
           reached == Fill!Reached(old.position)
           ends == Fill!EndsAt(old)
           more == [old EXCEPT !.at = "paging", !.page = {}, !.position = reached]
           me == IF ends THEN Fill!Quiet ELSE more
<1>1. /\ Fill!Become(o, me) /\ old.at = "reindexing" /\ old.todo = {} /\ excused' = excused /\ jumped' = jumped
      /\ reindexed' = IF ends /\ ~old.failed THEN reindexed \cup EventsOf(history, old.from, old.end) ELSE reindexed
      /\ history' = history /\ stored' = stored /\ cursor' = cursor
  BY OfTheChain DEF Fill!NextPage
<1>2. /\ history \in Seq(Nat) /\ cursor \in Nat /\ old \in Reindexing
      /\ EventsOf(history, 1, cursor) \subseteq Known /\ reindexed \subseteq stored
      /\ ReindexHonest(history, old, stored)
  BY <1>1, RunTypes DEF FillInv
<1>3. \A e \in EventsOf(history, old.from, old.end) :
        ~old.failed /\ (ends \/ ~Fill!Before(reached, e)) => e \in stored
  BY <1>1, <1>2, PageIsDone
<1>4. reached \in Pair
  <2>1. old.position \in Pair /\ old.page = AfterOf(history, old.position)
    BY <1>1, <1>2 DEF Reindexing, ReindexHonest
  <2> QED  BY <1>2, <2>1, ReachedIs
<1>5. Known' = Known
  BY <1>1 DEF Known
<1>6. reindexed' \subseteq stored'
  BY <1>1, <1>2, <1>3
<1> HIDE DEF reached, ends
<1>7. /\ more \in Reindexing /\ more.at = "paging" /\ more.position = reached
      /\ more.from = old.from /\ more.end = old.end /\ more.failed = old.failed
  BY <1>2, <1>4 DEF Reindexing
<1> HIDE DEF more
<1>8. ImportHonest(history, more, Known') /\ ReindexHonest(history, more, stored')
  BY <1>1, <1>3, <1>7 DEF ImportHonest, Imports, ReindexHonest, Clean
<1>9. me \in {Fill!Quiet} \cup Importing \cup Reindexing /\ ImportHonest(history, me, Known') /\ ReindexHonest(history, me, stored')
  BY <1>7, <1>8, QuietHonest
<1> HIDE DEF me
<1>10. /\ cursor' \in Nat /\ stored \subseteq stored' /\ Known \subseteq Known'
       /\ EventsOf(history, 1, cursor') \subseteq Known'
  BY <1>1, <1>2, <1>5
<1> QED  BY <1>1, <1>6, <1>9, <1>10, RunMoves

LEMMA FillStop ==
  ASSUME FillInv, NEW o \in Operator, Fill!Stop(o)
  PROVE  FillInv'
<1>1. /\ Fill!Become(o, Fill!Quiet) /\ history' = history /\ stored' = stored /\ cursor' = cursor
      /\ excused' = excused /\ jumped' = jumped /\ reindexed' = reindexed
  BY DEF Fill!Stop
<1>2. Known' = Known /\ cursor \in Nat /\ EventsOf(history, 1, cursor) \subseteq Known /\ reindexed \subseteq stored
  BY <1>1 DEF Known, FillInv, FillTypes
<1>3. ImportHonest(history, Fill!Quiet, Known') /\ ReindexHonest(history, Fill!Quiet, stored')
  BY QuietHonest
<1>4. cursor' \in Nat /\ EventsOf(history, 1, cursor') \subseteq Known' /\ reindexed' \subseteq stored'
      /\ stored \subseteq stored' /\ Known \subseteq Known'
  BY <1>1, <1>2
<1> DEFINE me == Fill!Quiet
<1>5. me \in {Fill!Quiet} \cup Importing \cup Reindexing
  OBVIOUS
<1> QED  BY <1>1, <1>3, <1>4, <1>5, RunMoves

\* The poller, or nobody, moves: runs stay as they are.
LEMMA RunsStay ==
  ASSUME FillInv, history' = history, backfill' = backfill, stored' = stored, reindexed' = reindexed,
         Known \subseteq Known', cursor' \in Nat, EventsOf(history, 1, cursor') \subseteq Known'
  PROVE  FillInv'
<1>1. /\ history \in Seq(Nat) /\ backfill' \in [Operator -> {Fill!Quiet} \cup Importing \cup Reindexing]
      /\ reindexed' \subseteq stored'
  BY DEF FillInv, FillTypes
<1>2. ASSUME NEW p \in Operator
      PROVE  ImportHonest(history, backfill'[p], Known') /\ ReindexHonest(history, backfill'[p], stored')
  <2>1. ImportHonest(history, backfill[p], Known) /\ ReindexHonest(history, backfill[p], stored)
    BY DEF FillInv
  <2>2. ImportHonest(history, backfill[p], Known')
    BY <2>1, StillHonest
  <2>3. backfill'[p] = backfill[p]
    OBVIOUS
  <2> QED  BY <2>1, <2>2, <2>3
<1> QED  BY <1>1, <1>2, FillConclude

LEMMA FillPoller ==
  ASSUME FillInv, NEW l \in Fill!Ledgers, Fill!PollerRecords(l)
  PROVE  FillInv'
<1>1. /\ cursor' = l /\ excused' = excused \cup EventsOf(history, 1, l) /\ jumped' = jumped
      /\ history' = history /\ backfill' = backfill /\ stored' = stored /\ reindexed' = reindexed
  BY OfTheChain DEF Fill!PollerRecords
<1>2. l \in Nat
  BY DEF FillInv, FillTypes, Fill!Ledgers
<1>3. EventsOf(history, 1, cursor') \subseteq Known' /\ Known \subseteq Known'
  BY <1>1 DEF Known
<1> QED  BY <1>1, <1>2, <1>3, RunsStay

LEMMA FillAlways == InfraSpec => []FillInv
<1>1. InfraInit => FillInv
  BY FillInit DEF InfraInit
<1>2. FillInv /\ [InfraNext]_allVars => FillInv'
  <2>1. FillInv /\ UNCHANGED backfillVars => FillInv'
    <3> SUFFICES ASSUME FillInv, UNCHANGED backfillVars PROVE FillInv'
      OBVIOUS
    <3>1. /\ history' = history /\ backfill' = backfill /\ stored' = stored /\ reindexed' = reindexed
          /\ excused' = excused /\ jumped' = jumped /\ cursor' = cursor
      BY DEF backfillVars
    <3>2. cursor \in Nat /\ EventsOf(history, 1, cursor) \subseteq Known /\ Known' = Known
      BY <3>1 DEF FillInv, FillTypes, Known
    <3>3. cursor' \in Nat /\ EventsOf(history, 1, cursor') \subseteq Known' /\ Known \subseteq Known'
      BY <3>1, <3>2
    <3> QED  BY <3>1, <3>3, RunsStay
  <2>2. FillInv /\ Fill!Next => FillInv'
    BY FillBegin, FillFetch, FillStore, FillCheckpoint, FillBeginReindex, FillFetchAfter, FillStoreAgain,
       FillNextPage, FillStop, FillPoller DEF Fill!Next
  <2> QED  BY <2>1, <2>2 DEF InfraNext, allVars
<1> QED  BY <1>1, <1>2, PTL DEF InfraSpec

\* What the checkpoint covers is stored, or was passed over in one of the ways the backfill
\* has, and what a reindex without failures claims is stored, whatever the chain holds and
\* wherever runs stop, resume or overlap (recordProgress, fetchAllInRange, reindexRange).
THEOREM BackfillIsHonest == InfraSpec => []ClaimsAreHonest
<1>1. FillInv => ClaimsAreHonest
  BY OfTheChain DEF FillInv, Known, ClaimsAreHonest, Fill!ClaimsAreHonest
<1> QED  BY <1>1, FillAlways, PTL
=============================================================================
