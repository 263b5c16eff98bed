--------------------------- MODULE UserRowProofs ---------------------------
(***************************************************************************)
(* Proofs about UserRow for any number of requests, codes and applications. *)
(***************************************************************************)
EXTENDS UserRow, FiniteSetTheorems, TLAPS

Holding(c) == {v \in UserWriter : Holds(v, c)}

\* While a code is in the row, every time it was taken before is paid for by a
\* copy or body that put it back; once it is out, so is each of the copies that
\* remain.
\* A code that nobody drew is nowhere.
CodeInv(c) ==
    /\ c \in user.codes => accepted[c] <= holders[c]
    /\ c \notin user.codes => accepted[c] + Cardinality(Holding(c)) <= 1 + holders[c]
    /\ c \notin UNION drawnSets =>
         accepted[c] = 0 /\ Holding(c) = {} /\ c \notin user.codes

\* An approval that is about to be shown stands, and so does one that is shown.
BadgeInv ==
    parted \/ /\ (user.verified \/ \E w \in UserWriter : task[w].at = "showing") => Approved # {}
              /\ Approved # {} => user.verified \/ \E w \in UserWriter : task[w].at = "showing"

Saving ==
    [at : {"saving"}, op : {"edit", "link", "enable", "disable"}, copy : User]
    \cup [at : {"saving"}, op : {"login"}, copy : User, code : Code]

LEMMA SavingTask ==
  ASSUME TypeOK, NEW w \in UserWriter, task[w].at = "saving"
  PROVE  task[w] \in Saving /\ task[w].copy \in User /\ (task[w].op = "login" => task[w].code \in Code)
<1>1. task[w] \in Task
  BY DEF TypeOK
<1>2. task[w] \in Saving
  BY <1>1 DEF Task, NoTask, Saving
<1> QED  BY <1>2 DEF Saving

LEMMA DecidingTask ==
  ASSUME TypeOK, NEW w \in UserWriter
  PROVE  /\ task[w].at = "deciding" => task[w].of \in Application /\ task[w].verdict \in {"approved", "rejected"}
         /\ task[w].at = "revising" => task[w].of \in Application
<1>1. task[w] \in Task
  BY DEF TypeOK
<1> QED  BY <1>1 DEF Task, NoTask

\* The services that change other columns, and the Privy login that links.
CopiesRow(w) == OtherColumns(w) \/ LinkPrivy(w)

LEMMA RowIsCopied ==
  ASSUME NEW w \in UserWriter, CopiesRow(w)
  PROVE  \E op \in {"edit", "link"} :
            Begin(w, Copy(op, user)) /\ UNCHANGED <<user, application, drawnSets, accepted, holders, parted>>
<1>1. Edit(w) \/ LinkPrivy(w)
  BY DEF CopiesRow, OtherColumns, UpdateProfile, UpdateAccountProfile, AssignRole, SetAccountType, UpgradeToArtist, VerifyEmail, ForgotPassword, ResetPassword, ConnectTwitter,
         DisconnectTwitter, ConnectStellarWallet, SubmitOnChainSetup, PrivyLogin, PrivyUserUpdated,
         PrivyUserLinkedAccount, HandleUserUpdated, HandleLinkedAccount
<1> QED  BY <1>1 DEF Edit, LinkPrivy

\* The services that assign the body of the request.
AssignsBody(w) == UpdateUser(w) \/ UpdateArtistProfile(w)

LEMMA BodyIsAssigned ==
  ASSUME TypeOK, NEW w \in UserWriter, AssignsBody(w)
  PROVE  \E row \in User :
            /\ row.codes \subseteq UNION drawnSets
            /\ Begin(w, Copy("edit", row))
            /\ holders' = [c \in Code |-> holders[c] + IF c \in row.codes \ user.codes THEN 1 ELSE 0]
            /\ UNCHANGED <<user, application, drawnSets, accepted, parted>>
<1>1. Assign(w)
  BY DEF AssignsBody, UpdateUser, UpdateArtistProfile
<1>2. UNION drawnSets \subseteq Code
  BY DEF TypeOK, Code
<1> QED  BY <1>1, <1>2 DEF Assign, User

\* What becomes of a request that saved: it ends, or has the same copy left.
LEMMA AfterSave ==
  ASSUME TypeOK, NEW w \in UserWriter, Save(w)
  PROVE  \/ Go(w, NoTask)
         \/ /\ task[w].op = "link"
            /\ Go(w, [at |-> "saving", op |-> "edit", copy |-> task[w].copy])
<1>1. task[w] \in Saving
  BY SavingTask DEF Save
<1>2. PICK next \in Rest(task[w]) : Go(w, next)
  BY DEF Save
<1>3. CASE next # NoTask
  <2>1. task[w].op = "link" /\ next = [task[w] EXCEPT !.op = "edit"]
    BY <1>2, <1>3 DEF Rest
  <2>2. next = [at |-> "saving", op |-> "edit", copy |-> task[w].copy]
    BY <1>1, <2>1 DEF Saving
  <2> QED  BY <1>2, <2>1, <2>2
<1> QED  BY <1>2, <1>3

LEMMA InitTypeOK == Init => TypeOK
<1> SUFFICES ASSUME Init PROVE TypeOK
  OBVIOUS
<1>1. 0 \in 0..MaxTasks
  BY UserRowAssumption
<1>2. user \in User
  BY DEF Init, User
<1> QED  BY <1>1, <1>2 DEF Init, TypeOK, Task

\* A step that moves one request on and leaves the rest of the right type.
LEMMA TypeStep ==
  ASSUME TypeOK, [Next]_vars
  PROVE  TypeOK'
<1> USE DEF TypeOK
<1>0. CASE UNCHANGED vars
  BY <1>0 DEF vars
<1>a. ASSUME NEW w \in UserWriter, NEW next \in Task, Go(w, next) PROVE task' \in [UserWriter -> Task]
  BY <1>a DEF Go
<1>b. ASSUME NEW w \in UserWriter, NEW next \in Task, Begin(w, next)
      PROVE  task' \in [UserWriter -> Task] /\ tasks' \in 0..MaxTasks
  <2>1. tasks' \in 0..MaxTasks
    BY <1>b, UserRowAssumption DEF Begin
  <2> QED  BY <1>a, <1>b, <2>1 DEF Begin
<1>n. NoTask \in Task
  BY DEF Task
<1>m. \A at \in {"looking", "inserting", "checking", "clearing", "showing"} : [at |-> at] \in Task
  BY DEF Task
<1>1. ASSUME NEW w \in UserWriter, Save(w) PROVE TypeOK'
  <2>1. task[w] \in Saving /\ task[w].copy \in User /\ (task[w].op = "login" => task[w].code \in Code)
    BY <1>1, SavingTask DEF Save
  <2>2. user' \in User
    BY <1>1, <2>1 DEF Save, Written, User
  <2>3. holders' \in [Code -> Nat]
    <3>1. \A c \in Code : Cardinality({v \in UserWriter \ {w} : Holds(v, c)}) \in Nat
      <4> TAKE c \in Code
      <4>1. IsFiniteSet({v \in UserWriter \ {w} : Holds(v, c)})
        BY UserRowAssumption, FS_Subset
      <4> QED  BY <4>1, FS_CardinalityType
    <3> QED  BY <1>1, <3>1 DEF Save
  <2>4. accepted' \in [Code -> Nat]
    BY <1>1, <2>1 DEF Save
  <2>5. task' \in [UserWriter -> Task]
    <3>1. [at |-> "saving", op |-> "edit", copy |-> task[w].copy] \in Task
      BY <2>1 DEF Task
    <3> QED  BY <1>1, <1>a, <1>n, <3>1, AfterSave
  <2> QED  BY <1>1, <2>2, <2>3, <2>4, <2>5 DEF Save
<1>2. ASSUME NEW w \in UserWriter, SaveFails(w) \/ Die(w) PROVE TypeOK'
  BY <1>2, <1>a, <1>n DEF SaveFails, Die
<1>3. ASSUME NEW w \in UserWriter, CopiesRow(w) \/ DisableTwoFactor(w) PROVE TypeOK'
  <2>1. /\ Copy("edit", user) \in Task /\ Copy("link", user) \in Task
        /\ Copy("disable", [user EXCEPT !.enabled = FALSE]) \in Task
    BY DEF Copy, Task, User
  <2> QED  BY <1>3, <1>b, <2>1, RowIsCopied DEF DisableTwoFactor
<1>12. ASSUME NEW w \in UserWriter, AssignsBody(w) PROVE TypeOK'
  <2>1. PICK row \in User :
          /\ Begin(w, Copy("edit", row))
          /\ holders' = [c \in Code |-> holders[c] + IF c \in row.codes \ user.codes THEN 1 ELSE 0]
          /\ UNCHANGED <<user, application, drawnSets, accepted, parted>>
    BY <1>12, BodyIsAssigned
  <2>2. Copy("edit", row) \in Task
    BY DEF Copy, Task
  <2>3. holders' \in [Code -> Nat]
    BY <2>1
  <2> QED  BY <1>b, <2>1, <2>2, <2>3
<1>4. ASSUME NEW w \in UserWriter, EnableTwoFactor(w) PROVE TypeOK'
  <2>1. PICK codes \in CodeSet \ drawnSets :
           /\ Begin(w, Copy("enable", [user EXCEPT !.enabled = TRUE, !.codes = codes]))
           /\ drawnSets' = drawnSets \cup {codes}
           /\ UNCHANGED <<user, application, accepted, holders, parted>>
    BY <1>4 DEF EnableTwoFactor
  <2>2. Copy("enable", [user EXCEPT !.enabled = TRUE, !.codes = codes]) \in Task
    BY DEF Copy, Task, User, Code
  <2> QED  BY <1>b, <2>1, <2>2
<1>5. ASSUME NEW w \in UserWriter, NEW c \in Code, LogInWithCode(w, c) PROVE TypeOK'
  <2>1. [at |-> "saving", op |-> "login", code |-> c, copy |-> [user EXCEPT !.codes = @ \ {c}]] \in Task
    BY DEF Task, User
  <2> QED  BY <1>5, <1>b, <2>1 DEF LogInWithCode
<1>6. ASSUME NEW w \in UserWriter, Apply(w) \/ FindPending(w) PROVE TypeOK'
  <2>1. \A a \in Application : [at |-> "revising", of |-> a] \in Task
    BY DEF Task
  <2> QED  BY <1>6, <1>a, <1>b, <1>m, <2>1 DEF Apply, FindPending, Outstanding
<1>7. ASSUME NEW w \in UserWriter, Insert(w) PROVE TypeOK'
  BY <1>7, <1>a, <1>n DEF Insert
<1>8. ASSUME NEW w \in UserWriter, Revise(w) PROVE TypeOK'
  BY <1>8, <1>a, <1>n, DecidingTask DEF Revise
<1>9. ASSUME NEW w \in UserWriter, NEW a \in Application, NEW verdict \in {"approved", "rejected"}, Decide(w, a, verdict)
      PROVE  TypeOK'
  <2>1. [at |-> "deciding", of |-> a, verdict |-> verdict] \in Task
    BY DEF Task
  <2> QED  BY <1>9, <1>b, <2>1 DEF Decide
<1>10. ASSUME NEW w \in UserWriter, SaveDecision(w) PROVE TypeOK'
  BY <1>10, <1>a, <1>m, DecidingTask DEF SaveDecision
<1>11. ASSUME NEW w \in UserWriter, ShowBadge(w) \/ CheckOthers(w) \/ ClearBadge(w) PROVE TypeOK'
  BY <1>11, <1>a, <1>m, <1>n DEF ShowBadge, CheckOthers, ClearBadge, User
<1> QED
  BY <1>0, <1>1, <1>2, <1>3, <1>4, <1>5, <1>6, <1>7, <1>8, <1>9, <1>10, <1>11, <1>12
     DEF Next, CopiesRow, AssignsBody

\* The types of the row and of the requests, in any number.
THEOREM UserRowTypeOK == Spec => []TypeOK
<1>1. Init => TypeOK
  BY InitTypeOK
<1>2. TypeOK /\ [Next]_vars => TypeOK'
  BY TypeStep
<1> QED  BY <1>1, <1>2, PTL DEF Spec

----------------------------------------------------------------------------
(* Recovery codes *)

\* A login's copy is without the code it is about to take.
LoginTakesOut ==
    \A w \in UserWriter :
        task[w].at = "saving" /\ task[w].op = "login" => task[w].code \notin task[w].copy.codes

CodesInv == LoginTakesOut /\ \A c \in Code : CodeInv(c)

LEMMA HoldingIsFinite ==
  ASSUME NEW c
  PROVE  IsFiniteSet(Holding(c)) /\ Cardinality(Holding(c)) \in Nat
<1>1. IsFiniteSet(Holding(c))
  BY UserRowAssumption, FS_Subset DEF Holding
<1> QED  BY <1>1, FS_CardinalityType

\* A request that ends no longer holds a copy.
LEMMA EndingDrops ==
  ASSUME TypeOK, NEW w \in UserWriter, NEW c, Go(w, NoTask)
  PROVE  Holding(c)' = Holding(c) \ {w}
<1>1. task'[w].at # "saving"
  BY DEF TypeOK, Go, NoTask
<1>2. \A v \in UserWriter \ {w} : task'[v] = task[v]
  BY DEF TypeOK, Go
<1> QED  BY <1>1, <1>2 DEF Holding, Holds

\* A request that saved a copy without c no longer holds one with it.
LEMMA SavingDrops ==
  ASSUME TypeOK, NEW w \in UserWriter, NEW c \in Code, Save(w), c \notin user'.codes
  PROVE  Holding(c)' = Holding(c) \ {w}
<1>1. CASE Go(w, NoTask)
  BY <1>1, EndingDrops
<1>2. CASE task[w].op = "link" /\ Go(w, [at |-> "saving", op |-> "edit", copy |-> task[w].copy])
  <2>1. task'[w] = [at |-> "saving", op |-> "edit", copy |-> task[w].copy]
    BY <1>2 DEF TypeOK, Go
  <2>2. c \notin task[w].copy.codes
    BY <1>2 DEF Save, Written
  <2>3. ~Holds(w, c)'
    BY <2>1, <2>2 DEF Holds
  <2>4. \A v \in UserWriter \ {w} : Holds(v, c)' <=> Holds(v, c)
    BY <1>2 DEF TypeOK, Go, Holds
  <2> QED  BY <2>3, <2>4 DEF Holding
<1> QED  BY <1>1, <1>2, AfterSave

\* A request that holds no copy with c before its step and none after it.
LEMMA OthersHold ==
  ASSUME TypeOK, NEW w \in UserWriter, NEW c, NEW next, Go(w, next),
         task[w].at # "saving",
         \/ next.at # "saving" \/ next.op = "disable"
         \/ c \notin next.copy.codes /\ ~(next.op = "login" /\ next.code = c)
  PROVE  Holding(c)' = Holding(c)
<1>1. task'[w] = next
  BY DEF TypeOK, Go
<1>2. \A v \in UserWriter \ {w} : task'[v] = task[v]
  BY DEF TypeOK, Go
<1>3. ~Holds(w, c)
  BY DEF Holds
<1>4. ~Holds(w, c)'
  BY <1>1 DEF Holds
<1>5. \A v \in UserWriter \ {w} : Holds(v, c)' <=> Holds(v, c)
  BY <1>2 DEF Holds
<1> QED  BY <1>3, <1>4, <1>5 DEF Holding

\* A step of a request that leaves the row's codes and the counts alone.
LEMMA CodesStay ==
  ASSUME TypeOK, NEW c \in Code, CodeInv(c), user'.codes = user.codes,
         drawnSets' = drawnSets, accepted' = accepted, holders' = holders,
         c \notin user.codes => Holding(c)' \subseteq Holding(c)
  PROVE  CodeInv(c)'
<1>1. CASE c \in user.codes
  BY <1>1 DEF CodeInv
<1>2. CASE c \notin user.codes
  <2>1. Cardinality(Holding(c)') <= Cardinality(Holding(c))
    BY <1>2, HoldingIsFinite, FS_Subset
  <2>2. Cardinality(Holding(c)) \in Nat /\ Cardinality(Holding(c)') \in Nat
    BY <1>2, HoldingIsFinite, FS_Subset, FS_CardinalityType
  <2>3. accepted[c] + Cardinality(Holding(c)') <= 1 + holders[c]
    BY <1>2, <2>1, <2>2 DEF CodeInv, TypeOK
  <2> QED  BY <1>2, <2>3 DEF CodeInv
<1> QED  BY <1>1, <1>2

\* Saving a copy, for a code in the row.
LEMMA SaveOfCodeInRow ==
  ASSUME TypeOK, LoginTakesOut, NEW w \in UserWriter, NEW c \in Code, CodeInv(c), Save(w), c \in user.codes
  PROVE  CodeInv(c)'
<1> DEFINE me == task[w]
<1>1. c \notin user'.codes => Holding(c)' = Holding(c) \ {w}
  BY SavingDrops
<1>2. c \notin user'.codes => Cardinality(Holding(c)') \in Nat
  BY <1>1, HoldingIsFinite, FS_Subset, FS_CardinalityType
<1>3. accepted[c] <= holders[c] /\ accepted[c] \in Nat /\ holders[c] \in Nat
  BY DEF CodeInv, TypeOK
<1>4. c \in UNION drawnSets' 
  BY DEF CodeInv, Save
<1>5. CASE c \in user'.codes
  <2>1. holders'[c] = holders[c]
    BY <1>3, <1>5 DEF Save
  <2>2. ~(me.op = "login" /\ me.code = c)
    BY <1>5 DEF Save, Written, LoginTakesOut
  <2>3. accepted'[c] = accepted[c]
    BY <2>2 DEF Save, TypeOK
  <2> QED  BY <1>3, <1>4, <1>5, <2>1, <2>3 DEF CodeInv
<1>6. CASE c \notin user'.codes
  <2>1. {v \in UserWriter \ {w} : Holds(v, c)} = Holding(c)'
    BY <1>1, <1>6 DEF Holding
  <2>2. holders'[c] = holders[c] + Cardinality(Holding(c)')
    BY <1>6, <2>1 DEF Save
  <2>3. accepted'[c] <= accepted[c] + 1 /\ accepted'[c] \in Nat
    BY <1>3, SavingTask DEF Save, TypeOK
  <2>4. accepted'[c] + Cardinality(Holding(c)') <= 1 + holders'[c]
    BY <1>2, <1>3, <1>6, <2>2, <2>3
  <2> QED  BY <1>4, <1>6, <2>4 DEF CodeInv
<1> QED  BY <1>5, <1>6

\* Saving a copy, for a code that is not in the row.
LEMMA SaveOfCodeGone ==
  ASSUME TypeOK, LoginTakesOut, NEW w \in UserWriter, NEW c \in Code, CodeInv(c), Save(w), c \notin user.codes
  PROVE  CodeInv(c)'
<1> DEFINE me == task[w]
           H == Holding(c)
<1>1. c \notin user'.codes => Holding(c)' = H \ {w}
  BY SavingDrops
<1>2. IsFiniteSet(H) /\ Cardinality(H) \in Nat
  BY HoldingIsFinite
<1>3. /\ accepted[c] + Cardinality(H) <= 1 + holders[c]
      /\ accepted[c] \in Nat /\ holders[c] \in Nat
  BY DEF CodeInv, TypeOK
<1>4. holders'[c] = holders[c]
  BY <1>3 DEF Save
<1>5. w \in H => Cardinality(H \ {w}) = Cardinality(H) - 1
  BY <1>2, FS_RemoveElement
<1>6. w \notin H => H \ {w} = H
  OBVIOUS
<1>7. me \in Saving /\ (me.op = "login" => me.code \in Code)
  BY SavingTask DEF Save
<1>8. c \notin UNION drawnSets => w \notin H /\ accepted[c] = 0
  BY DEF CodeInv
<1>9. CASE c \in user'.codes
  <2>1. w \in H /\ ~(me.op = "login" /\ me.code = c)
    BY <1>9 DEF Save, Written, Holding, Holds, LoginTakesOut
  <2>2. accepted'[c] = accepted[c]
    BY <2>1 DEF Save, TypeOK
  <2>3. Cardinality(H \ {w}) \in Nat
    BY <1>2, FS_Subset, FS_CardinalityType
  <2>4. accepted'[c] <= holders'[c]
    BY <1>2, <1>3, <1>4, <1>5, <2>1, <2>2, <2>3
  <2>5. c \in UNION drawnSets'
    BY <1>8, <2>1 DEF Save
  <2> QED  BY <1>9, <2>4, <2>5 DEF CodeInv
<1>10. CASE c \notin user'.codes
  <2>1. CASE me.op = "login" /\ me.code = c
    <3>1. w \in H
      BY <2>1 DEF Save, Holding, Holds
    <3>2. accepted'[c] = accepted[c] + 1
      BY <2>1 DEF Save, TypeOK
    <3>3. accepted'[c] + Cardinality(Holding(c)') <= 1 + holders'[c]
      <4>1. Cardinality(Holding(c)') = Cardinality(H) - 1
        BY <1>1, <1>5, <1>10, <3>1
      <4> QED  BY <1>2, <1>3, <1>4, <3>2, <4>1
    <3>4. c \in UNION drawnSets'
      BY <1>8, <3>1 DEF Save
    <3> QED  BY <1>10, <3>3, <3>4 DEF CodeInv
  <2>2. CASE ~(me.op = "login" /\ me.code = c)
    <3>1. accepted'[c] = accepted[c]
      BY <2>2 DEF Save, TypeOK
    <3>2. Cardinality(Holding(c)') <= Cardinality(H) /\ Cardinality(Holding(c)') \in Nat
      BY <1>1, <1>2, <1>10, FS_Subset, FS_CardinalityType
    <3>5. accepted'[c] + Cardinality(Holding(c)') <= 1 + holders'[c]
      BY <1>2, <1>3, <1>4, <3>1, <3>2
    <3>3. drawnSets' = drawnSets
      BY DEF Save
    <3>4. c \notin UNION drawnSets => Holding(c)' = {}
      BY <1>1, <1>10 DEF CodeInv
    <3> QED  BY <1>8, <1>10, <3>1, <3>3, <3>4, <3>5 DEF CodeInv
  <2> QED  BY <2>1, <2>2
<1> QED  BY <1>9, <1>10

\* A fresh set of codes goes out in a copy: none of its codes was anywhere.
LEMMA DrawingCodes ==
  ASSUME TypeOK, NEW w \in UserWriter, NEW c \in Code, CodeInv(c), EnableTwoFactor(w)
  PROVE  CodeInv(c)'
<1>1. PICK codes \in CodeSet \ drawnSets :
         /\ Begin(w, Copy("enable", [user EXCEPT !.enabled = TRUE, !.codes = codes]))
         /\ drawnSets' = drawnSets \cup {codes}
         /\ UNCHANGED <<user, application, accepted, holders, parted>>
  BY DEF EnableTwoFactor
<1> DEFINE next == Copy("enable", [user EXCEPT !.enabled = TRUE, !.codes = codes])
<1>2. Go(w, next) /\ task[w].at # "saving" /\ next.op = "enable" /\ next.copy.codes = codes
  <2>1. Go(w, next) /\ task[w] = NoTask
    BY <1>1 DEF Begin
  <2>2. user \in [verified : BOOLEAN, enabled : BOOLEAN, codes : SUBSET Code]
    BY DEF TypeOK, User
  <2>3. [user EXCEPT !.enabled = TRUE, !.codes = codes].codes = codes
    BY <2>2
  <2>4. next.op = "enable" /\ next.copy = [user EXCEPT !.enabled = TRUE, !.codes = codes]
    BY DEF Copy
  <2>5. task[w].at # "saving"
    BY <2>1 DEF NoTask
  <2> QED  BY <2>1, <2>3, <2>4, <2>5
<1>3. CASE c \in codes
  <2>1. c \notin UNION drawnSets
    BY <1>3, UserRowAssumption DEF TypeOK
  <2>2. accepted[c] = 0 /\ Holding(c) = {} /\ c \notin user.codes
    BY <2>1 DEF CodeInv
  <2>3. Holding(c)' \subseteq {w}
    <3>1. \A v \in UserWriter \ {w} : task'[v] = task[v]
      BY <1>2 DEF TypeOK, Go
    <3> QED  BY <2>2, <3>1 DEF Holding, Holds
  <2>4. Cardinality(Holding(c)') \in Nat /\ Cardinality(Holding(c)') <= 1
    <3>1. IsFiniteSet({w}) /\ Cardinality({w}) = 1
      BY FS_Singleton
    <3>2. IsFiniteSet(Holding(c)') /\ Cardinality(Holding(c)') <= Cardinality({w})
      BY <2>3, <3>1, FS_Subset
    <3> QED  BY <3>1, <3>2, FS_CardinalityType
  <2>5. accepted'[c] + Cardinality(Holding(c)') <= 1 + holders'[c]
    <3>1. holders'[c] \in Nat /\ accepted'[c] = 0
      BY <1>1, <2>2 DEF TypeOK
    <3> QED  BY <2>4, <3>1
  <2>6. c \in UNION drawnSets' /\ c \notin user'.codes
    BY <1>1, <1>3, <2>2
  <2> QED  BY <2>5, <2>6 DEF CodeInv
<1>4. CASE c \notin codes
  <2>1. Holding(c)' = Holding(c)
    BY <1>2, <1>4, OthersHold
  <2>2. c \in UNION drawnSets' <=> c \in UNION drawnSets
    BY <1>1, <1>4
  <2> QED  BY <1>1, <2>1, <2>2 DEF CodeInv
<1> QED  BY <1>3, <1>4

\* The body of a request may bring back a code that is in no row: it is counted.
LEMMA BringingCodes ==
  ASSUME TypeOK, NEW w \in UserWriter, NEW c \in Code, CodeInv(c), AssignsBody(w)
  PROVE  CodeInv(c)'
<1>1. PICK row \in User :
        /\ row.codes \subseteq UNION drawnSets
        /\ Begin(w, Copy("edit", row))
        /\ holders' = [d \in Code |-> holders[d] + IF d \in row.codes \ user.codes THEN 1 ELSE 0]
        /\ UNCHANGED <<user, application, drawnSets, accepted, parted>>
  BY BodyIsAssigned
<1>2. Go(w, Copy("edit", row)) /\ task[w].at # "saving"
  BY <1>1 DEF Begin, NoTask
<1>3. holders'[c] = holders[c] + IF c \in row.codes \ user.codes THEN 1 ELSE 0
  BY <1>1
<1>4. holders[c] \in Nat /\ accepted[c] \in Nat
  BY DEF TypeOK
<1>5. CASE c \in user.codes
  <2>1. holders'[c] = holders[c]
    BY <1>3, <1>4, <1>5
  <2> QED  BY <1>1, <1>5, <2>1 DEF CodeInv
<1>6. CASE c \notin user.codes /\ c \notin row.codes
  <2>1. Copy("edit", row).op = "edit" /\ Copy("edit", row).copy = row
    BY DEF Copy
  <2>2. Holding(c)' = Holding(c)
    BY <1>2, <1>6, <2>1, OthersHold
  <2>3. holders'[c] = holders[c]
    BY <1>3, <1>4, <1>6
  <2> QED  BY <1>1, <1>6, <2>2, <2>3 DEF CodeInv
<1>7. CASE c \notin user.codes /\ c \in row.codes
  <2>1. Holding(c)' \subseteq Holding(c) \cup {w}
    <3>1. \A v \in UserWriter \ {w} : task'[v] = task[v]
      BY <1>2 DEF TypeOK, Go
    <3> QED  BY <3>1 DEF Holding, Holds
  <2>2. IsFiniteSet(Holding(c)) /\ Cardinality(Holding(c)) \in Nat
    BY HoldingIsFinite
  <2>3. w \notin Holding(c)
    BY <1>2 DEF Holding, Holds
  <2>4. /\ IsFiniteSet(Holding(c) \cup {w})
        /\ Cardinality(Holding(c) \cup {w}) = Cardinality(Holding(c)) + 1
    BY <2>2, <2>3, FS_AddElement
  <2>5. /\ Cardinality(Holding(c)') <= Cardinality(Holding(c)) + 1
        /\ Cardinality(Holding(c)') \in Nat
    BY <2>1, <2>4, FS_Subset, FS_CardinalityType
  <2>6. holders'[c] = holders[c] + 1
    BY <1>3, <1>7
  <2>7. accepted[c] + Cardinality(Holding(c)) <= 1 + holders[c]
    BY <1>7 DEF CodeInv
  <2>8. accepted'[c] + Cardinality(Holding(c)') <= 1 + holders'[c]
    BY <1>1, <1>4, <2>2, <2>5, <2>6, <2>7
  <2>9. c \in UNION drawnSets'
    BY <1>1, <1>7
  <2> QED  BY <1>1, <1>7, <2>8, <2>9 DEF CodeInv
<1> QED  BY <1>5, <1>6, <1>7

LEMMA CodesStep ==
  ASSUME TypeOK, CodesInv, [Next]_vars
  PROVE  CodesInv'
<1> USE DEF CodesInv
<1>l. LoginTakesOut'
  <2> SUFFICES ASSUME NEW v \in UserWriter, task'[v].at = "saving", task'[v].op = "login"
               PROVE  task'[v].code \notin task'[v].copy.codes
    BY DEF LoginTakesOut
  <2>1. CASE task'[v] = task[v]
    BY <2>1 DEF LoginTakesOut
  <2>2. CASE \E c \in Code : task'[v] = [at |-> "saving", op |-> "login", code |-> c,
                                         copy |-> [user EXCEPT !.codes = @ \ {c}]]
    BY <2>2 DEF TypeOK, User
  <2>3. task'[v] = task[v] \/ \E c \in Code : LogInWithCode(v, c)
    <3>1. CASE UNCHANGED vars
      BY <3>1 DEF vars
    <3>2. ASSUME NEW w \in UserWriter, NEW next, Go(w, next), next.at # "saving" \/ next.op # "login"
          PROVE  task'[v] = task[v]
      <4>1. task'[w] = next
        BY <3>2 DEF Go, TypeOK
      <4>2. v # w
        BY <3>2, <4>1
      <4> QED  BY <3>2, <4>2 DEF Go, TypeOK
    <3>3. ASSUME NEW w \in UserWriter, NEW c \in Code, LogInWithCode(w, c), v # w PROVE task'[v] = task[v]
      BY <3>3 DEF LogInWithCode, Begin, Go, TypeOK
    <3>4. ASSUME NEW w \in UserWriter,
                 \/ Save(w) \/ SaveFails(w) \/ Die(w) \/ CopiesRow(w) \/ AssignsBody(w) \/ EnableTwoFactor(w) \/ DisableTwoFactor(w)
                 \/ Apply(w) \/ FindPending(w) \/ Insert(w) \/ Revise(w) \/ SaveDecision(w) \/ ShowBadge(w)
                 \/ CheckOthers(w) \/ ClearBadge(w)
                 \/ \E a \in Application, verdict \in {"approved", "rejected"} : Decide(w, a, verdict)
          PROVE  task'[v] = task[v]
      <4>0. CASE Save(w)
        <5>1. NoTask.at # "saving"
          BY DEF NoTask
        <5> QED  BY <3>2, <4>0, <5>1, AfterSave
      <4>1. CASE SaveFails(w) \/ Die(w) \/ Insert(w) \/ Revise(w) \/ ShowBadge(w) \/ ClearBadge(w)
        BY <3>2, <4>1 DEF SaveFails, Die, Insert, Revise, ShowBadge, ClearBadge, NoTask
      <4>2. CASE CopiesRow(w) \/ EnableTwoFactor(w) \/ DisableTwoFactor(w)
        BY <3>2, <4>2, RowIsCopied DEF EnableTwoFactor, DisableTwoFactor, Begin, Copy
      <4>6. CASE AssignsBody(w)
        BY <3>2, <4>6, BodyIsAssigned DEF Begin, Copy
      <4>3. CASE Apply(w) \/ FindPending(w) \/ CheckOthers(w)
        BY <3>2, <4>3 DEF Apply, FindPending, CheckOthers, Begin, NoTask
      <4>4. CASE SaveDecision(w)
        BY <3>2, <4>4 DEF SaveDecision
      <4>5. CASE \E a \in Application, verdict \in {"approved", "rejected"} : Decide(w, a, verdict)
        BY <3>2, <4>5 DEF Decide, Begin
      <4> QED  BY <3>4, <4>0, <4>1, <4>2, <4>3, <4>4, <4>5, <4>6
    <3> QED  BY <3>1, <3>3, <3>4 DEF Next, CopiesRow, AssignsBody
  <2>4. ASSUME NEW c \in Code, LogInWithCode(v, c)
        PROVE  task'[v] = [at |-> "saving", op |-> "login", code |-> c, copy |-> [user EXCEPT !.codes = @ \ {c}]]
    BY <2>4 DEF LogInWithCode, Begin, Go, TypeOK
  <2> QED  BY <2>1, <2>2, <2>3, <2>4
<1>c. ASSUME NEW c \in Code PROVE CodeInv(c)'
  <2>0. CASE UNCHANGED vars
    BY <2>0 DEF vars, CodeInv, Holding, Holds
  <2>1. ASSUME NEW w \in UserWriter, Save(w) PROVE CodeInv(c)'
    BY <2>1, SaveOfCodeInRow, SaveOfCodeGone
  <2>2. ASSUME NEW w \in UserWriter, SaveFails(w) \/ Die(w) PROVE CodeInv(c)'
    <3>1. Holding(c)' = Holding(c) \ {w}
      BY <2>2, EndingDrops DEF SaveFails, Die
    <3> QED  BY <2>2, <3>1, CodesStay DEF SaveFails, Die
  <2>3. ASSUME NEW w \in UserWriter, CopiesRow(w) \/ DisableTwoFactor(w) PROVE CodeInv(c)'
    <3>1. ASSUME c \notin user.codes PROVE Holding(c)' = Holding(c)
      <4>1. task[w].at # "saving"
        BY <2>3, RowIsCopied DEF DisableTwoFactor, Begin, NoTask
      <4>2. PICK next : Go(w, next) /\ (next.op = "disable" \/ (next.op # "login" /\ next.copy = user))
        BY <2>3, RowIsCopied DEF DisableTwoFactor, Begin, Copy
      <4> QED  BY <3>1, <4>1, <4>2, OthersHold
    <3> QED  BY <2>3, <3>1, CodesStay, RowIsCopied DEF DisableTwoFactor
  <2>4. ASSUME NEW w \in UserWriter, EnableTwoFactor(w) PROVE CodeInv(c)'
    BY <2>4, DrawingCodes
  <2>7. ASSUME NEW w \in UserWriter, AssignsBody(w) PROVE CodeInv(c)'
    BY <2>7, BringingCodes
  <2>5. ASSUME NEW w \in UserWriter, NEW d \in Code, LogInWithCode(w, d) PROVE CodeInv(c)'
    <3> DEFINE next == [at |-> "saving", op |-> "login", code |-> d, copy |-> [user EXCEPT !.codes = @ \ {d}]]
    <3>1. ASSUME c \notin user.codes PROVE Holding(c)' = Holding(c)
      <4>1. Go(w, next) /\ task[w].at # "saving" /\ c \notin next.copy.codes /\ next.code # c
        BY <2>5, <3>1 DEF LogInWithCode, Begin, NoTask, TypeOK, User
      <4> QED  BY <4>1, OthersHold
    <3> QED  BY <2>5, <3>1, CodesStay DEF LogInWithCode
  <2>6. ASSUME NEW w \in UserWriter, Apply(w) \/ FindPending(w) \/ Insert(w) \/ Revise(w) \/ SaveDecision(w)
                 \/ ShowBadge(w) \/ CheckOthers(w) \/ ClearBadge(w)
                 \/ \E a \in Application, verdict \in {"approved", "rejected"} : Decide(w, a, verdict)
        PROVE CodeInv(c)'
    <3>1. task[w].at # "saving"
      <4>1. CASE Apply(w) \/ \E a \in Application, verdict \in {"approved", "rejected"} : Decide(w, a, verdict)
        <5>1. task[w] = NoTask
          BY <4>1 DEF Apply, Decide, Begin
        <5> QED  BY <5>1 DEF NoTask
      <4>2. CASE FindPending(w) \/ Insert(w) \/ Revise(w) \/ SaveDecision(w) \/ ShowBadge(w) \/ CheckOthers(w)
                 \/ ClearBadge(w)
        BY <4>2 DEF FindPending, Insert, Revise, SaveDecision, ShowBadge, CheckOthers, ClearBadge
      <4> QED  BY <2>6, <4>1, <4>2
    <3>2. PICK next : Go(w, next) /\ next.at # "saving"
      <4>1. NoTask.at # "saving"
        BY DEF NoTask
      <4>2. CASE Insert(w) \/ Revise(w) \/ ShowBadge(w) \/ ClearBadge(w)
        BY <4>1, <4>2 DEF Insert, Revise, ShowBadge, ClearBadge
      <4>3. CASE Apply(w)
        BY <4>3 DEF Apply, Begin
      <4>4. CASE FindPending(w)
        <5>1. CASE Outstanding = {}
          BY <4>4, <5>1 DEF FindPending
        <5>2. CASE Outstanding # {}
          <6>1. PICK a \in Outstanding : Go(w, [at |-> "revising", of |-> a])
            BY <4>4, <5>2 DEF FindPending
          <6> QED  BY <6>1
        <5> QED  BY <5>1, <5>2
      <4>5. CASE CheckOthers(w)
        <5>1. Go(w, [at |-> "clearing"]) \/ Go(w, NoTask)
          BY <4>5 DEF CheckOthers
        <5> QED  BY <4>1, <5>1
      <4>6. CASE SaveDecision(w)
        <5>1. Go(w, [at |-> "showing"]) \/ Go(w, [at |-> "checking"])
          BY <4>6 DEF SaveDecision
        <5> QED  BY <5>1
      <4>7. CASE \E a \in Application, verdict \in {"approved", "rejected"} : Decide(w, a, verdict)
        BY <4>7 DEF Decide, Begin
      <4> QED  BY <2>6, <4>2, <4>3, <4>4, <4>5, <4>6, <4>7
    <3>3. Holding(c)' = Holding(c)
      BY <3>1, <3>2, OthersHold
    <3>4. user'.codes = user.codes /\ UNCHANGED <<drawnSets, accepted, holders>>
      BY <2>6 DEF Apply, FindPending, Insert, Revise, SaveDecision, ShowBadge, CheckOthers, ClearBadge, Decide,
                  TypeOK, User
    <3> QED  BY <3>3, <3>4, CodesStay
  <2> QED  BY <2>0, <2>1, <2>2, <2>3, <2>4, <2>5, <2>6, <2>7 DEF Next, CopiesRow, AssignsBody
<1> QED  BY <1>l, <1>c

\* However many logins, enrolments and edits overlap, a recovery code is taken
\* at most once more per copy of the row that still had it when it left and per
\* request whose body brought it back.
THEOREM CodesAreUsedOnce == Spec => []CodeUsedOnce
<1>1. Init => TypeOK /\ CodesInv
  <2>1. ASSUME Init, NEW c \in Code PROVE CodeInv(c)
    <3>1. Holding(c) = {} /\ accepted[c] = 0 /\ holders[c] = 0 /\ c \notin user.codes
      BY <2>1 DEF Init, Holding, Holds, NoTask
    <3> QED  BY <3>1, FS_EmptySet DEF CodeInv
  <2>2. ASSUME Init PROVE LoginTakesOut
    BY <2>2 DEF Init, LoginTakesOut, NoTask
  <2> QED  BY <2>1, <2>2, InitTypeOK DEF CodesInv
<1>2. TypeOK /\ CodesInv /\ [Next]_vars => (TypeOK /\ CodesInv)'
  BY TypeStep, CodesStep
<1>3. TypeOK /\ CodesInv => CodeUsedOnce
  <2> SUFFICES ASSUME TypeOK, CodesInv, NEW c \in Code PROVE accepted[c] <= 1 + holders[c]
    BY DEF CodeUsedOnce
  <2>1. Cardinality(Holding(c)) \in Nat /\ accepted[c] \in Nat /\ holders[c] \in Nat /\ CodeInv(c)
    BY HoldingIsFinite DEF TypeOK, CodesInv
  <2> QED  BY <2>1 DEF CodeInv
<1> QED  BY <1>1, <1>2, <1>3, PTL DEF Spec

----------------------------------------------------------------------------
(* The badge *)

Showing == \E w \in UserWriter : task[w].at = "showing"

\* A request that moves on, neither to nor from showing the badge.
LEMMA ShowingStays ==
  ASSUME TypeOK, NEW w \in UserWriter, NEW next, Go(w, next), task[w].at # "showing", next.at # "showing"
  PROVE  Showing' <=> Showing
<1>1. task'[w] = next
  BY DEF TypeOK, Go
<1>2. \A v \in UserWriter \ {w} : task'[v] = task[v]
  BY DEF TypeOK, Go
<1> QED  BY <1>1, <1>2 DEF Showing

LEMMA BadgeStays ==
  ASSUME BadgeInv, Showing' <=> Showing, Approved' = Approved, user'.verified = user.verified, parted => parted'
  PROVE  BadgeInv'
BY DEF BadgeInv, Showing

LEMMA BadgeStep ==
  ASSUME TypeOK, BadgeInv, [Next]_vars
  PROVE  BadgeInv'
<1>n. NoTask.at = "none"
  BY DEF NoTask
<1>0. CASE UNCHANGED vars
  BY <1>0 DEF vars, BadgeInv, Approved
<1>1. ASSUME NEW w \in UserWriter, Save(w) PROVE BadgeInv'
  <2>1. Showing' <=> Showing
    <3>1. task[w].at # "showing"
      BY <1>1 DEF Save
    <3> QED  BY <1>1, <1>n, <3>1, AfterSave, ShowingStays
  <2>2. CASE parted'
    BY <2>2 DEF BadgeInv
  <2>3. CASE ~parted'
    <3>1. user'.verified = user.verified /\ ~parted
      BY <1>1, <2>3 DEF Save
    <3>2. Approved' = Approved
      BY <1>1 DEF Save, Approved
    <3> QED  BY <2>1, <3>1, <3>2, BadgeStays
  <2> QED  BY <2>2, <2>3
<1>2. ASSUME NEW w \in UserWriter, SaveFails(w) PROVE BadgeInv'
  <2>1. Showing' <=> Showing
    BY <1>2, <1>n, ShowingStays DEF SaveFails
  <2> QED  BY <1>2, <2>1, BadgeStays DEF SaveFails, Approved
<1>3. ASSUME NEW w \in UserWriter, Die(w) PROVE BadgeInv'
  <2>1. CASE task[w].at = "showing"
    BY <1>3, <2>1 DEF Die, BadgeInv
  <2>2. CASE task[w].at # "showing"
    <3>1. Showing' <=> Showing
      BY <1>3, <1>n, <2>2, ShowingStays DEF Die
    <3> QED  BY <1>3, <3>1, BadgeStays DEF Die, Approved
  <2> QED  BY <2>1, <2>2
<1>4. ASSUME NEW w \in UserWriter, NEW next, Begin(w, next), next.at # "showing",
             UNCHANGED <<user, application, parted>>
      PROVE  BadgeInv'
  <2>1. Showing' <=> Showing
    BY <1>4, <1>n, ShowingStays DEF Begin
  <2> QED  BY <1>4, <2>1, BadgeStays DEF Approved
<1>5. ASSUME NEW w \in UserWriter, CopiesRow(w) \/ EnableTwoFactor(w) \/ DisableTwoFactor(w) PROVE BadgeInv'
  BY <1>4, <1>5, RowIsCopied DEF EnableTwoFactor, DisableTwoFactor, Copy
<1>15. ASSUME NEW w \in UserWriter, AssignsBody(w) PROVE BadgeInv'
  <2>1. PICK row \in User : Begin(w, Copy("edit", row)) /\ UNCHANGED <<user, application, parted>>
    BY <1>15, BodyIsAssigned
  <2>2. Copy("edit", row).at # "showing"
    BY DEF Copy
  <2> QED  BY <1>4, <2>1, <2>2
<1>6. ASSUME NEW w \in UserWriter, NEW c \in Code, LogInWithCode(w, c) PROVE BadgeInv'
  BY <1>4, <1>6 DEF LogInWithCode
<1>7. ASSUME NEW w \in UserWriter, Apply(w) PROVE BadgeInv'
  BY <1>4, <1>7 DEF Apply
<1>8. ASSUME NEW w \in UserWriter, NEW a \in Application, NEW verdict \in {"approved", "rejected"}, Decide(w, a, verdict)
      PROVE  BadgeInv'
  BY <1>4, <1>8 DEF Decide
<1>9. ASSUME NEW w \in UserWriter, FindPending(w) \/ CheckOthers(w) PROVE BadgeInv'
  <2>1. PICK next : Go(w, next) /\ next.at # "showing"
    <3>1. CASE FindPending(w)
      <4>1. CASE Outstanding = {}
        BY <3>1, <4>1 DEF FindPending
      <4>2. CASE Outstanding # {}
        <5>1. PICK a \in Outstanding : Go(w, [at |-> "revising", of |-> a])
          BY <3>1, <4>2 DEF FindPending
        <5> QED  BY <5>1
      <4> QED  BY <4>1, <4>2
    <3>2. CASE CheckOthers(w)
      <4>1. Go(w, [at |-> "clearing"]) \/ Go(w, NoTask)
        BY <3>2 DEF CheckOthers
      <4> QED  BY <1>n, <4>1
    <3> QED  BY <1>9, <3>1, <3>2
  <2>2. Showing' <=> Showing
    BY <1>9, <2>1, ShowingStays DEF FindPending, CheckOthers
  <2> QED  BY <1>9, <2>2, BadgeStays DEF FindPending, CheckOthers, Approved
<1>10. ASSUME NEW w \in UserWriter, Insert(w) PROVE BadgeInv'
  <2>1. Showing' <=> Showing
    BY <1>10, <1>n, ShowingStays DEF Insert
  <2>2. Approved' = Approved
    BY <1>10 DEF Insert, Approved, TypeOK
  <2> QED  BY <1>10, <2>1, <2>2, BadgeStays DEF Insert
<1>11. ASSUME NEW w \in UserWriter, Revise(w) PROVE BadgeInv'
  <2>1. Showing' <=> Showing
    BY <1>11, <1>n, ShowingStays DEF Revise
  <2>2. CASE parted'
    BY <2>2 DEF BadgeInv
  <2>3. CASE ~parted'
    <3>1. task[w].of \in Application
      BY <1>11, DecidingTask DEF Revise
    <3>2. Approved' = Approved /\ user' = user /\ ~parted
      BY <1>11, <2>3, <3>1 DEF Revise, Approved, TypeOK
    <3> QED  BY <2>1, <3>2, BadgeStays
  <2> QED  BY <2>2, <2>3
<1>12. ASSUME NEW w \in UserWriter, SaveDecision(w) PROVE BadgeInv'
  <2>0. task[w].of \in Application /\ task[w].verdict \in {"approved", "rejected"}
    BY <1>12, DecidingTask DEF SaveDecision
  <2>1. CASE task[w].verdict = "approved"
    <3>1. task'[w] = [at |-> "showing"]
      BY <1>12, <2>1 DEF SaveDecision, Go, TypeOK
    <3>2. task[w].of \in Approved'
      BY <1>12, <2>0, <2>1 DEF SaveDecision, Approved, TypeOK
    <3>3. task'[w].at = "showing"
      BY <3>1
    <3> QED  BY <3>2, <3>3 DEF BadgeInv
  <2>2. CASE task[w].verdict = "rejected" /\ ~parted'
    <3>1. Go(w, [at |-> "checking"]) /\ task[w].at = "deciding"
      BY <1>12, <2>2 DEF SaveDecision
    <3>2. Showing' <=> Showing
      BY <3>1, ShowingStays
    <3>3. Approved' = Approved /\ user' = user /\ ~parted
      BY <1>12, <2>0, <2>2 DEF SaveDecision, Approved, TypeOK
    <3> QED  BY <3>2, <3>3, BadgeStays
  <2>3. CASE parted'
    BY <2>3 DEF BadgeInv
  <2> QED  BY <2>0, <2>1, <2>2, <2>3
<1>13. ASSUME NEW w \in UserWriter, ShowBadge(w) PROVE BadgeInv'
  <2>1. user'.verified
    BY <1>13 DEF ShowBadge, TypeOK, User
  <2>2. Approved' = Approved /\ parted' = parted /\ task[w].at = "showing"
    BY <1>13 DEF ShowBadge, Approved
  <2> QED  BY <2>1, <2>2 DEF BadgeInv
<1>14. ASSUME NEW w \in UserWriter, ClearBadge(w) PROVE BadgeInv'
  <2>1. Showing' <=> Showing
    BY <1>14, <1>n, ShowingStays DEF ClearBadge
  <2>2. ~user'.verified
    BY <1>14 DEF ClearBadge, TypeOK, User
  <2>3. Approved' = Approved /\ (parted' <=> parted \/ Approved # {})
    BY <1>14 DEF ClearBadge, Approved
  <2> QED  BY <2>1, <2>2, <2>3 DEF BadgeInv, Showing
<1> QED
  BY <1>0, <1>1, <1>2, <1>3, <1>5, <1>6, <1>7, <1>8, <1>9, <1>10, <1>11, <1>12, <1>13, <1>14, <1>15
     DEF Next, CopiesRow, AssignsBody

\* With no badge about to be shown, badge and approvals agree, or one of the
\* recorded causes parted them.
THEOREM BadgesAgree == Spec => []BadgeAgrees
<1>1. Init => TypeOK /\ BadgeInv
  <2>1. ASSUME Init PROVE BadgeInv
    <3>1. Approved = {} /\ ~user.verified /\ \A w \in UserWriter : task[w].at = "none"
      BY <2>1 DEF Init, Approved, NoTask
    <3> QED  BY <3>1 DEF BadgeInv
  <2> QED  BY <2>1, InitTypeOK
<1>2. TypeOK /\ BadgeInv /\ [Next]_vars => (TypeOK /\ BadgeInv)'
  BY TypeStep, BadgeStep
<1>3. TypeOK /\ BadgeInv => BadgeAgrees
  BY DEF TypeOK, User, BadgeInv, BadgeAgrees
<1> QED  BY <1>1, <1>2, <1>3, PTL DEF Spec

=============================================================================
