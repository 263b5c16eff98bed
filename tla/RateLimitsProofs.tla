--------------------------- MODULE RateLimitsProofs ---------------------------
(***************************************************************************)
(* Proofs about RateLimits for any window, limit and number of instances.  *)
(***************************************************************************)
EXTENDS RateLimits, FiniteSetTheorems, TLAPS

Time == 0..MaxClock
Passed(h, by) == [hit |-> h, by |-> by, late |-> FALSE] \in admitted

TypeInv ==
    /\ inMemory \in BOOLEAN
    /\ clock \in Time /\ reached \in Time
    /\ hits \subseteq Hit /\ IsFiniteSet(hits)
    /\ expiry \in Int
    /\ asking \in [Instance -> [at : Stage, hit : Hit] \cup {NoHit}]
    /\ memory \in [Instance -> SUBSET Hit]
    /\ \A i \in Instance : IsFiniteSet(memory[i])
    /\ asked \in 0..MaxHits

\* A request is in the set, and one that passed stays there, until the window has
\* been moved past it; the key outlives the window of the requests that passed.
RedisInv ==
    /\ \A i \in Instance : asking[i] # NoHit => asking[i].hit.now <= clock
    /\ \A i \in Instance :
         asking[i] # NoHit /\ asking[i].at = "added" /\ asking[i].hit.now >= reached => asking[i].hit \in hits
    /\ \A h \in Hit : Passed(h, "redis") =>
         /\ h.now <= clock
         /\ h.now > reached - Window => h \in hits
         /\ expiry # Never => h.now + Window <= expiry

\* What an instance counted is in its memory, or a window before something there;
\* its requests are stamped in order.
MemoryInv ==
    \A i \in Instance :
        /\ \A m \in memory[i] : m.now <= clock /\ (asking[i] # NoHit => m.now <= asking[i].hit.now)
        /\ \A h \in Hit : Passed(h, i) =>
             h \in memory[i] \/ \E m \in memory[i] : h.now <= m.now - Window

IInv == TypeInv /\ RedisInv /\ MemoryInv /\ WindowHolds

USE RateLimitsAssumption DEF RateLimitsAssumption

LEMMA NoHitIsNone == ASSUME NEW r \in [at : Stage, hit : Hit] PROVE r # NoHit
  BY DEF Stage, NoHit

LEMMA HitIsFinite == IsFiniteSet(Hit)
<1> DEFINE pairs == (1..MaxHits) \X Time
           f == [p \in pairs |-> [nth |-> p[1], now |-> p[2]]]
<1>1. IsFiniteSet(1..MaxHits) /\ IsFiniteSet(Time)
  BY FS_Interval DEF Time
<1>2. IsFiniteSet(pairs)
  BY <1>1, FS_Product
<1>3. f \in [pairs -> Hit]
  BY DEF Hit, Time
<1>4. ASSUME NEW h \in Hit PROVE \E p \in pairs : f[p] = h
  <2>1. <<h.nth, h.now>> \in pairs /\ f[<<h.nth, h.now>>] = h
    BY DEF Hit, Time
  <2> QED  BY <2>1
<1>5. f \in Surjection(pairs, Hit)
  BY <1>3, <1>4 DEF Surjection
<1> QED  BY <1>2, <1>5, FS_Surjection

\* A window that fits in a set of at most Limit requests is within the limit.
LEMMA Fits ==
  ASSUME NEW S, NEW T, IsFiniteSet(T), S \subseteq T, Cardinality(T) <= Limit
  PROVE  Cardinality(S) <= Limit
<1>1. Cardinality(S) <= Cardinality(T) /\ IsFiniteSet(S)
  BY FS_Subset
<1>2. Cardinality(S) \in Nat /\ Cardinality(T) \in Nat
  BY <1>1, FS_CardinalityType
<1> QED  BY <1>1, <1>2

LEMMA InitIInv == LimiterInit => IInv
<1> SUFFICES ASSUME LimiterInit PROVE IInv
  OBVIOUS
<1>1. IsFiniteSet({}) /\ Cardinality({}) = 0
  BY FS_EmptySet
<1>2. TypeInv
  BY <1>1 DEF LimiterInit, TypeInv, Time, Never
<1>3. RedisInv
  BY DEF LimiterInit, RedisInv, Passed
<1>4. MemoryInv
  BY DEF LimiterInit, MemoryInv, Passed
<1>5. WindowHolds
  <2> SUFFICES ASSUME NEW t \in 0..MaxClock, NEW by \in Instance \cup {"redis"}
               PROVE  Cardinality(InWindow(t, by)) <= Limit
    BY DEF WindowHolds
  <2>1. InWindow(t, by) = {}
    BY DEF InWindow, LimiterInit
  <2> QED  BY <1>1, <2>1
<1> QED  BY <1>2, <1>3, <1>4, <1>5 DEF IInv

LEMMA SameWindows == ASSUME WindowHolds, UNCHANGED admitted PROVE WindowHolds'
  BY DEF WindowHolds, InWindow

LEMMA TickStep == ASSUME IInv, Tick PROVE IInv'
<1> USE DEF IInv
<1>1. clock \in Nat /\ reached \in Nat /\ clock' = clock + 1 /\ clock' \in Time
  BY DEF TypeInv, Tick, Time
<1>2. TypeInv'
  <2>1. hits' \in {hits, {}} /\ expiry' \in {expiry, Never} /\ reached' \in {reached, clock'}
    BY <1>1 DEF Tick
  <2>2. hits' \subseteq Hit /\ IsFiniteSet(hits')
    BY <2>1, FS_EmptySet DEF TypeInv
  <2> QED  BY <1>1, <2>1, <2>2 DEF TypeInv, Tick, Never
<1>3. ASSUME NEW i \in Instance, asking[i] # NoHit PROVE asking[i].hit.now \in Int
  BY <1>3 DEF TypeInv, Hit
<1>4. RedisInv'
  <2>1. CASE expiry # Never /\ expiry <= clock + 1
    <3>1. hits' = {} /\ expiry' = Never /\ reached' = clock + 1
      BY <2>1 DEF Tick
    <3>2. \A h \in Hit : h.now \in Int
      BY DEF Hit
    <3>3. \A h \in Hit : Passed(h, "redis")' => h.now <= clock' /\ ~(h.now > reached' - Window)
      BY <1>1, <2>1, <3>1, <3>2 DEF RedisInv, Passed, Tick, TypeInv
    <3> QED  BY <1>1, <1>3, <3>1, <3>3 DEF RedisInv, Tick
  <2>2. CASE ~(expiry # Never /\ expiry <= clock + 1)
    <3>1. UNCHANGED <<hits, expiry, reached, asking, admitted>>
      BY <2>2 DEF Tick
    <3>2. \A h \in Hit : h.now \in Int
      BY DEF Hit
    <3> QED  BY <1>1, <1>3, <3>1, <3>2 DEF RedisInv, Passed
  <2> QED  BY <2>1, <2>2
<1>5. MemoryInv'
  <2>1. \A h \in Hit : h.now \in Int
    BY DEF Hit
  <2>2. \A i \in Instance : memory[i] \subseteq Hit
    BY DEF TypeInv
  <2> QED  BY <1>1, <2>1, <2>2 DEF MemoryInv, Passed, Tick
<1>6. WindowHolds'
  BY SameWindows DEF Tick
<1> QED  BY <1>2, <1>4, <1>5, <1>6

LEMMA AskStep == ASSUME IInv, NEW i \in Instance, Ask(i) PROVE IInv'
<1> USE DEF IInv
<1> DEFINE hit == [nth |-> asked + 1, now |-> clock]
<1>1. hit \in Hit /\ asked' \in 0..MaxHits
  BY DEF Ask, TypeInv, Hit, Time
<1>2. asking' = [asking EXCEPT ![i] = [at |-> "sent", hit |-> hit]]
  BY DEF Ask
<1>3. TypeInv'
  BY <1>1, <1>2 DEF Ask, TypeInv, Stage
<1>4. asking'[i] = [at |-> "sent", hit |-> hit] /\ \A j \in Instance \ {i} : asking'[j] = asking[j]
  BY <1>2 DEF TypeInv
<1>5. RedisInv'
  <2>1. \A h \in Hit : Passed(h, "redis")' = Passed(h, "redis")
    BY DEF Ask, Passed
  <2> QED  BY <1>4, <2>1 DEF RedisInv, Ask, TypeInv, Time
<1>6. MemoryInv'
  BY <1>4 DEF MemoryInv, Ask, Passed
<1>7. WindowHolds'
  BY SameWindows DEF Ask
<1> QED  BY <1>3, <1>5, <1>6, <1>7

LEMMA TrimStep == ASSUME IInv, NEW i \in Instance, Trim(i) PROVE IInv'
<1> USE DEF IInv
<1> DEFINE now == asking[i].hit.now
<1>1. asking[i] # NoHit /\ asking[i] \in [at : Stage, hit : Hit]
  BY DEF Trim, NoHit, TypeInv
<1>2. now \in Time /\ now <= clock /\ reached \in Int
  BY <1>1 DEF Hit, Time, RedisInv, TypeInv
<1>3. hits' = After(hits, now - Window) /\ reached' = IF now > reached THEN now ELSE reached
  BY DEF Trim
<1>4. hits' \subseteq hits /\ IsFiniteSet(hits')
  BY <1>3, FS_Subset DEF After, TypeInv
<1>5. reached' >= now /\ reached' >= reached /\ reached' \in Time
  BY <1>2, <1>3 DEF TypeInv, Time
<1>6. asking' = [asking EXCEPT ![i].at = "trimmed"]
  BY DEF Trim
<1>7. asking'[i].hit = asking[i].hit /\ asking'[i].at = "trimmed" /\ asking'[i] \in [at : Stage, hit : Hit]
  BY <1>1, <1>6 DEF TypeInv, Stage
<1>8. \A j \in Instance \ {i} : asking'[j] = asking[j]
  BY <1>6 DEF TypeInv
<1>9. TypeInv'
  BY <1>4, <1>5, <1>6, <1>7, <1>8 DEF Trim, TypeInv, Never
<1>10. \A h \in Hit : h.now \in Int
  BY DEF Hit, Time
<1>11. \A j \in Instance : asking'[j] # NoHit => asking[j] # NoHit /\ asking'[j].hit = asking[j].hit
  BY <1>1, <1>7, <1>8
<1>12. \A h \in hits : h.now > reached' - Window => h \in hits'
  BY <1>2, <1>3, <1>5, <1>10 DEF After, TypeInv, Time
<1>13. RedisInv'
  <2>1. \A j \in Instance : asking'[j] # NoHit => asking'[j].hit.now <= clock'
    BY <1>11 DEF RedisInv, Trim
  <2>2. ASSUME NEW j \in Instance, asking'[j] # NoHit, asking'[j].at = "added", asking'[j].hit.now >= reached'
        PROVE  asking'[j].hit \in hits'
    <3>1. j # i /\ asking'[j] = asking[j]
      BY <2>2, <1>7, <1>8
    <3>2. asking[j].hit \in Hit
      BY <2>2, <3>1 DEF TypeInv
    <3>3. asking[j].hit.now >= reached
      BY <2>2, <3>1, <3>2, <1>2, <1>5, <1>10 DEF Time
    <3>4. asking[j].hit \in hits
      BY <2>2, <3>1, <3>3 DEF RedisInv
    <3>5. asking[j].hit.now > reached' - Window
      BY <2>2, <3>1, <3>2, <1>5, <1>10 DEF Time
    <3> QED  BY <3>1, <3>4, <3>5, <1>12
  <2>3. ASSUME NEW h \in Hit, Passed(h, "redis")'
        PROVE  /\ h.now <= clock'
               /\ h.now > reached' - Window => h \in hits'
               /\ expiry' # Never => h.now + Window <= expiry'
    <3>1. Passed(h, "redis") /\ clock' = clock /\ expiry' \in {expiry, Never}
      BY <2>3 DEF Trim, Passed
    <3>2. h.now > reached' - Window => h.now > reached - Window
      BY <1>2, <1>5, <1>10 DEF Time
    <3> QED  BY <3>1, <3>2, <1>12 DEF RedisInv
  <2> QED  BY <2>1, <2>2, <2>3 DEF RedisInv
<1>14. MemoryInv'
  BY <1>11 DEF MemoryInv, Trim, Passed
<1>15. WindowHolds'
  BY SameWindows DEF Trim
<1> QED  BY <1>9, <1>13, <1>14, <1>15

LEMMA AddStep == ASSUME IInv, NEW i \in Instance, Add(i) PROVE IInv'
<1> USE DEF IInv
<1>1. asking[i] # NoHit /\ asking[i] \in [at : Stage, hit : Hit]
  BY DEF Add, NoHit, TypeInv
<1>2. asking' = [asking EXCEPT ![i].at = "added"]
  BY DEF Add
<1>3. asking'[i].hit = asking[i].hit /\ asking'[i] \in [at : Stage, hit : Hit]
  BY <1>1, <1>2 DEF TypeInv, Stage
<1>4. \A j \in Instance \ {i} : asking'[j] = asking[j]
  BY <1>2 DEF TypeInv
<1>5. hits' = hits \cup {asking[i].hit} /\ IsFiniteSet(hits')
  BY FS_AddElement DEF Add, TypeInv
<1>6. TypeInv'
  BY <1>1, <1>2, <1>3, <1>4, <1>5 DEF Add, TypeInv
<1>7. \A j \in Instance : asking'[j] # NoHit => asking[j] # NoHit /\ asking'[j].hit = asking[j].hit
  BY <1>1, <1>3, <1>4
<1>8. RedisInv'
  BY <1>3, <1>4, <1>5, <1>7 DEF RedisInv, Add, Passed
<1>9. MemoryInv'
  BY <1>7 DEF MemoryInv, Add, Passed
<1>10. WindowHolds'
  BY SameWindows DEF Add
<1> QED  BY <1>6, <1>8, <1>9, <1>10

LEMMA CountStep == ASSUME IInv, NEW i \in Instance, Count(i) PROVE IInv'
<1> USE DEF IInv
<1> DEFINE me == asking[i].hit
<1>1. asking[i] # NoHit /\ asking[i].at = "added" /\ me \in Hit
  BY DEF Count, NoHit, TypeInv
<1>2. me.now <= clock /\ (me.now >= reached => me \in hits)
  BY <1>1 DEF RedisInv
<1>3. asking' = [asking EXCEPT ![i] = NoHit]
  BY DEF Count, Answer
<1>4. asking'[i] = NoHit /\ \A j \in Instance \ {i} : asking'[j] = asking[j]
  BY <1>3 DEF TypeInv
<1>5. \A h \in Hit : h.now \in Int
  BY DEF Hit
<1>6. TypeInv'
  <2>1. expiry' \in Int
    BY DEF Count, Renewed, TypeInv, Time, Never
  <2> QED  BY <1>3, <2>1 DEF Count, TypeInv
<1>7. ASSUME NEW h \in Hit, NEW by \in Instance \cup {"redis"}, Passed(h, by)'
      PROVE  \/ Passed(h, by)
             \/ h = me /\ by = "redis" /\ me.now >= reached /\ Cardinality(hits) <= Limit
  <2>1. CASE Cardinality(hits) <= Limit
    <3>1. admitted' = admitted \cup {[hit |-> me, by |-> "redis", late |-> me.now < reached]}
      BY <2>1 DEF Count
    <3>2. CASE ~Passed(h, by)
      <4>1. [hit |-> h, by |-> by, late |-> FALSE] = [hit |-> me, by |-> "redis", late |-> me.now < reached]
        BY <1>7, <3>1, <3>2 DEF Passed
      <4>2. h = me /\ by = "redis" /\ ~(me.now < reached)
        BY <4>1
      <4> QED  BY <1>1, <1>5, <2>1, <4>2 DEF TypeInv, Time
    <3> QED  BY <3>2
  <2>2. CASE ~(Cardinality(hits) <= Limit)
    BY <1>7, <2>2 DEF Count, Passed
  <2> QED  BY <2>1, <2>2
<1>8. RedisInv'
  <2>1. UNCHANGED <<clock, hits, reached>> /\ expiry' = Renewed
    BY DEF Count
  <2>2. ASSUME NEW h \in Hit, Passed(h, "redis")'
        PROVE  /\ h.now <= clock'
               /\ h.now > reached' - Window => h \in hits'
               /\ expiry' # Never => h.now + Window <= expiry'
    <3>1. h.now <= clock /\ (h.now > reached - Window => h \in hits)
      BY <1>2, <1>7, <2>2 DEF RedisInv
    <3>2. expiry' # Never => h.now + Window <= expiry'
      BY <1>5, <2>1, <3>1 DEF Renewed, TypeInv, Time
    <3> QED  BY <2>1, <3>1, <3>2
  <2> QED  BY <1>4, <2>1, <2>2 DEF RedisInv
<1>9. MemoryInv'
  <2>1. ASSUME NEW j \in Instance, NEW h \in Hit, Passed(h, j)' PROVE Passed(h, j)
    BY <1>7, <2>1
  <2> QED  BY <1>4, <2>1 DEF MemoryInv, Count
<1>10. WindowHolds'
  <2> SUFFICES ASSUME NEW t \in 0..MaxClock, NEW by \in Instance \cup {"redis"}
               PROVE  Cardinality(InWindow(t, by)') <= Limit
    BY DEF WindowHolds
  <2>1. CASE InWindow(t, by)' \subseteq InWindow(t, by)
    <3>1. InWindow(t, by) \subseteq Hit /\ IsFiniteSet(Hit)
      BY HitIsFinite DEF InWindow
    <3> QED  BY <2>1, <3>1, Fits, FS_Subset DEF WindowHolds
  <2>2. CASE ~(InWindow(t, by)' \subseteq InWindow(t, by))
    <3>1. by = "redis" /\ me.now >= reached /\ Cardinality(hits) <= Limit /\ me.now <= t
      BY <1>7, <2>2 DEF InWindow, Passed
    <3>2. ASSUME NEW h \in InWindow(t, by)' PROVE h \in hits
      <4>1. h \in Hit /\ t - Window < h.now /\ Passed(h, "redis")'
        BY <3>1, <3>2 DEF InWindow, Passed
      <4>2. h.now > reached - Window
        BY <1>1, <1>5, <3>1, <4>1 DEF TypeInv, Time
      <4> QED  BY <1>2, <1>7, <3>1, <4>1, <4>2 DEF RedisInv
    <3> QED  BY <3>1, <3>2, Fits DEF TypeInv
  <2> QED  BY <2>1, <2>2
<1> QED  BY <1>6, <1>8, <1>9, <1>10

LEMMA FallbackStep == ASSUME IInv, NEW i \in Instance, Fallback(i) PROVE IInv'
<1> USE DEF IInv
<1> DEFINE me == asking[i].hit
           counted == After(memory[i], me.now - Window) \cup {me}
<1>1. asking[i] # NoHit /\ me \in Hit
  BY DEF Fallback, NoHit, TypeInv
<1>2. me.now <= clock /\ \A m \in memory[i] : m.now <= me.now
  BY <1>1 DEF RedisInv, MemoryInv
<1>3. asking' = [asking EXCEPT ![i] = NoHit]
  BY DEF Fallback, Answer
<1>4. asking'[i] = NoHit /\ \A j \in Instance \ {i} : asking'[j] = asking[j]
  BY <1>3 DEF TypeInv
<1>5. \A h \in Hit : h.now \in Int
  BY DEF Hit
<1>6. counted \subseteq Hit /\ IsFiniteSet(counted)
  BY <1>1, FS_Subset, FS_AddElement DEF After, TypeInv
<1>7. expiry' \in {expiry, Renewed} /\ expiry' \in Int
  BY DEF Fallback, Renewed, TypeInv, Time, Never
<1>8. ASSUME NEW h \in Hit, h.now <= clock, expiry # Never => h.now + Window <= expiry, expiry' # Never
       PROVE  h.now + Window <= expiry'
  BY <1>5, <1>7, <1>8 DEF Renewed, TypeInv, Time
<1>9. CASE ~inMemory
  <2>1. UNCHANGED <<memory, admitted, clock, hits, reached>>
    BY <1>9 DEF Fallback
  <2>2. TypeInv'
    BY <1>3, <1>7, <2>1 DEF TypeInv, Fallback
  <2>3. RedisInv' /\ MemoryInv'
    BY <1>4, <1>8, <2>1 DEF RedisInv, MemoryInv, Passed
  <2> QED  BY <2>1, <2>2, <2>3, SameWindows
<1>10. CASE inMemory
  <2>1. /\ memory' = [memory EXCEPT ![i] = counted]
        /\ admitted' = IF Cardinality(counted) <= Limit
                       THEN admitted \cup {[hit |-> me, by |-> i, late |-> FALSE]} ELSE admitted
        /\ UNCHANGED <<clock, hits, reached>>
    BY <1>10 DEF Fallback
  <2>2. memory'[i] = counted /\ \A j \in Instance \ {i} : memory'[j] = memory[j]
    BY <2>1 DEF TypeInv
  <2>3. TypeInv'
    BY <1>3, <1>6, <1>7, <2>1, <2>2 DEF TypeInv, Fallback
  <2>4. ASSUME NEW h \in Hit, NEW by \in Instance \cup {"redis"}, Passed(h, by)'
        PROVE  Passed(h, by) \/ (h = me /\ by = i /\ Cardinality(counted) <= Limit)
    BY <2>1, <2>4 DEF Passed
  <2>5. RedisInv'
    BY <1>4, <1>8, <2>1, <2>4 DEF RedisInv
  <2>6. ASSUME NEW h \in Hit, Passed(h, i)'
        PROVE  h \in counted \/ h.now <= me.now - Window
    <3>1. CASE h = me
      BY <3>1
    <3>2. CASE h \in memory[i]
      BY <1>1, <1>5, <3>2 DEF After
    <3>3. CASE \E m \in memory[i] : h.now <= m.now - Window
      <4>1. PICK m \in memory[i] : h.now <= m.now - Window
        BY <3>3
      <4>2. m \in Hit /\ m.now <= me.now
        BY <1>2 DEF TypeInv
      <4> QED  BY <1>1, <1>5, <4>1, <4>2
    <3> QED  BY <2>4, <2>6, <3>1, <3>2, <3>3 DEF MemoryInv
  <2>7. MemoryInv'
    <3> SUFFICES ASSUME NEW j \in Instance
                 PROVE  /\ \A m \in memory'[j] : m.now <= clock' /\ (asking'[j] # NoHit => m.now <= asking'[j].hit.now)
                        /\ \A h \in Hit : Passed(h, j)' =>
                             h \in memory'[j] \/ \E m \in memory'[j] : h.now <= m.now - Window
      BY DEF MemoryInv
    <3>1. CASE j = i
      <4>1. \A m \in counted : m.now <= clock
        BY <1>2 DEF After, MemoryInv
      <4> QED  BY <1>4, <2>1, <2>2, <2>6, <3>1, <4>1
    <3>2. CASE j # i
      BY <1>4, <2>1, <2>2, <2>4, <3>2 DEF MemoryInv
    <3> QED  BY <3>1, <3>2
  <2>8. WindowHolds'
    <3> SUFFICES ASSUME NEW t \in 0..MaxClock, NEW by \in Instance \cup {"redis"}
                 PROVE  Cardinality(InWindow(t, by)') <= Limit
      BY DEF WindowHolds
    <3>1. CASE InWindow(t, by)' \subseteq InWindow(t, by)
      <4>1. InWindow(t, by) \subseteq Hit /\ IsFiniteSet(Hit)
        BY HitIsFinite DEF InWindow
      <4> QED  BY <3>1, <4>1, Fits, FS_Subset DEF WindowHolds
    <3>2. CASE ~(InWindow(t, by)' \subseteq InWindow(t, by))
      <4>1. by = i /\ Cardinality(counted) <= Limit /\ me.now <= t
        BY <2>4, <3>2 DEF InWindow, Passed
      <4>2. ASSUME NEW h \in InWindow(t, by)' PROVE h \in counted
        <5>1. h \in Hit /\ t - Window < h.now /\ Passed(h, i)'
          BY <4>1, <4>2 DEF InWindow, Passed
        <5>2. ~(h.now <= me.now - Window)
          BY <1>1, <1>5, <4>1, <5>1
        <5> QED  BY <2>6, <5>1, <5>2
      <4> QED  BY <1>6, <4>1, <4>2, Fits
    <3> QED  BY <3>1, <3>2
  <2> QED  BY <2>3, <2>5, <2>7, <2>8
<1> QED  BY <1>9, <1>10

\* No window holds more than Limit counted requests, whatever the numbers of
\* instances, requests and commands under way (createSlidingWindowLimiter).
THEOREM LimitIsKept == LimiterSpec => []WindowHolds
<1>1. IInv /\ [LimiterNext]_limiterVars => IInv'
  <2> SUFFICES ASSUME IInv, [LimiterNext]_limiterVars PROVE IInv'
    OBVIOUS
  <2>1. ASSUME NEW i \in Instance, Ask(i) \/ Trim(i) \/ Add(i) \/ Count(i) \/ Fallback(i) PROVE IInv'
    BY <2>1, AskStep, TrimStep, AddStep, CountStep, FallbackStep
  <2>2. CASE UNCHANGED limiterVars
    BY <2>2 DEF limiterVars, IInv, TypeInv, RedisInv, MemoryInv, Passed, WindowHolds, InWindow
  <2> QED  BY <2>1, <2>2, TickStep DEF LimiterNext
<1>2. IInv => WindowHolds
  BY DEF IInv
<1> QED  BY InitIInv, <1>1, <1>2, PTL DEF LimiterSpec

=============================================================================
