------------------------------- MODULE Sums -------------------------------
(***************************************************************************)
(* The sum of a function over a finite set, which the modules write with   *)
(* the folds of the community modules.  It does not depend on the order in *)
(* which CHOOSE takes the elements, for it counts the points below the     *)
(* function's graph.                                                       *)
(***************************************************************************)
EXTENDS Functions, FiniteSetTheorems, TLAPS

Points(f, S) == UNION {{i} \X (1..f[i]) : i \in S}

\* A non-empty collection of subsets of a finite set has a smallest one.
LEMMA SmallestSet ==
  ASSUME NEW S, IsFiniteSet(S), NEW T \in SUBSET SUBSET S, T # {}
  PROVE  \E s \in T : \A t \in T : Cardinality(s) <= Cardinality(t)
<1> DEFINE sizes == {Cardinality(t) : t \in T}
<1>1. \A t \in T : Cardinality(t) \in Nat
  BY FS_Subset, FS_CardinalityType
<1>2. sizes \subseteq Nat /\ sizes # {}
  BY <1>1
<1>3. PICK n \in sizes : \A m \in sizes : ~(<<m, n>> \in OpToRel(<, Nat))
  <2> HIDE DEF sizes
  <2> QED  BY <1>2, NatLessThanWellFounded, WFMin
<1>4. \A m \in sizes : ~(m < n)
  BY <1>2, <1>3 DEF OpToRel
<1>5. PICK s \in T : Cardinality(s) = n
  OBVIOUS
<1> QED  BY <1>1, <1>4, <1>5

LEMMA Column ==
  ASSUME NEW i, NEW n \in Nat
  PROVE  IsFiniteSet({i} \X (1..n)) /\ Cardinality({i} \X (1..n)) = n
<1>1. IsFiniteSet(1..n) /\ Cardinality(1..n) = n
  BY FS_Interval
<1>2. IsFiniteSet({i}) /\ Cardinality({i}) = 1
  BY FS_Singleton
<1>3. IsFiniteSet({i} \X (1..n)) /\ Cardinality({i} \X (1..n)) = 1 * n
  BY <1>1, <1>2, FS_Product
<1> QED  BY <1>3

LEMMA PointsNone == \A f : Points(f, {}) = {}
  BY DEF Points

LEMMA PointsAdd ==
  ASSUME NEW f, NEW S, IsFiniteSet(Points(f, S)), NEW x, x \notin S, f[x] \in Nat
  PROVE  /\ IsFiniteSet(Points(f, S \cup {x}))
         /\ Cardinality(Points(f, S \cup {x})) = f[x] + Cardinality(Points(f, S))
<1> DEFINE column == {x} \X (1..f[x])
<1>1. Points(f, S \cup {x}) = Points(f, S) \cup column
  BY DEF Points
<1>2. Points(f, S) \cap column = {}
  BY DEF Points
<1>3. IsFiniteSet(column) /\ Cardinality(column) = f[x]
  BY Column
<1>4. Cardinality(Points(f, S)) \in Nat
  BY FS_CardinalityType
<1>5. Cardinality({}) = 0
  BY FS_EmptySet
<1> HIDE DEF column
<1>6. /\ IsFiniteSet(Points(f, S) \cup column)
      /\ Cardinality(Points(f, S) \cup column) =
           Cardinality(Points(f, S)) + Cardinality(column) - Cardinality(Points(f, S) \cap column)
  BY <1>3, FS_Union
<1>7. Cardinality(Points(f, S) \cap column) = 0
  BY <1>2, <1>5
<1>8. Cardinality(Points(f, S) \cup column) = f[x] + Cardinality(Points(f, S))
  BY <1>3, <1>4, <1>6, <1>7
<1> QED  BY <1>1, <1>6, <1>8

LEMMA PointsFinite ==
  ASSUME NEW S, IsFiniteSet(S), NEW f, \A i \in S : f[i] \in Nat
  PROVE  \A s \in SUBSET S : IsFiniteSet(Points(f, s))
<1> DEFINE T == {s \in SUBSET S : ~IsFiniteSet(Points(f, s))}
<1> SUFFICES ASSUME T # {} PROVE FALSE
  OBVIOUS
<1>1. PICK s \in T : \A t \in T : Cardinality(s) <= Cardinality(t)
  <2>1. T \in SUBSET SUBSET S
    OBVIOUS
  <2> HIDE DEF T
  <2> QED  BY <2>1, SmallestSet
<1>2. s # {}
  BY PointsNone, FS_EmptySet
<1>3. PICK x \in s : TRUE
  BY <1>2
<1>4. IsFiniteSet(s) /\ Cardinality(s) \in Nat /\ Cardinality(s \ {x}) = Cardinality(s) - 1
  BY FS_Subset, FS_CardinalityType, FS_RemoveElement
<1>5. s \ {x} \notin T
  BY <1>1, <1>4
<1>6. IsFiniteSet(Points(f, s \ {x}))
  BY <1>5
<1>7. s = (s \ {x}) \cup {x} /\ x \notin s \ {x} /\ f[x] \in Nat
  OBVIOUS
<1>8. IsFiniteSet(Points(f, s))
  BY <1>6, <1>7, PointsAdd
<1> QED  BY <1>8

\* One element taken out of a finite set takes its value out of the count.
LEMMA PointsRemove ==
  ASSUME NEW S, IsFiniteSet(S), NEW f, \A i \in S : f[i] \in Nat, NEW x \in S
  PROVE  Cardinality(Points(f, S)) = f[x] + Cardinality(Points(f, S \ {x}))
<1>1. IsFiniteSet(Points(f, S \ {x}))
  BY PointsFinite
<1>2. S = (S \ {x}) \cup {x} /\ x \notin S \ {x} /\ f[x] \in Nat
  OBVIOUS
<1> QED  BY <1>1, <1>2, PointsAdd

Fold(f, S) ==
  CHOOSE it : it = [s \in SUBSET S |->
    IF s = {} THEN 0 ELSE f[CHOOSE x \in s : TRUE] + it[s \ {CHOOSE x \in s : TRUE}]]

\* The recursive function of the fold exists, and is the count.
LEMMA FoldCounts ==
  ASSUME NEW S, IsFiniteSet(S), NEW f, \A i \in S : f[i] \in Nat
  PROVE  Fold(f, S)[S] = Cardinality(Points(f, S))
<1> DEFINE pick(s) == CHOOSE x \in s : TRUE
           Step(it, s) == IF s = {} THEN 0 ELSE f[pick(s)] + it[s \ {pick(s)}]
           count == [s \in SUBSET S |-> Cardinality(Points(f, s))]
           it == Fold(f, S)
           T == {s \in SUBSET S : it[s] # Cardinality(Points(f, s))}
<1>1. \A s \in SUBSET S : s # {} => pick(s) \in s /\ s \ {pick(s)} \in SUBSET S
  OBVIOUS
<1>2. \A s \in SUBSET S : IsFiniteSet(s) /\ \A i \in s : f[i] \in Nat
  BY FS_Subset
<1>3. ASSUME NEW s \in SUBSET S, s # {}
      PROVE  Cardinality(Points(f, s)) = f[pick(s)] + Cardinality(Points(f, s \ {pick(s)}))
  <2>1. PICK x \in s : x = pick(s)
    BY <1>1, <1>3
  <2>2. Cardinality(Points(f, s)) = f[x] + Cardinality(Points(f, s \ {x}))
    BY <1>2, PointsRemove
  <2> QED  BY <2>1, <2>2
<1>4. Cardinality(Points(f, {})) = 0
  BY PointsNone, FS_EmptySet
<1>5. count = [s \in SUBSET S |-> Step(count, s)]
  <2> SUFFICES ASSUME NEW s \in SUBSET S PROVE Cardinality(Points(f, s)) = Step(count, s)
    OBVIOUS
  <2> QED  BY <1>1, <1>3, <1>4
<1>6. it = [s \in SUBSET S |-> Step(it, s)]
  <2>1. it = CHOOSE g : g = [s \in SUBSET S |-> Step(g, s)]
    BY DEF Fold
  <2>2. \E g : g = [s \in SUBSET S |-> Step(g, s)]
    BY <1>5
  <2> QED  BY <2>1, <2>2
<1> HIDE DEF it
<1> SUFFICES ASSUME T # {} PROVE FALSE
  BY DEF it
<1>7. PICK s \in T : \A t \in T : Cardinality(s) <= Cardinality(t)
  <2>1. T \in SUBSET SUBSET S
    OBVIOUS
  <2> HIDE DEF T
  <2> QED  BY <2>1, SmallestSet
<1>8. it[s] = Step(it, s)
  BY <1>6
<1>9. s # {}
  BY <1>4, <1>8
<1>10. PICK x \in s : x = pick(s)
  BY <1>1, <1>9
<1>11. IsFiniteSet(s) /\ Cardinality(s) \in Nat /\ Cardinality(s \ {x}) = Cardinality(s) - 1
  BY <1>2, <1>10, FS_CardinalityType, FS_RemoveElement
<1>12. s \ {x} \in SUBSET S /\ s \ {x} \notin T
  BY <1>7, <1>11
<1>13. it[s \ {x}] = Cardinality(Points(f, s \ {x}))
  BY <1>12
<1>14. it[s] = f[x] + it[s \ {x}]
  BY <1>8, <1>9, <1>10
<1>15. Cardinality(Points(f, s)) = f[x] + Cardinality(Points(f, s \ {x}))
  BY <1>3, <1>9, <1>10
<1> QED  BY <1>7, <1>13, <1>14, <1>15

LEMMA FunctionSumIs ==
  ASSUME NEW f, NEW S
  PROVE  FoldFunctionOnSet(+, 0, f, S) = Fold(f, S)[S]
  BY DEF FoldFunctionOnSet, MapThenFoldSet, Fold

\* A sum over a finite set, as the folds write it, counts the points below the graph.
LEMMA SumCounts ==
  ASSUME NEW S, IsFiniteSet(S), NEW f, \A i \in S : f[i] \in Nat
  PROVE  /\ FoldFunctionOnSet(+, 0, f, S) = Cardinality(Points(f, S))
         /\ FoldFunctionOnSet(+, 0, f, S) \in Nat
<1>1. S \in SUBSET S
  OBVIOUS
<1>2. Cardinality(Points(f, S)) \in Nat
  BY <1>1, PointsFinite, FS_CardinalityType
<1> QED  BY <1>2, FoldCounts, FunctionSumIs

\* Any element may be taken out first.
LEMMA SumTakesOut ==
  ASSUME NEW S, IsFiniteSet(S), NEW f, \A i \in S : f[i] \in Nat, NEW x \in S
  PROVE  FoldFunctionOnSet(+, 0, f, S) = f[x] + FoldFunctionOnSet(+, 0, f, S \ {x})
<1>1. IsFiniteSet(S \ {x}) /\ \A i \in S \ {x} : f[i] \in Nat
  BY FS_RemoveElement
<1>2. FoldFunctionOnSet(+, 0, f, S \ {x}) = Cardinality(Points(f, S \ {x}))
  BY <1>1, SumCounts
<1>3. FoldFunctionOnSet(+, 0, f, S) = Cardinality(Points(f, S))
  BY SumCounts
<1> QED  BY <1>2, <1>3, PointsRemove

LEMMA SumOfNone == \A f : FoldFunctionOnSet(+, 0, f, {}) = 0
<1> SUFFICES ASSUME NEW f PROVE FoldFunctionOnSet(+, 0, f, {}) = 0
  OBVIOUS
<1>1. IsFiniteSet({}) /\ \A i \in {} : f[i] \in Nat
  BY FS_EmptySet
<1> QED  BY <1>1, SumCounts, PointsNone, FS_EmptySet

\* A sum grows with its set, and looks at the function only on the set.
LEMMA SumGrows ==
  ASSUME NEW S, IsFiniteSet(S), NEW R \in SUBSET S, NEW f, \A i \in S : f[i] \in Nat
  PROVE  FoldFunctionOnSet(+, 0, f, R) <= FoldFunctionOnSet(+, 0, f, S)
<1>1. IsFiniteSet(R) /\ \A i \in R : f[i] \in Nat
  BY FS_Subset
<1>2. Points(f, R) \in SUBSET Points(f, S)
  BY DEF Points
<1>3. IsFiniteSet(Points(f, S))
  BY PointsFinite
<1>4. Cardinality(Points(f, R)) <= Cardinality(Points(f, S))
  BY <1>2, <1>3, FS_Subset
<1>5. /\ FoldFunctionOnSet(+, 0, f, R) = Cardinality(Points(f, R))
      /\ FoldFunctionOnSet(+, 0, f, S) = Cardinality(Points(f, S))
  BY <1>1, SumCounts
<1> QED  BY <1>4, <1>5

LEMMA SumSame ==
  ASSUME NEW S, IsFiniteSet(S), NEW f, NEW g, \A i \in S : f[i] \in Nat /\ g[i] = f[i]
  PROVE  FoldFunctionOnSet(+, 0, g, S) = FoldFunctionOnSet(+, 0, f, S)
<1>1. Points(g, S) = Points(f, S)
  BY DEF Points
<1>2. \A i \in S : f[i] \in Nat /\ g[i] \in Nat
  OBVIOUS
<1>3. FoldFunctionOnSet(+, 0, f, S) = Cardinality(Points(f, S))
  BY <1>2, SumCounts
<1>4. FoldFunctionOnSet(+, 0, g, S) = Cardinality(Points(g, S))
  BY <1>2, SumCounts
<1> QED  BY <1>1, <1>3, <1>4
=============================================================================
