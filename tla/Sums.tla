-------------------------------- MODULE Sums --------------------------------
(***************************************************************************)
(* What the sums of the community modules (MapThenSumSet, FoldFunction)    *)
(* add up to, for any finite set of indices: they fold over the subsets of *)
(* the set with a recursive function, so each lemma is an induction over   *)
(* finite sets.  Induction is by a least counterexample: among the subsets *)
(* for which a statement is false there would be one without a smaller one *)
(* (LeastSubset), which the recursion refutes.                             *)
(***************************************************************************)
EXTENDS FiniteSetsExt, Functions, Integers, FiniteSetTheorems, TLAPS

Picked(s) == CHOOSE x \in s : TRUE

Unfolding(n, f, s) == IF s = {} THEN 0 ELSE n[Picked(s)] + f[s \ {Picked(s)}]

(* f has the sum of n over each subset of S.                               *)
Adds(n, f, S) == f = [s \in SUBSET S |-> Unfolding(n, f, s)]

Totals(n, S) == CHOOSE f : Adds(n, f, S)

Total(n, S) == Totals(n, S)[S]

-----------------------------------------------------------------------------
LEMMA LeastSubset ==
  ASSUME NEW S, IsFiniteSet(S), NEW T, T \subseteq SUBSET S, T # {}
  PROVE  \E U \in T : \A V \in T : ~(V \subseteq U /\ V # U)
<1>1. IsWellFoundedOn(StrictSubsetOrdering(S), FiniteSubsetsOf(S))
  BY FS_StrictSubsetOrderingWellFounded
<1>2. T \subseteq FiniteSubsetsOf(S)
  BY FS_Subset DEF FiniteSubsetsOf
<1>3. \E U \in T : \A V \in T : <<V, U>> \notin StrictSubsetOrdering(S)
  BY <1>1, <1>2, WFMin
<1> QED
  BY <1>3 DEF StrictSubsetOrdering

LEMMA PickedIsIn ==
  ASSUME NEW s, s # {}
  PROVE  /\ Picked(s) \in s
         /\ s \ {Picked(s)} \subseteq s /\ s \ {Picked(s)} # s
BY DEF Picked

(* Two such functions agree where both are defined.                        *)
LEMMA TotalsAgree ==
  ASSUME NEW n, NEW S, IsFiniteSet(S), NEW f, NEW g, NEW R, NEW Q,
         S \subseteq R, S \subseteq Q, Adds(n, f, R), Adds(n, g, Q)
  PROVE  f[S] = g[S]
<1>1. PICK T : T = {s \in SUBSET S : f[s] # g[s]}
  OBVIOUS
<1>2. SUFFICES ASSUME T # {} PROVE FALSE
  BY <1>1
<1>3. PICK U \in T : \A V \in T : ~(V \subseteq U /\ V # U)
  <2>1. T \subseteq SUBSET S
    BY <1>1
  <2> QED
    BY <1>2, <2>1, LeastSubset
<1>4. f[U] = Unfolding(n, f, U) /\ g[U] = Unfolding(n, g, U)
  BY <1>1 DEF Adds
<1>5. U # {}
  BY <1>1, <1>3, <1>4 DEF Unfolding
<1>6. U \ {Picked(U)} \notin T /\ U \ {Picked(U)} \in SUBSET S
  BY <1>1, <1>3, <1>5, PickedIsIn
<1>7. f[U \ {Picked(U)}] = g[U \ {Picked(U)}]
  BY <1>1, <1>6
<1> QED
  BY <1>1, <1>3, <1>4, <1>5, <1>7 DEF Unfolding

LEMMA TotalsExist ==
  ASSUME NEW n, NEW S, IsFiniteSet(S)
  PROVE  \E f : Adds(n, f, S)
<1>1. PICK T : T = {s \in SUBSET S : ~\E f : Adds(n, f, s)}
  OBVIOUS
<1>2. SUFFICES ASSUME T # {} PROVE FALSE
  BY <1>1
<1>3. PICK U \in T : \A V \in T : ~(V \subseteq U /\ V # U)
  <2>1. T \subseteq SUBSET S
    BY <1>1
  <2> QED
    BY <1>2, <2>1, LeastSubset
<1>4. \A V \in SUBSET U : V # U => Adds(n, Totals(n, V), V)
  <2> SUFFICES ASSUME NEW V \in SUBSET U, V # U PROVE Adds(n, Totals(n, V), V)
    OBVIOUS
  <2>1. \E f : Adds(n, f, V)
    BY <1>1, <1>3
  <2> QED
    BY <2>1 DEF Totals
<1>5. PICK h : h = [s \in SUBSET U |->
                      IF s = {} THEN 0
                      ELSE n[Picked(s)] + Total(n, s \ {Picked(s)})]
  OBVIOUS
<1>6. ASSUME NEW V \in SUBSET U, V # U PROVE h[V] = Total(n, V)
  <2>1. Adds(n, Totals(n, V), V)
    BY <1>4, <1>6
  <2>2. Total(n, V) = Unfolding(n, Totals(n, V), V)
    BY <2>1 DEF Adds, Total
  <2>3. CASE V = {}
    BY <1>5, <2>2, <2>3 DEF Unfolding
  <2>4. CASE V # {}
    <3>1. PICK W : W = V \ {Picked(V)} /\ W \subseteq V /\ W # V
      BY <2>4, PickedIsIn
    <3>2. Adds(n, Totals(n, W), W)
      BY <1>4, <1>6, <3>1
    <3>3. IsFiniteSet(W)
      BY <1>1, <1>6, <3>1, FS_Subset
    <3>4. Totals(n, V)[W] = Total(n, W)
      BY <2>1, <3>1, <3>2, <3>3, TotalsAgree DEF Total
    <3> QED
      BY <1>5, <2>2, <2>4, <3>1, <3>4 DEF Unfolding
  <2> QED
    BY <2>3, <2>4
<1>7. \A s \in SUBSET U : s # {} =>
        h[s \ {Picked(s)}] = Total(n, s \ {Picked(s)})
  <2> SUFFICES ASSUME NEW s \in SUBSET U, s # {}
               PROVE  h[s \ {Picked(s)}] = Total(n, s \ {Picked(s)})
    OBVIOUS
  <2>1. s \ {Picked(s)} \in SUBSET U /\ s \ {Picked(s)} # U
    BY PickedIsIn
  <2> QED
    BY <1>6, <2>1
<1>8. Adds(n, h, U)
  BY <1>5, <1>7 DEF Adds, Unfolding
<1> QED
  BY <1>1, <1>3, <1>8

LEMMA TotalsAdd ==
  ASSUME NEW n, NEW S, IsFiniteSet(S)
  PROVE  Adds(n, Totals(n, S), S)
BY TotalsExist DEF Totals

(* The recursion, without the functions.                                   *)
LEMMA TotalUnfolds ==
  ASSUME NEW n, NEW S, IsFiniteSet(S)
  PROVE  /\ Total(n, {}) = 0
         /\ S # {} => Total(n, S) = n[Picked(S)] + Total(n, S \ {Picked(S)})
<1>1. Total(n, {}) = 0
  <2>1. Adds(n, Totals(n, {}), {})
    BY TotalsAdd, FS_EmptySet
  <2> QED
    BY <2>1 DEF Adds, Total, Unfolding
<1>2. ASSUME S # {} PROVE Total(n, S) = n[Picked(S)] + Total(n, S \ {Picked(S)})
  <2>1. PICK W : W = S \ {Picked(S)} /\ W \subseteq S
    BY <1>2, PickedIsIn
  <2>2. IsFiniteSet(W)
    BY <2>1, FS_Subset
  <2>3. Adds(n, Totals(n, S), S) /\ Adds(n, Totals(n, W), W)
    BY <2>2, TotalsAdd
  <2>4. Totals(n, S)[W] = Total(n, W)
    BY <2>1, <2>2, <2>3, TotalsAgree DEF Total
  <2>5. Totals(n, S)[S] = Unfolding(n, Totals(n, S), S)
    BY <2>3 DEF Adds
  <2> QED
    BY <1>2, <2>1, <2>4, <2>5 DEF Total, Unfolding
<1> QED
  BY <1>1, <1>2

LEMMA TotalEmpty ==
  ASSUME NEW n PROVE Total(n, {}) = 0
BY TotalUnfolds, FS_EmptySet

LEMMA SumIsTotal ==
  ASSUME NEW n, NEW S
  PROVE  MapThenSumSet(LAMBDA x : n[x], S) = Total(n, S)
BY DEF MapThenSumSet, MapThenFoldSet, Total, Totals, Adds, Unfolding, Picked

LEMMA FoldIsTotal ==
  ASSUME NEW n
  PROVE  FoldFunction(+, 0, n) = Total(n, DOMAIN n)
BY DEF FoldFunction, FoldFunctionOnSet, MapThenFoldSet, Total, Totals, Adds, Unfolding, Picked

-----------------------------------------------------------------------------
(* Sums of natural numbers.                                                *)
LEMMA TotalType ==
  ASSUME NEW n, NEW S, IsFiniteSet(S), \A x \in S : n[x] \in Nat
  PROVE  Total(n, S) \in Nat
<1>1. PICK T : T = {s \in SUBSET S : Total(n, s) \notin Nat}
  OBVIOUS
<1>2. SUFFICES ASSUME T # {} PROVE FALSE
  BY <1>1
<1>3. PICK U \in T : \A V \in T : ~(V \subseteq U /\ V # U)
  <2>1. T \subseteq SUBSET S
    BY <1>1
  <2> QED
    BY <1>2, <2>1, LeastSubset
<1>4. IsFiniteSet(U) /\ U \subseteq S
  BY <1>1, FS_Subset
<1>5. U # {}
  <2>1. Total(n, {}) \in Nat
    BY TotalEmpty
  <2> QED
    BY <1>1, <2>1
<1>6. PICK p \in U, W \in SUBSET U : p = Picked(U) /\ W = U \ {p} /\ W \subseteq U /\ W # U
  BY <1>5, PickedIsIn
<1>7. Total(n, W) \in Nat
  BY <1>1, <1>3, <1>4, <1>6
<1>8. Total(n, U) = n[p] + Total(n, W)
  BY <1>4, <1>5, <1>6, TotalUnfolds
<1>9. n[p] \in Nat
  BY <1>4
<1> QED
  BY <1>1, <1>7, <1>8, <1>9

(* Any index may be taken out of a sum, not just the one picked.           *)
LEMMA TotalTake ==
  ASSUME NEW n, NEW S, IsFiniteSet(S), \A x \in S : n[x] \in Nat, NEW x \in S
  PROVE  Total(n, S) = n[x] + Total(n, S \ {x})
<1>1. PICK T : T = {s \in SUBSET S : \E y \in s : Total(n, s) # n[y] + Total(n, s \ {y})}
  OBVIOUS
<1>2. SUFFICES ASSUME T # {} PROVE FALSE
  BY <1>1
<1>3. PICK U \in T : \A V \in T : ~(V \subseteq U /\ V # U)
  <2>1. T \subseteq SUBSET S
    BY <1>1
  <2> QED
    BY <1>2, <2>1, LeastSubset
<1>4. /\ U \subseteq S
      /\ \A V : V \subseteq S => IsFiniteSet(V) /\ Total(n, V) \in Nat
  BY <1>1, FS_Subset, TotalType
<1>5. PICK y \in U : Total(n, U) # n[y] + Total(n, U \ {y})
  BY <1>1
<1>6. PICK p \in U : p = Picked(U)
  BY PickedIsIn
<1>7. Total(n, U) = n[p] + Total(n, U \ {p})
  BY <1>4, <1>6, TotalUnfolds
<1>8. p # y
  BY <1>5, <1>7
<1>9. U \ {p} \notin T /\ U \ {y} \notin T
  BY <1>3
<1>10. /\ Total(n, U \ {p}) = n[y] + Total(n, (U \ {p}) \ {y})
       /\ Total(n, U \ {y}) = n[p] + Total(n, (U \ {y}) \ {p})
  <2>1. /\ U \ {p} \in SUBSET S /\ y \in U \ {p}
        /\ U \ {y} \in SUBSET S /\ p \in U \ {y}
    BY <1>4, <1>8
  <2> QED
    BY <1>1, <1>9, <2>1
<1>11. (U \ {p}) \ {y} = (U \ {y}) \ {p}
  OBVIOUS
<1>12. /\ n[p] \in Nat /\ n[y] \in Nat
       /\ Total(n, (U \ {y}) \ {p}) \in Nat
  BY <1>4
<1> QED
  BY <1>5, <1>7, <1>10, <1>11, <1>12

(* Equal terms, equal sums; terms that do not shrink, a sum that does not. *)
LEMMA TotalMonotone ==
  ASSUME NEW n, NEW m, NEW S, IsFiniteSet(S),
         \A x \in S : n[x] \in Nat /\ m[x] \in Nat /\ n[x] <= m[x]
  PROVE  Total(n, S) <= Total(m, S)
<1>1. PICK T : T = {s \in SUBSET S : ~(Total(n, s) <= Total(m, s))}
  OBVIOUS
<1>2. SUFFICES ASSUME T # {} PROVE FALSE
  BY <1>1
<1>3. PICK U \in T : \A V \in T : ~(V \subseteq U /\ V # U)
  <2>1. T \subseteq SUBSET S
    BY <1>1
  <2> QED
    BY <1>2, <2>1, LeastSubset
<1>4. IsFiniteSet(U) /\ U \subseteq S
  BY <1>1, FS_Subset
<1>5. U # {}
  BY <1>1, TotalEmpty
<1>6. PICK p \in U, W \in SUBSET U : p = Picked(U) /\ W = U \ {p} /\ W \subseteq U /\ W # U
  BY <1>5, PickedIsIn
<1>7. Total(n, W) <= Total(m, W)
  BY <1>1, <1>3, <1>4, <1>6
<1>8. Total(n, U) = n[p] + Total(n, W) /\ Total(m, U) = m[p] + Total(m, W)
  BY <1>4, <1>5, <1>6, TotalUnfolds
<1>9. Total(n, W) \in Nat /\ Total(m, W) \in Nat
  <2>1. W \subseteq S /\ IsFiniteSet(W)
    BY <1>4, <1>6, FS_Subset
  <2>2. \A x \in W : n[x] \in Nat /\ m[x] \in Nat
    BY <2>1
  <2> QED
    BY <2>1, <2>2, TotalType
<1>10. n[p] \in Nat /\ m[p] \in Nat /\ n[p] <= m[p]
  BY <1>4
<1> QED
  BY <1>1, <1>7, <1>8, <1>9, <1>10

LEMMA TotalSame ==
  ASSUME NEW n, NEW m, NEW S, IsFiniteSet(S),
         \A x \in S : n[x] \in Nat /\ m[x] = n[x]
  PROVE  Total(m, S) = Total(n, S)
<1>1. Total(n, S) <= Total(m, S) /\ Total(m, S) <= Total(n, S)
  <2>1. \A x \in S : n[x] \in Nat /\ m[x] \in Nat /\ n[x] <= m[x] /\ m[x] <= n[x]
    OBVIOUS
  <2> QED
    BY <2>1, TotalMonotone
<1>2. Total(n, S) \in Nat /\ Total(m, S) \in Nat
  BY TotalType
<1> QED
  BY <1>1, <1>2

(* One more at one index is one more in the sum.                           *)
LEMMA TotalBump ==
  ASSUME NEW n, NEW m, NEW S, IsFiniteSet(S), NEW x \in S,
         \A y \in S : n[y] \in Nat, m[x] = n[x] + 1, \A y \in S \ {x} : m[y] = n[y]
  PROVE  Total(m, S) = Total(n, S) + 1
<1>1. IsFiniteSet(S \ {x})
  BY FS_Subset
<1>2. \A y \in S : m[y] \in Nat
  OBVIOUS
<1>3. Total(n, S) = n[x] + Total(n, S \ {x})
  BY TotalTake
<1>4. Total(m, S) = m[x] + Total(m, S \ {x})
  BY <1>2, TotalTake
<1>5. Total(m, S \ {x}) = Total(n, S \ {x})
  BY <1>1, TotalSame
<1>6. n[x] \in Nat /\ Total(n, S \ {x}) \in Nat
  BY <1>1, TotalType
<1> QED
  BY <1>3, <1>4, <1>5, <1>6

LEMMA TotalZero ==
  ASSUME NEW n, NEW S, IsFiniteSet(S), \A x \in S : n[x] = 0
  PROVE  Total(n, S) = 0
<1>1. PICK T : T = {s \in SUBSET S : Total(n, s) # 0}
  OBVIOUS
<1>2. SUFFICES ASSUME T # {} PROVE FALSE
  BY <1>1
<1>3. PICK U \in T : \A V \in T : ~(V \subseteq U /\ V # U)
  <2>1. T \subseteq SUBSET S
    BY <1>1
  <2> QED
    BY <1>2, <2>1, LeastSubset
<1>4. IsFiniteSet(U) /\ U \subseteq S
  BY <1>1, FS_Subset
<1>5. U # {}
  BY <1>1, TotalEmpty
<1>6. PICK p \in U, W \in SUBSET U : p = Picked(U) /\ W = U \ {p} /\ W \subseteq U /\ W # U
  BY <1>5, PickedIsIn
<1>7. Total(n, U) = n[p] + Total(n, W) /\ Total(n, W) = 0 /\ n[p] = 0
  BY <1>1, <1>3, <1>4, <1>5, <1>6, TotalUnfolds
<1> QED
  BY <1>1, <1>7

-----------------------------------------------------------------------------
(* Counting by group and adding the counts is counting.                    *)
Group(D, g, S) == {x \in D : g[x] \in S}

LEMMA CountsAdd ==
  ASSUME NEW D, IsFiniteSet(D), NEW g, NEW S, IsFiniteSet(S), NEW f,
         \A s \in S : f[s] = Cardinality(Group(D, g, {s}))
  PROVE  Total(f, S) = Cardinality(Group(D, g, S))
<1>1. PICK T : T = {s \in SUBSET S : Total(f, s) # Cardinality(Group(D, g, s))}
  OBVIOUS
<1>2. SUFFICES ASSUME T # {} PROVE FALSE
  BY <1>1
<1>3. PICK U \in T : \A V \in T : ~(V \subseteq U /\ V # U)
  <2>1. T \subseteq SUBSET S
    BY <1>1
  <2> QED
    BY <1>2, <2>1, LeastSubset
<1>4. IsFiniteSet(U) /\ U \subseteq S
  BY <1>1, FS_Subset
<1>5. U # {}
  <2>1. Group(D, g, {}) = {}
    BY DEF Group
  <2>2. Total(f, {}) = Cardinality(Group(D, g, {}))
    BY <2>1, TotalEmpty, FS_EmptySet
  <2> QED
    BY <1>1, <2>2
<1>6. PICK p \in U, W \in SUBSET U : p = Picked(U) /\ W = U \ {p} /\ W \subseteq U /\ W # U
  BY <1>5, PickedIsIn
<1>7. PICK A, B, C : /\ A = Group(D, g, {p})
                     /\ B = Group(D, g, W)
                     /\ C = Group(D, g, U)
  OBVIOUS
<1>8. IsFiniteSet(A) /\ IsFiniteSet(B) /\ A \cup B = C /\ A \cap B = {}
  BY <1>6, <1>7, FS_Subset DEF Group
<1>9. /\ Cardinality(A) \in Nat /\ Cardinality(B) \in Nat
      /\ Cardinality(C) = Cardinality(A) + Cardinality(B)
  <2>1. Cardinality(A \cup B) = Cardinality(A) + Cardinality(B) - Cardinality(A \cap B)
    BY <1>8, FS_Union
  <2>2. Cardinality(A \cap B) = 0
    BY <1>8, FS_EmptySet
  <2>3. Cardinality(A) \in Nat /\ Cardinality(B) \in Nat
    BY <1>8, FS_CardinalityType
  <2>4. Cardinality(A \cup B) = Cardinality(C)
    BY <1>8
  <2> QED
    BY <2>1, <2>2, <2>3, <2>4
<1>10. Total(f, W) = Cardinality(B)
  BY <1>1, <1>3, <1>4, <1>6, <1>7
<1>11. Total(f, U) = f[p] + Total(f, W) /\ f[p] = Cardinality(A)
  BY <1>4, <1>5, <1>6, <1>7, TotalUnfolds
<1> QED
  BY <1>1, <1>7, <1>9, <1>10, <1>11
=============================================================================
