-------------------------- MODULE AllocationProofs --------------------------
(***************************************************************************)
(* For any fleet, any tasks and any floor: what either allocator returns   *)
(* passes the independent check, greedy leaves no pairing undone, and the  *)
(* one weighted sum that CP-SAT is given has its maxima where tasks come   *)
(* first and cost second.                                                  *)
(*                                                                         *)
(* Sums over sets are folds in an order nobody knows; the first part shows *)
(* that the order does not matter.                                         *)
(***************************************************************************)
EXTENDS AllocationProperties, GridProofs, TLAPS

-----------------------------------------------------------------------------
(* Induction over the subsets of a finite set.                             *)

LEMMA SubsetInduction ==
  ASSUME NEW S, IsFiniteSet(S), NEW Q, {} \in Q,
         \A s \in SUBSET S : s # {} /\ (\A x \in s : s \ {x} \in Q) => s \in Q
  PROVE  SUBSET S \subseteq Q
<1> DEFINE Bad == {s \in SUBSET S : s \notin Q}
           Sizes == {Cardinality(s) : s \in Bad}
<1>1. SUFFICES ASSUME Bad # {} PROVE FALSE
  OBVIOUS
<1>2. \A s \in SUBSET S : IsFiniteSet(s) /\ Cardinality(s) \in Nat
  BY FS_Subset, FS_CardinalityType
<1>3. Sizes \subseteq Nat /\ Sizes # {}
  BY <1>1, <1>2
<1>4. PICK n \in Sizes : \A m \in Sizes : n <= m
  <2> HIDE DEF Sizes
  <2>. QED  BY <1>3, LeastNumber
<1>5. PICK s \in Bad : Cardinality(s) = n
  OBVIOUS
<1>6. s \in SUBSET S /\ s \notin Q /\ s # {}
  OBVIOUS
<1>7. PICK x \in s : s \ {x} \notin Q
  BY <1>6
<1>8. s \ {x} \in SUBSET S /\ Cardinality(s \ {x}) = Cardinality(s) - 1
  BY <1>2, <1>6, <1>7, FS_RemoveElement
<1>9. Cardinality(s \ {x}) \in Sizes
  BY <1>7, <1>8
<1>10. n <= Cardinality(s \ {x})
  BY <1>4, <1>9
<1>11. Cardinality(s) \in Nat /\ Cardinality(s) = n /\ Cardinality(s \ {x}) = n - 1
  BY <1>2, <1>5, <1>6, <1>8
<1> HIDE DEF Bad, Sizes
<1>. QED  BY <1>10, <1>11

-----------------------------------------------------------------------------
(* Sums.                                                                   *)

AnyOf(s) == CHOOSE x \in s : TRUE

(* g has the sums of f over the subsets of S, summed in the order of       *)
(* MapThenSumSet.                                                          *)
HasSums(g, f, S) ==
  /\ g \in [SUBSET S -> Nat]
  /\ g[{}] = 0
  /\ \A s \in SUBSET S : s # {} => g[s] = f[AnyOf(s)] + g[s \ {AnyOf(s)}]

(* The same, whichever element is taken first.                             *)
TakesAnyFirst(g, f, S) ==
  \A s \in SUBSET S : \A x \in s : g[s] = f[x] + g[s \ {x}]

LEMMA AnyOfIsIn ==
  ASSUME NEW s, s # {}
  PROVE  AnyOf(s) \in s
BY DEF AnyOf

LEMMA SumsExist ==
  ASSUME NEW S, IsFiniteSet(S), NEW f \in [S -> Nat]
  PROVE  \E g : HasSums(g, f, S)
<1> DEFINE N == Cardinality(S)
           V == [SUBSET S -> Nat]
           Base == [s \in SUBSET S |-> 0]
           Longer(h) == [s \in SUBSET S |->
                           IF s = {} THEN 0 ELSE f[AnyOf(s)] + h[s \ {AnyOf(s)}]]
           F == [p \in (1 .. N + 1) \X V |-> Longer(p[2])]
<1>1. /\ N \in Nat /\ N + 1 \in Nat
      /\ \A s \in SUBSET S : IsFiniteSet(s) /\ Cardinality(s) \in Nat /\ Cardinality(s) <= N
  BY FS_Subset, FS_CardinalityType
<1> HIDE DEF N
<1>2. Base \in V
  OBVIOUS
<1>3. ASSUME NEW h \in V PROVE Longer(h) \in V
  <2>1. ASSUME NEW s \in SUBSET S, s # {}
        PROVE  f[AnyOf(s)] + h[s \ {AnyOf(s)}] \in Nat
    <3>1. AnyOf(s) \in S
      BY <2>1, AnyOfIsIn
    <3>2. s \ {AnyOf(s)} \in SUBSET S
      OBVIOUS
    <3>. QED  BY <3>1, <3>2
  <2>. QED  BY <2>1
<1>4. F \in Rules(N + 1, V)
  <2>1. \A p \in (1 .. N + 1) \X V : Longer(p[2]) \in V
    BY <1>3
  <2> HIDE DEF Longer, V
  <2>. QED  BY <2>1 DEF Rules
<1>5. PICK L : Follows(L, N + 1, V, Base, F)
  <2> HIDE DEF F, V, Base
  <2>. QED  BY <1>1, <1>2, <1>4, LayersExist
<1>6. /\ L \in [0 .. N + 1 -> V] /\ L[0] = Base
      /\ \A n \in 1 .. N + 1 : L[n] = Longer(L[n-1])
  <2>1. /\ L \in [0 .. N + 1 -> V] /\ L[0] = Base
        /\ \A n \in 1 .. N + 1 : L[n] = F[<<n, L[n-1]>>]
    <3> HIDE DEF F, V, Base
    <3>. QED  BY <1>5 DEF Follows
  <2>2. ASSUME NEW n \in 1 .. N + 1 PROVE L[n] = Longer(L[n-1])
    <3>1. L[n-1] \in V
      <4>1. n - 1 \in 0 .. N + 1
        BY <1>1
      <4> HIDE DEF V
      <4>. QED  BY <2>1, <4>1
    <3>2. <<n, L[n-1]>> \in (1 .. N + 1) \X V
      BY <3>1
    <3> HIDE DEF Longer, V
    <3>. QED  BY <2>1, <3>2
  <2> HIDE DEF Longer, V, Base
  <2>. QED  BY <2>1, <2>2
<1>7. \A n \in 0 .. N + 1 : L[n] \in V
  <2> HIDE DEF V
  <2>. QED  BY <1>6
<1>8. ASSUME NEW n \in 1 .. N + 1, NEW s \in SUBSET S
      PROVE  L[n][s] = IF s = {} THEN 0 ELSE f[AnyOf(s)] + L[n-1][s \ {AnyOf(s)}]
  <2>1. L[n] = Longer(L[n-1])
    <3> HIDE DEF Longer, Base, V
    <3>. QED  BY <1>6
  <2>. QED  BY <2>1
<1> DEFINE Small(n) == {s \in SUBSET S : Cardinality(s) <= n}
           K == {n \in 0 .. N : \A s \in Small(n) : L[n+1][s] = L[n][s]}
<1> HIDE DEF F, Longer
<1>9. 0 \in K
  <2>1. ASSUME NEW s \in Small(0) PROVE s = {}
    BY <1>1, FS_EmptySet
  <2>2. L[0][{}] = 0
    BY <1>6
  <2>3. 0 + 1 \in 1 .. N + 1
    BY <1>1
  <2>4. L[0+1][{}] = 0
    BY <1>8, <2>3
  <2>5. \A s \in Small(0) : L[0+1][s] = L[0][s]
    <3> HIDE DEF Small
    <3>. QED  BY <2>1, <2>2, <2>4
  <2>6. 0 \in 0 .. N
    BY <1>1
  <2> HIDE DEF Small
  <2>. QED  BY <2>5, <2>6
<1>10. ASSUME NEW n \in 0 .. N - 1, n \in K PROVE n + 1 \in K
  <2>1. ASSUME NEW s \in Small(n + 1) PROVE L[(n+1)+1][s] = L[n+1][s]
    <3>1. n + 1 \in 1 .. N + 1 /\ (n + 1) + 1 \in 1 .. N + 1
          /\ (n + 1) - 1 = n /\ ((n + 1) + 1) - 1 = n + 1
      BY <1>1
    <3>2. CASE s = {}
      BY <1>8, <3>1, <3>2
    <3>3. CASE s # {}
      <4> DEFINE rest == s \ {AnyOf(s)}
      <4>1. AnyOf(s) \in s
        BY <3>3, AnyOfIsIn
      <4>2. rest \in SUBSET S /\ Cardinality(rest) = Cardinality(s) - 1
        BY <1>1, <4>1, FS_RemoveElement
      <4>3. rest \in Small(n)
        BY <1>1, <2>1, <4>2
      <4>4. L[n+1][rest] = L[n][rest]
        BY <1>10, <4>3
      <4>5. L[(n+1)+1][s] = f[AnyOf(s)] + L[n+1][rest]
        BY <1>8, <3>1, <3>3
      <4>6. L[n+1][s] = f[AnyOf(s)] + L[n][rest]
        BY <1>8, <3>1, <3>3
      <4>. QED  BY <4>4, <4>5, <4>6
    <3>. QED  BY <3>2, <3>3
  <2>2. n + 1 \in 0 .. N
    BY <1>1
  <2> HIDE DEF Small
  <2>. QED  BY <2>1, <2>2
<1>11. N \in K
  <2>1. 0 \in Nat
    OBVIOUS
  <2> HIDE DEF K
  <2>2. 0 .. N \subseteq K
    BY <1>1, <1>9, <1>10, <2>1, IntervalInduction
  <2>. QED  BY <1>1, <2>2
<1>12. \A s \in SUBSET S : L[N+1][s] = L[N][s]
  BY <1>1, <1>11
<1>13. N + 1 \in 1 .. N + 1 /\ N + 1 \in 0 .. N + 1 /\ (N + 1) - 1 = N
  BY <1>1
<1> DEFINE g == L[N+1]
<1>14. g \in V
  <2> HIDE DEF V
  <2>. QED  BY <1>7, <1>13
<1>15. ASSUME NEW s \in SUBSET S
       PROVE  g[s] = IF s = {} THEN 0 ELSE f[AnyOf(s)] + g[s \ {AnyOf(s)}]
  <2>1. g[s] = IF s = {} THEN 0 ELSE f[AnyOf(s)] + L[N][s \ {AnyOf(s)}]
    BY <1>8, <1>13
  <2>2. L[N][s \ {AnyOf(s)}] = g[s \ {AnyOf(s)}]
    BY <1>12
  <2>. QED  BY <2>1, <2>2
<1> HIDE DEF g
<1>16. HasSums(g, f, S)
  BY <1>14, <1>15 DEF HasSums
<1>. QED  BY <1>16

(* The order of the summands does not matter.                              *)
LEMMA SumsTakeAnyFirst ==
  ASSUME NEW S, IsFiniteSet(S), NEW f \in [S -> Nat], NEW g, HasSums(g, f, S)
  PROVE  TakesAnyFirst(g, f, S)
<1> DEFINE Q == {s \in SUBSET S : \A x \in s : g[s] = f[x] + g[s \ {x}]}
<1>1. \A s \in SUBSET S : g[s] \in Nat
  BY DEF HasSums
<1>2. {} \in Q
  OBVIOUS
<1>3. ASSUME NEW s \in SUBSET S, s # {}, \A x \in s : s \ {x} \in Q
      PROVE  s \in Q
  <2> DEFINE a == AnyOf(s)
  <2>1. a \in s
    BY <1>3, AnyOfIsIn
  <2>2. g[s] = f[a] + g[s \ {a}]
    BY <1>3 DEF HasSums
  <2>3. \A x \in s : \A z \in s \ {x} : g[s \ {x}] = f[z] + g[(s \ {x}) \ {z}]
    BY <1>3
  <2> HIDE DEF a, Q
  <2>4. ASSUME NEW x \in s PROVE g[s] = f[x] + g[s \ {x}]
    <3>1. CASE x = a
      BY <2>2, <3>1
    <3>2. CASE x # a
      <4>1. (s \ {a}) \ {x} = (s \ {x}) \ {a} /\ (s \ {a}) \ {x} \in SUBSET S
        OBVIOUS
      <4>2. g[s \ {a}] = f[x] + g[(s \ {a}) \ {x}] /\ g[s \ {x}] = f[a] + g[(s \ {x}) \ {a}]
        BY <2>1, <2>3, <3>2
      <4>3. f[x] \in Nat /\ f[a] \in Nat /\ g[(s \ {a}) \ {x}] \in Nat
        BY <1>1, <2>1, <4>1
      <4>4. /\ g[s] = f[a] + (f[x] + g[(s \ {a}) \ {x}])
            /\ g[s \ {x}] = f[a] + g[(s \ {a}) \ {x}]
        BY <2>2, <4>1, <4>2
      <4>5. ASSUME NEW i \in Nat, NEW j \in Nat, NEW k \in Nat
            PROVE  i + (j + k) = j + (i + k)
        OBVIOUS
      <4>. QED  BY <4>3, <4>4, <4>5
    <3>. QED  BY <3>1, <3>2
  <2>. QED  BY <2>4 DEF Q
<1> HIDE DEF Q
<1>4. SUBSET S \subseteq Q
  BY <1>2, <1>3, SubsetInduction
<1>. QED  BY <1>4 DEF Q, TakesAnyFirst

(* Sums do not depend on the set whose subsets they are kept for.          *)
LEMMA SumsAreUnique ==
  ASSUME NEW S, IsFiniteSet(S), NEW f, NEW g, HasSums(g, f, S),
         NEW T \in SUBSET S, NEW e, NEW h, HasSums(h, e, T),
         \A x \in T : e[x] = f[x]
  PROVE  h[T] = g[T]
<1> DEFINE Q == {s \in SUBSET T : h[s] = g[s]}
<1>1. {} \in Q
  BY DEF HasSums
<1>2. ASSUME NEW s \in SUBSET T, s # {}, \A x \in s : s \ {x} \in Q
      PROVE  s \in Q
  <2> DEFINE a == AnyOf(s)
  <2>1. a \in s
    BY <1>2, AnyOfIsIn
  <2>2. h[s] = e[a] + h[s \ {a}] /\ g[s] = f[a] + g[s \ {a}]
    BY <1>2 DEF HasSums
  <2>. QED  BY <1>2, <2>1, <2>2
<1>3. IsFiniteSet(T)
  BY FS_Subset
<1> HIDE DEF Q
<1>4. SUBSET T \subseteq Q
  BY <1>1, <1>2, <1>3, SubsetInduction
<1>. QED  BY <1>4 DEF Q

(* Whatever follows the order of MapThenSumSet has the sums.               *)
LEMMA SolutionsAreSums ==
  ASSUME NEW m, IsFiniteSet(m), NEW f, NEW h, HasSums(h, f, m), NEW k, k[{}] = 0,
         \A s \in SUBSET m : s # {} => k[s] = f[AnyOf(s)] + k[s \ {AnyOf(s)}]
  PROVE  k[m] = h[m]
<1> DEFINE Q == {s \in SUBSET m : k[s] = h[s]}
<1>1. {} \in Q
  BY DEF HasSums
<1>2. ASSUME NEW s \in SUBSET m, s # {}, \A x \in s : s \ {x} \in Q
      PROVE  s \in Q
  <2>1. AnyOf(s) \in s
    BY <1>2, AnyOfIsIn
  <2>2. h[s] = f[AnyOf(s)] + h[s \ {AnyOf(s)}]
    BY <1>2 DEF HasSums
  <2>. QED  BY <1>2, <2>1, <2>2
<1> HIDE DEF Q
<1>3. SUBSET m \subseteq Q
  BY <1>1, <1>2, SubsetInduction
<1>. QED  BY <1>3 DEF Q

(* What MapThenSumSet computes for the two costs of a pair.                *)
LEMMA TotalOfCosts ==
  ASSUME NEW S, IsFiniteSet(S), \A p \in S : TotalCost(p) \in Nat,
         NEW g, HasSums(g, [p \in S |-> TotalCost(p)], S), NEW m \in SUBSET S
  PROVE  MapThenSumSet(TotalCost, m) = g[m]
<1> DEFINE f == [p \in m |-> TotalCost(p)]
           G(h) == [s \in SUBSET m |-> IF s = {} THEN 0
                                       ELSE TotalCost(CHOOSE x \in s : TRUE)
                                              + h[s \ {CHOOSE x \in s : TRUE}]]
<1>1. IsFiniteSet(m) /\ f \in [m -> Nat]
  BY FS_Subset
<1>2. PICK h : HasSums(h, f, m)
  <2> HIDE DEF f
  <2>. QED  BY <1>1, SumsExist
<1>3. h = G(h)
  <2>1. ASSUME NEW s \in SUBSET m, s # {}
        PROVE  h[s] = TotalCost(AnyOf(s)) + h[s \ {AnyOf(s)}]
    <3>1. AnyOf(s) \in m
      BY <2>1, AnyOfIsIn
    <3>2. h[s] = f[AnyOf(s)] + h[s \ {AnyOf(s)}]
      BY <1>2, <2>1 DEF HasSums
    <3>. QED  BY <3>1, <3>2
  <2>2. /\ h = [s \in SUBSET m |-> h[s]] /\ h[{}] = 0
    BY <1>2 DEF HasSums
  <2>. QED  BY <2>1, <2>2 DEF AnyOf
<1>4. PICK k : k = CHOOSE j : j = G(j)
  OBVIOUS
<1>5. MapThenSumSet(TotalCost, m) = k[m]
  BY Zenon, <1>4 DEF MapThenSumSet, MapThenFoldSet
<1>6. k = G(k)
  <2> HIDE DEF G
  <2>. QED  BY <1>3, <1>4
<1>7. k[{}] = 0 /\ \A s \in SUBSET m : s # {} => k[s] = f[AnyOf(s)] + k[s \ {AnyOf(s)}]
  <2>1. \A s \in SUBSET m : k[s] = IF s = {} THEN 0 ELSE TotalCost(AnyOf(s)) + k[s \ {AnyOf(s)}]
    BY <1>6 DEF AnyOf
  <2>2. \A s \in SUBSET m : s # {} => AnyOf(s) \in m
    BY AnyOfIsIn
  <2>. QED  BY <2>1, <2>2
<1>8. k[m] = h[m]
  <2> HIDE DEF f, G
  <2>1. IsFiniteSet(m) /\ HasSums(h, f, m) /\ k[{}] = 0
    BY <1>1, <1>2, <1>7
  <2>2. \A s \in SUBSET m : s # {} => k[s] = f[AnyOf(s)] + k[s \ {AnyOf(s)}]
    BY <1>7
  <2>. QED  BY <2>1, <2>2, SolutionsAreSums
<1>9. \A x \in m : f[x] = [p \in S |-> TotalCost(p)][x]
  OBVIOUS
<1>10. h[m] = g[m]
  <2> HIDE DEF f
  <2>. QED  BY <1>2, <1>9, SumsAreUnique
<1>. QED  BY <1>5, <1>8, <1>10

(* The same for the costs with the index in them.                          *)
LEMMA TotalOfEffectiveCosts ==
  ASSUME NEW S, IsFiniteSet(S), \A p \in S : EffectiveCost(p) \in Nat,
         NEW g, HasSums(g, [p \in S |-> EffectiveCost(p)], S), NEW m \in SUBSET S
  PROVE  MapThenSumSet(EffectiveCost, m) = g[m]
<1> DEFINE f == [p \in m |-> EffectiveCost(p)]
           G(h) == [s \in SUBSET m |-> IF s = {} THEN 0
                                       ELSE EffectiveCost(CHOOSE x \in s : TRUE)
                                              + h[s \ {CHOOSE x \in s : TRUE}]]
<1>1. IsFiniteSet(m) /\ f \in [m -> Nat]
  BY FS_Subset
<1>2. PICK h : HasSums(h, f, m)
  <2> HIDE DEF f
  <2>. QED  BY <1>1, SumsExist
<1>3. h = G(h)
  <2>1. ASSUME NEW s \in SUBSET m, s # {}
        PROVE  h[s] = EffectiveCost(AnyOf(s)) + h[s \ {AnyOf(s)}]
    <3>1. AnyOf(s) \in m
      BY <2>1, AnyOfIsIn
    <3>2. h[s] = f[AnyOf(s)] + h[s \ {AnyOf(s)}]
      BY <1>2, <2>1 DEF HasSums
    <3>. QED  BY <3>1, <3>2
  <2>2. /\ h = [s \in SUBSET m |-> h[s]] /\ h[{}] = 0
    BY <1>2 DEF HasSums
  <2>. QED  BY <2>1, <2>2 DEF AnyOf
<1>4. PICK k : k = CHOOSE j : j = G(j)
  OBVIOUS
<1>5. MapThenSumSet(EffectiveCost, m) = k[m]
  BY Zenon, <1>4 DEF MapThenSumSet, MapThenFoldSet
<1>6. k = G(k)
  <2> HIDE DEF G
  <2>. QED  BY <1>3, <1>4
<1>7. k[{}] = 0 /\ \A s \in SUBSET m : s # {} => k[s] = f[AnyOf(s)] + k[s \ {AnyOf(s)}]
  <2>1. \A s \in SUBSET m : k[s] = IF s = {} THEN 0 ELSE EffectiveCost(AnyOf(s)) + k[s \ {AnyOf(s)}]
    BY <1>6 DEF AnyOf
  <2>2. \A s \in SUBSET m : s # {} => AnyOf(s) \in m
    BY AnyOfIsIn
  <2>. QED  BY <2>1, <2>2
<1>8. k[m] = h[m]
  <2> HIDE DEF f, G
  <2>1. IsFiniteSet(m) /\ HasSums(h, f, m) /\ k[{}] = 0
    BY <1>1, <1>2, <1>7
  <2>2. \A s \in SUBSET m : s # {} => k[s] = f[AnyOf(s)] + k[s \ {AnyOf(s)}]
    BY <1>7
  <2>. QED  BY <2>1, <2>2, SolutionsAreSums
<1>9. \A x \in m : f[x] = [p \in S |-> EffectiveCost(p)][x]
  OBVIOUS
<1>10. h[m] = g[m]
  <2> HIDE DEF f
  <2>. QED  BY <1>2, <1>9, SumsAreUnique
<1>. QED  BY <1>5, <1>8, <1>10

-----------------------------------------------------------------------------
(* Pairs and their prices.                                                 *)

LEMMA SetsAreFinite ==
  ASSUME TypeOK
  PROVE  /\ IsFiniteSet(Feasible)
         /\ \A m \in SUBSET Feasible : IsFiniteSet(m) /\ Cardinality(m) \in Nat
         /\ IsFiniteSet(PendingTasks) /\ IsFiniteSet(Tasks)
<1>1. IsFiniteSet(Robots) /\ IsFiniteSet(Tasks)
  BY AllocationAssumption
<1>2. IsFiniteSet(Robots \X Tasks)
  BY <1>1, FS_Product
<1>3. Feasible \in SUBSET (Robots \X Tasks) /\ PendingTasks \in SUBSET Tasks
  BY DEF TypeOK, PendingTasks
<1>4. IsFiniteSet(Feasible) /\ IsFiniteSet(PendingTasks)
  BY <1>1, <1>2, <1>3, FS_Subset
<1>. QED  BY <1>1, <1>4, FS_Subset, FS_CardinalityType

LEMMA PathCostType ==
  ASSUME NEW a \in Cells, NEW b
  PROVE  PathCost(a, b) = NoRoute \/ PathCost(a, b) \in Nat
<1> DEFINE steps == StepsFrom(a, blocked)
<1>1. \A c \in DOMAIN steps : steps[c] \in Nat
  BY StepsHold
<1>2. PathCost(a, b) = IF {a, b} \cap blocked = {} /\ b \in DOMAIN steps
                       THEN steps[b] ELSE NoRoute
  BY DEF PathCost
<1> HIDE DEF steps
<1>. QED  BY <1>1, <1>2

LEMMA EstimatesAreTyped ==
  ASSUME robot \in [Robots -> RobotKinds], task \in [Tasks -> TaskKinds],
         NEW r \in Robots, NEW t \in Tasks, IsCandidate(r, t)
  PROVE  Estimate(r, t) \in [toPickup : Nat, delivery : Nat]
<1>1. robot[r] \in RobotKinds /\ task[t] \in TaskKinds
  OBVIOUS
<1>2. robot[r].cell \in Cells /\ task[t].pickup \in Cells
  BY <1>1, AllocationAssumption
<1>3. Estimate(r, t).toPickup # NoRoute /\ Estimate(r, t).delivery # NoRoute
  BY DEF IsCandidate
<1>4. Estimate(r, t) = [toPickup |-> PathCost(robot[r].cell, task[t].pickup),
                        delivery |-> PathCost(task[t].pickup, task[t].dropoff)]
  BY DEF Estimate
<1>. QED  BY <1>2, <1>3, <1>4, PathCostType

LEMMA CostsAreNat ==
  ASSUME TypeOK
  PROVE  /\ \A p \in Feasible : TotalCost(p) \in Nat
         /\ \A m \in SUBSET Feasible : SumOfCosts(m) \in Nat
<1>1. \A p \in Feasible : TotalCost(p) \in Nat
  BY DEF TypeOK, TotalCost
<1>2. ASSUME NEW m \in SUBSET Feasible PROVE SumOfCosts(m) \in Nat
  <2> DEFINE f == [p \in Feasible |-> TotalCost(p)]
  <2>1. IsFiniteSet(Feasible) /\ f \in [Feasible -> Nat]
    BY <1>1, SetsAreFinite
  <2>2. PICK g : HasSums(g, f, Feasible)
    <3> HIDE DEF f
    <3>. QED  BY <2>1, SumsExist
  <2>3. SumOfCosts(m) = g[m]
    BY <1>1, <2>1, <2>2, TotalOfCosts DEF SumOfCosts
  <2>. QED  BY <2>2, <2>3 DEF HasSums
<1>. QED  BY <1>1, <1>2

-----------------------------------------------------------------------------
(* Results.                                                                *)

(* The tasks of a matching are as many as its pairs.                       *)
LEMMA MatchingsAreInjective ==
  ASSUME NEW m, IsFiniteSet(m), IsMatch(m)
  PROVE  /\ IsFiniteSet({p[2] : p \in m})
         /\ Cardinality({p[2] : p \in m}) = Cardinality(m)
<1> DEFINE T == {p[2] : p \in m}
           f == [p \in m |-> p[2]]
<1>1. f \in Bijection(m, T)
  <2>1. f \in [m -> T] /\ \A t \in T : \E p \in m : f[p] = t
    OBVIOUS
  <2>2. \A p, q \in m : f[p] = f[q] => p = q
    BY DEF IsMatch
  <2> HIDE DEF f, T
  <2>. QED  BY <2>1, <2>2 DEF Bijection, Injection, Surjection, IsInjective
<1>2. ExistsBijection(m, T)
  BY <1>1 DEF ExistsBijection
<1>. QED  BY <1>2, FS_Bijection

LEMMA MatchingsPass ==
  ASSUME TypeOK, PricesAreTrue, phase # "price", NEW st \in Statuses,
         NEW m \in SUBSET Feasible, IsMatch(m)
  PROVE  ~ HasProblems(BuildResult(st, TRUE, m))
<1> DEFINE res == BuildResult(st, TRUE, m)
           T == {p[2] : p \in m}
<1>1. /\ res.success = TRUE /\ res.pairs = m
      /\ res.unassigned = {t \in PendingTasks : \A p \in m : p[2] # t}
      /\ res.total = SumOfCosts(m)
  BY DEF BuildResult
<1>2. ASSUME NEW p \in m PROVE IsLegal(p)
  <2>1. p \in Feasible /\ IsCandidate(p[1], p[2]) /\ price[p] = Estimate(p[1], p[2])
    BY DEF PricesAreTrue
  <2>2. PICK cost : cost = Estimate(p[1], p[2])
    OBVIOUS
  <2>3. /\ IsAvailable(p[1]) /\ IsPending(p[2]) /\ CanCarry(p[1], p[2])
        /\ cost.toPickup # NoRoute /\ cost.delivery # NoRoute
        /\ IsBatteryFeasible(p[1], cost.toPickup + cost.delivery)
    BY <2>1, <2>2 DEF IsCandidate
  <2>. QED  BY <2>1, <2>2, <2>3 DEF IsLegal, IsBatteryFeasible
<1> HIDE DEF res
<1>3. res.unassigned = PendingTasks \ T
  <2>1. \A t : (\A p \in m : p[2] # t) <=> t \notin T
    OBVIOUS
  <2>. QED  BY <1>1, <2>1
<1> USE DEF res
<1>4. T \subseteq PendingTasks
  <2>1. ASSUME NEW p \in m PROVE p[2] \in PendingTasks
    BY <1>2 DEF IsLegal, PendingTasks, TypeOK
  <2>. QED  BY <2>1
<1>5. /\ IsFiniteSet(m) /\ IsFiniteSet(PendingTasks)
      /\ Cardinality(PendingTasks) \in Nat /\ Cardinality(m) \in Nat
  BY SetsAreFinite, FS_CardinalityType
<1>6. Cardinality(T) = Cardinality(m)
  BY <1>5, MatchingsAreInjective
<1>7. Cardinality(PendingTasks \ T) = Cardinality(PendingTasks) - Cardinality(T)
  <2>1. PendingTasks \cap T = T
    BY <1>4
  <2> HIDE DEF T
  <2>. QED  BY <1>5, <2>1, FS_Difference
<1>8. Cardinality(m) + Cardinality(res.unassigned) = Cardinality(PendingTasks)
  <2> HIDE DEF res, T
  <2>1. Cardinality(res.unassigned) = Cardinality(PendingTasks) - Cardinality(m)
    BY <1>3, <1>6, <1>7
  <2>. QED  BY <1>5, <2>1
<1>9. res.total = MapThenSumSet(TotalCost, res.pairs)
  BY <1>1 DEF SumOfCosts
<1> HIDE DEF res, T
<1>10. res.unassigned = PendingTasks \ {p[2] : p \in res.pairs}
  BY <1>1, <1>3 DEF T
<1>11. ~ HasProblems(res)
  BY <1>1, <1>2, <1>8, <1>9, <1>10 DEF HasProblems
<1>. QED  BY <1>11 DEF res

-----------------------------------------------------------------------------
(* Greedy.                                                                 *)

(* When t is looked at, its cheapest free robot settles every pairing of   *)
(* t: the robots cheaper than that one serve tasks that came before.       *)
LEMMA OneMoreTaskIsSettled ==
  ASSUME TypeOK, PricesAreTrue, phase = "greedy", GreedyGoesInOrder,
         NEW t \in todo, \A u \in todo \ {t} : Before(t, u),
         NEW more \in SUBSET Feasible,
         \/ \E r \in Robots : IsCheapestFree(r, t) /\ more = chosen \cup {<<r, t>>}
         \/ FreeRobotsFor(t) = {} /\ more = chosen
  PROVE  /\ IsMatch(more)
         /\ \A u \in todo \ {t} : \A v \in PendingTasks \ (todo \ {t}) : Before(v, u)
         /\ \A p \in more : p[2] \notin todo \ {t}
         /\ \A p \in Feasible : p[2] \notin todo \ {t} => IsSettled(p, more)
<1>1. /\ IsMatch(chosen) /\ todo \subseteq PendingTasks
      /\ \A u \in todo : \A v \in PendingTasks \ todo : Before(v, u)
      /\ \A p \in chosen : p[2] \notin todo
      /\ \A p \in Feasible : p[2] \notin todo => IsSettled(p, chosen)
  BY DEF GreedyGoesInOrder
<1>2. \A p \in Feasible : /\ p = <<p[1], p[2]>> /\ p[1] \in Robots /\ p[2] \in Tasks
                          /\ p[2] \in PendingTasks
  BY DEF TypeOK, PricesAreTrue, IsCandidate, PendingTasks
<1>3. chosen \subseteq Feasible /\ chosen \subseteq more
  BY DEF TypeOK
<1>4. \A p \in chosen : Before(p[2], t)
  BY <1>1, <1>2, <1>3
<1>5. ASSUME NEW p \in more, p \notin chosen
      PROVE  p[2] = t /\ p[1] \notin UsedRobots
  <2>1. PICK r \in Robots : IsCheapestFree(r, t) /\ more = chosen \cup {<<r, t>>}
    BY <1>5
  <2>2. p = <<r, t>> /\ r \notin UsedRobots
    BY <1>5, <2>1 DEF IsCheapestFree, FreeRobotsFor
  <2>. QED  BY <2>2
<1>6. IsMatch(more)
  <2>1. ASSUME NEW p \in more, NEW q \in more, p # q PROVE p[1] # q[1] /\ p[2] # q[2]
    <3>1. CASE p \in chosen /\ q \in chosen
      BY <1>1, <2>1, <3>1 DEF IsMatch
    <3>2. CASE p \in chosen /\ q \notin chosen
      BY <1>1, <1>5, <3>2 DEF UsedRobots
    <3>3. CASE p \notin chosen /\ q \in chosen
      BY <1>1, <1>5, <3>3 DEF UsedRobots
    <3>4. CASE p \notin chosen /\ q \notin chosen
      BY <2>1, <3>4
    <3>. QED  BY <3>1, <3>2, <3>3, <3>4
  <2>. QED  BY <2>1 DEF IsMatch
<1>7. \A u \in todo \ {t} : \A v \in PendingTasks \ (todo \ {t}) : Before(v, u)
  BY <1>1
<1>8. \A p \in more : p[2] \notin todo \ {t}
  BY <1>1, <1>5
<1>9. ASSUME NEW p \in Feasible, p[2] \notin todo \ {t}
      PROVE  IsSettled(p, more)
  <2>1. CASE p[2] # t
    BY <1>1, <1>3, <1>9, <2>1 DEF IsSettled
  <2>2. CASE p[2] = t /\ p[1] \in UsedRobots
    <3>1. PICK q \in chosen : q[1] = p[1]
      BY <2>2 DEF UsedRobots
    <3>2. Before(q[2], p[2])
      BY <1>4, <2>2
    <3>. QED  BY <1>3, <3>1, <3>2 DEF IsSettled
  <2>3. CASE p[2] = t /\ p[1] \notin UsedRobots
    <3>1. p[1] \in FreeRobotsFor(t)
      BY <1>2, <2>3 DEF FreeRobotsFor
    <3>2. PICK r \in Robots : IsCheapestFree(r, t) /\ more = chosen \cup {<<r, t>>}
      BY <3>1
    <3>3. r = p[1] \/ Cheaper(r, p[1], t)
      BY <3>1, <3>2 DEF IsCheapestFree
    <3>4. <<r, t>> \in more /\ <<r, t>>[1] = r /\ <<r, t>>[2] = t
      BY <3>2
    <3>. QED  BY <2>3, <3>3, <3>4 DEF IsSettled
  <2>. QED  BY <2>1, <2>2, <2>3
<1>. QED  BY <1>6, <1>7, <1>8, <1>9

-----------------------------------------------------------------------------
(* Optima.                                                                 *)

(* A set of integers with an upper bound has a greatest element.           *)
LEMMA GreatestNumber ==
  ASSUME NEW O, O \subseteq Int, O # {}, NEW b \in Int, \A o \in O : o <= b
  PROVE  Max(O) \in O /\ \A o \in O : o <= Max(O)
<1> DEFINE Gaps == {b - o : o \in O}
<1>1. Gaps \subseteq Nat /\ Gaps # {}
  <2>1. \A o \in O : b - o \in Nat
    OBVIOUS
  <2>2. Gaps \subseteq Nat
    BY <2>1
  <2>3. PICK o \in O : TRUE
    OBVIOUS
  <2>4. b - o \in Gaps
    BY <2>3
  <2>. QED  BY <2>2, <2>4
<1>2. PICK n \in Gaps : \A k \in Gaps : n <= k
  <2> HIDE DEF Gaps
  <2>. QED  BY <1>1, LeastNumber
<1>3. PICK o \in O : n = b - o
  OBVIOUS
<1>4. ASSUME NEW i \in O PROVE o >= i
  <2>1. n <= b - i
    BY <1>2
  <2>. QED  BY <1>3, <2>1
<1>5. \E j \in O : \A i \in O : j >= i
  BY <1>4
<1>6. Max(O) \in O /\ \A i \in O : Max(O) >= i
  BY <1>5 DEF Max
<1>. QED  BY <1>6

(* The pairs that come before a pair are counted by its index.             *)
LEMMA IndexCounts ==
  ASSUME TypeOK, NEW p \in Feasible
  PROVE  /\ Index(p) \in Nat /\ Index(p) <= Cardinality(Feasible)
         /\ \A q \in Feasible : CreatedBefore(q, p) => Index(q) < Index(p)
<1> DEFINE Earlier(x) == {y \in Feasible : CreatedBefore(y, x)}
<1>1. \A x \in Feasible : /\ IsFiniteSet(Earlier(x)) /\ Cardinality(Earlier(x)) \in Nat
                          /\ Index(x) = Cardinality(Earlier(x))
  BY SetsAreFinite DEF Index
<1>2. Index(p) <= Cardinality(Feasible)
  <2>1. IsFiniteSet(Feasible) /\ Earlier(p) \in SUBSET Feasible
    BY SetsAreFinite
  <2> HIDE DEF Earlier
  <2>. QED  BY <1>1, <2>1, FS_Subset
<1>3. ASSUME NEW q \in Feasible, CreatedBefore(q, p) PROVE Index(q) < Index(p)
  <2>1. \A x \in Feasible : /\ x[1] \in Nat /\ x[2] \in Nat /\ x[2] \in Tasks
                            /\ task[x[2]].priority \in Nat
    <3>1. \A t \in Tasks : task[t] \in TaskKinds
      BY DEF TypeOK
    <3>2. \A x \in Feasible : x[1] \in Robots /\ x[2] \in Tasks
      BY DEF TypeOK
    <3>3. \A t \in Tasks : task[t].priority \in Nat
      <4>1. \A k \in TaskKinds : k.priority \in 1 .. 4
        BY AllocationAssumption
      <4>. QED  BY <3>1, <4>1
    <3>4. \A r \in Robots : r \in Nat
      BY AllocationAssumption
    <3>5. \A t \in Tasks : t \in Nat
      BY AllocationAssumption
    <3>. QED  BY <3>2, <3>3, <3>4, <3>5
  <2>2. q \in Earlier(p) /\ q \notin Earlier(q)
    BY <1>3, <2>1 DEF CreatedBefore, Before
  <2>3. ASSUME NEW x \in Earlier(q) PROVE x \in Earlier(p)
    BY <1>3, <2>1, <2>3 DEF CreatedBefore, Before
  <2> HIDE DEF Earlier
  <2>4. Earlier(q) \in SUBSET (Earlier(p) \ {q})
    BY <2>2, <2>3
  <2>5. /\ IsFiniteSet(Earlier(p) \ {q})
        /\ Cardinality(Earlier(p) \ {q}) = Cardinality(Earlier(p)) - 1
    BY <1>1, <2>2, FS_RemoveElement
  <2>6. Cardinality(Earlier(q)) <= Cardinality(Earlier(p) \ {q})
    BY <2>4, <2>5, FS_Subset
  <2>. QED  BY <1>1, <2>5, <2>6
<1>. QED  BY <1>1, <1>2, <1>3

LEMMA EffectiveCostsAreNat ==
  ASSUME TypeOK
  PROVE  /\ Scale \in Nat /\ Scale = Cardinality(Feasible) * Cardinality(Feasible) + 1
         /\ \A p \in Feasible : EffectiveCost(p) \in Nat
<1>1. Cardinality(Feasible) \in Nat
  BY SetsAreFinite
<1>2. Scale \in Nat
  BY <1>1 DEF Scale
<1>3. ASSUME NEW p \in Feasible PROVE EffectiveCost(p) \in Nat
  <2>1. TotalCost(p) \in Nat /\ Index(p) \in Nat
    BY CostsAreNat, IndexCounts
  <2>. QED  BY <1>2, <2>1 DEF EffectiveCost
<1>. QED  BY <1>2, <1>3 DEF Scale

(* Sums over more pairs are not smaller.                                   *)
LEMMA SumsGrow ==
  ASSUME NEW S, IsFiniteSet(S), NEW f \in [S -> Nat], NEW g, HasSums(g, f, S),
         NEW m \in SUBSET S
  PROVE  g[m] <= g[S]
<1> DEFINE Q == {s \in SUBSET S : g[S \ s] <= g[S]}
<1>1. \A s \in SUBSET S : g[s] \in Nat
  BY DEF HasSums
<1> HIDE DEF Q
<1>2. TakesAnyFirst(g, f, S)
  BY SumsTakeAnyFirst
<1> USE DEF Q
<1>3. {} \in Q
  <2>1. S \ {} = S /\ S \in SUBSET S
    OBVIOUS
  <2>. QED  BY <1>1, <2>1
<1>4. ASSUME NEW s \in SUBSET S, s # {}, \A x \in s : s \ {x} \in Q
      PROVE  s \in Q
  <2>1. PICK x \in s : TRUE
    BY <1>4
  <2>2. g[S \ (s \ {x})] <= g[S]
    BY <1>4
  <2>3. /\ S \ (s \ {x}) \in SUBSET S /\ x \in S \ (s \ {x})
        /\ (S \ (s \ {x})) \ {x} = S \ s
    OBVIOUS
  <2>4. g[S \ (s \ {x})] = f[x] + g[S \ s]
    BY <1>2, <2>3 DEF TakesAnyFirst
  <2>5. f[x] \in Nat /\ g[S \ s] \in Nat /\ g[S] \in Nat
    BY <1>1
  <2>6. g[S \ s] <= g[S]
    BY <2>2, <2>4, <2>5
  <2>. QED  BY <2>6
<1> HIDE DEF Q
<1>5. SUBSET S \subseteq Q
  BY <1>3, <1>4, SubsetInduction
<1>6. S \ m \in Q /\ S \ (S \ m) = m
  BY <1>5
<1>. QED  BY <1>6 DEF Q

(* All that the objective is made of.                                      *)
CostSums(g) == HasSums(g, [p \in Feasible |-> TotalCost(p)], Feasible)
WeightedSums(g) == HasSums(g, [p \in Feasible |-> EffectiveCost(p)], Feasible)

LEMMA SumsOfPairs ==
  ASSUME TypeOK
  PROVE  \E c, w :
           /\ CostSums(c) /\ WeightedSums(w)
           /\ \A m \in SUBSET Feasible :
                /\ c[m] \in Nat /\ w[m] \in Nat /\ w[m] <= w[Feasible]
                /\ MapThenSumSet(TotalCost, m) = c[m]
                /\ Objective(m) = Cardinality(m) * (w[Feasible] + 1) - w[m]
                /\ \A p \in m : w[m] = EffectiveCost(p) + w[m \ {p}]
<1> DEFINE f == [p \in Feasible |-> TotalCost(p)]
           e == [p \in Feasible |-> EffectiveCost(p)]
<1>1. /\ IsFiniteSet(Feasible)
      /\ \A p \in Feasible : TotalCost(p) \in Nat /\ EffectiveCost(p) \in Nat
  BY SetsAreFinite, CostsAreNat, EffectiveCostsAreNat
<1>2. f \in [Feasible -> Nat] /\ e \in [Feasible -> Nat]
  BY <1>1
<1>3. PICK c, w : HasSums(c, f, Feasible) /\ HasSums(w, e, Feasible)
  <2> HIDE DEF f, e
  <2>. QED  BY <1>1, <1>2, SumsExist
<1>4. ASSUME NEW m \in SUBSET Feasible
      PROVE  MapThenSumSet(TotalCost, m) = c[m] /\ MapThenSumSet(EffectiveCost, m) = w[m]
  <2>1. MapThenSumSet(TotalCost, m) = c[m]
    BY <1>1, <1>3, TotalOfCosts
  <2>2. MapThenSumSet(EffectiveCost, m) = w[m]
    BY <1>1, <1>3, TotalOfEffectiveCosts
  <2>. QED  BY <2>1, <2>2
<1>5. ASSUME NEW m \in SUBSET Feasible
      PROVE  c[m] \in Nat /\ w[m] \in Nat /\ w[m] <= w[Feasible]
  <2>1. c[m] \in Nat /\ w[m] \in Nat
    BY <1>3 DEF HasSums
  <2>2. w[m] <= w[Feasible]
    <3> HIDE DEF e
    <3>. QED  BY <1>1, <1>2, <1>3, SumsGrow
  <2>. QED  BY <2>1, <2>2
<1>6. ASSUME NEW m \in SUBSET Feasible
      PROVE  Objective(m) = Cardinality(m) * (w[Feasible] + 1) - w[m]
  BY <1>4 DEF Objective, Reward
<1>7. ASSUME NEW m \in SUBSET Feasible, NEW p \in m
      PROVE  w[m] = EffectiveCost(p) + w[m \ {p}]
  <2>1. TakesAnyFirst(w, e, Feasible)
    <3> HIDE DEF f, e
    <3>. QED  BY <1>1, <1>2, <1>3, SumsTakeAnyFirst
  <2>. QED  BY <2>1 DEF TakesAnyFirst
<1>8. CostSums(c) /\ WeightedSums(w)
  BY <1>3 DEF CostSums, WeightedSums
<1>9. \A m \in SUBSET Feasible :
        /\ c[m] \in Nat /\ w[m] \in Nat /\ w[m] <= w[Feasible]
        /\ MapThenSumSet(TotalCost, m) = c[m]
        /\ Objective(m) = Cardinality(m) * (w[Feasible] + 1) - w[m]
        /\ \A p \in m : w[m] = EffectiveCost(p) + w[m \ {p}]
  BY <1>4, <1>5, <1>6, <1>7
<1>. QED  BY <1>8, <1>9

(* The weighted sum of some pairs is their cost, scaled, and less than one *)
(* unit of cost more.                                                      *)
LEMMA WeightsFollowCosts ==
  ASSUME TypeOK, NEW c, CostSums(c), NEW w, WeightedSums(w), NEW m \in SUBSET Feasible
  PROVE  c[m] * Scale <= w[m] /\ w[m] < (c[m] + 1) * Scale
<1> DEFINE N == Cardinality(Feasible)
           Q == {s \in SUBSET Feasible :
                   c[s] * Scale <= w[s] /\ w[s] <= c[s] * Scale + Cardinality(s) * N}
           f == [p \in Feasible |-> TotalCost(p)]
           e == [p \in Feasible |-> EffectiveCost(p)]
<1>1. /\ IsFiniteSet(Feasible) /\ N \in Nat
      /\ \A s \in SUBSET Feasible : IsFiniteSet(s) /\ Cardinality(s) \in Nat
  BY SetsAreFinite
<1>2. Scale \in Nat /\ Scale = N * N + 1
  BY EffectiveCostsAreNat
<1>3. \A p \in Feasible : /\ TotalCost(p) \in Nat /\ EffectiveCost(p) \in Nat
                          /\ Index(p) \in Nat /\ Index(p) <= N
                          /\ EffectiveCost(p) = TotalCost(p) * Scale + Index(p)
  BY CostsAreNat, EffectiveCostsAreNat, IndexCounts DEF EffectiveCost
<1>4. f \in [Feasible -> Nat] /\ e \in [Feasible -> Nat]
  BY <1>3
<1>5. HasSums(c, f, Feasible) /\ HasSums(w, e, Feasible)
  BY DEF CostSums, WeightedSums
<1>6. \A s \in SUBSET Feasible : c[s] \in Nat /\ w[s] \in Nat
  BY <1>5 DEF HasSums
<1>7. ASSUME NEW s \in SUBSET Feasible, NEW x \in s
      PROVE  c[s] = TotalCost(x) + c[s \ {x}] /\ w[s] = EffectiveCost(x) + w[s \ {x}]
  <2>1. TakesAnyFirst(c, f, Feasible) /\ TakesAnyFirst(w, e, Feasible)
    <3> HIDE DEF f, e, Q, N
    <3>. QED  BY <1>1, <1>4, <1>5, SumsTakeAnyFirst
  <2>. QED  BY <2>1 DEF TakesAnyFirst
<1> HIDE DEF f, e, N
<1>8. {} \in Q
  <2>1. c[{}] = 0 /\ w[{}] = 0 /\ Cardinality({}) = 0
    BY <1>5, FS_EmptySet DEF HasSums
  <2>. QED  BY <1>1, <1>2, <2>1
<1>9. ASSUME NEW s \in SUBSET Feasible, s # {}, \A x \in s : s \ {x} \in Q
      PROVE  s \in Q
  <2>1. PICK x \in s : TRUE
    BY <1>9
  <2> DEFINE a == c[s \ {x}]
             b == w[s \ {x}]
             k == Cardinality(s \ {x})
  <2>2. /\ a \in Nat /\ b \in Nat /\ k \in Nat
        /\ a * Scale <= b /\ b <= a * Scale + k * N
    BY <1>1, <1>6, <1>9, <2>1
  <2>3. Cardinality(s) = k + 1
    <3>1. k = Cardinality(s) - 1
      BY <1>1, FS_RemoveElement
    <3>. QED  BY <1>1, <3>1
  <2>4. c[s] = TotalCost(x) + a /\ w[s] = EffectiveCost(x) + b
    BY <1>7
  <2>5. /\ TotalCost(x) \in Nat /\ Index(x) \in Nat /\ Index(x) <= N
        /\ EffectiveCost(x) = TotalCost(x) * Scale + Index(x)
    BY <1>3
  <2>6. ASSUME NEW t \in Nat, NEW i \in Nat, NEW u \in Nat, NEW v \in Nat, NEW n \in Nat,
               NEW S \in Nat, NEW j \in Nat, i <= j, u * S <= v, v <= u * S + n * j
        PROVE  /\ (t + u) * S <= (t * S + i) + v
               /\ (t * S + i) + v <= (t + u) * S + (n + 1) * j
    <3>1. (t + u) * S = t * S + u * S /\ (n + 1) * j = n * j + j
      OBVIOUS
    <3>2. t * S \in Nat /\ u * S \in Nat /\ n * j \in Nat
      OBVIOUS
    <3>. QED  BY <2>6, <3>1, <3>2
  <2> HIDE DEF a, b, k
  <2>7. /\ (TotalCost(x) + a) * Scale <= (TotalCost(x) * Scale + Index(x)) + b
        /\ (TotalCost(x) * Scale + Index(x)) + b <= (TotalCost(x) + a) * Scale + (k + 1) * N
    BY <1>1, <1>2, <2>2, <2>5, <2>6
  <2>8. c[s] * Scale <= w[s] /\ w[s] <= c[s] * Scale + Cardinality(s) * N
    BY <2>3, <2>4, <2>5, <2>7
  <2>. QED  BY <2>8
<1> HIDE DEF Q
<1>10. SUBSET Feasible \subseteq Q
  BY <1>1, <1>8, <1>9, SubsetInduction
<1>11. c[m] * Scale <= w[m] /\ w[m] <= c[m] * Scale + Cardinality(m) * N
  BY <1>10 DEF Q
<1>12. Cardinality(m) \in Nat /\ Cardinality(m) <= N
  BY <1>1, FS_Subset DEF N
<1>13. ASSUME NEW i \in Nat, NEW j \in Nat, i <= j PROVE i * j <= j * j
  <2>1. j * j = i * j + (j - i) * j
    OBVIOUS
  <2>2. j - i \in Nat
    BY <1>13
  <2>3. (j - i) * j \in Nat /\ i * j \in Nat
    BY <2>2
  <2>. QED  BY <2>1, <2>3
<1>14. Cardinality(m) * N <= N * N /\ Cardinality(m) * N \in Nat /\ N * N \in Nat
  BY <1>1, <1>12, <1>13
<1>15. (c[m] + 1) * Scale = c[m] * Scale + Scale /\ c[m] * Scale \in Nat
  BY <1>2, <1>6
<1>. QED  BY <1>2, <1>6, <1>11, <1>14, <1>15

LEMMA OptimaAreMaxima ==
  ASSUME TypeOK, NEW m \in Optima, NEW k \in Allowed
  PROVE  /\ m \in Allowed
         /\ Objective(m) \in Int /\ Objective(k) \in Int /\ Objective(k) <= Objective(m)
<1> DEFINE O == {Objective(x) : x \in Allowed}
           N == Cardinality(Feasible)
<1>1. PICK c, w :
        \A x \in SUBSET Feasible :
          /\ w[x] \in Nat
          /\ Objective(x) = Cardinality(x) * (w[Feasible] + 1) - w[x]
  BY SumsOfPairs
<1> DEFINE R == w[Feasible] + 1
<1>2. /\ N \in Nat /\ R \in Nat
      /\ \A x \in SUBSET Feasible : Cardinality(x) \in Nat /\ Cardinality(x) <= N
  <2>1. IsFiniteSet(Feasible) /\ \A x \in SUBSET Feasible : Cardinality(x) \in Nat
    BY SetsAreFinite
  <2>2. \A x \in SUBSET Feasible : Cardinality(x) <= N
    BY <2>1, FS_Subset
  <2>3. w[Feasible] \in Nat /\ N \in Nat
    BY <1>1, <2>1
  <2>. QED  BY <2>1, <2>2, <2>3
<1>3. ASSUME NEW x \in Allowed PROVE Objective(x) \in Int /\ Objective(x) <= N * R
  <2>1. x \in SUBSET Feasible
    BY DEF Allowed
  <2>2. Objective(x) = Cardinality(x) * R - w[x] /\ w[x] \in Nat
    BY <1>1, <2>1
  <2>3. Cardinality(x) \in Nat /\ Cardinality(x) <= N
    BY <1>2, <2>1
  <2>4. ASSUME NEW i \in Nat, NEW j \in Nat, NEW r \in Nat, NEW v \in Nat, i <= j
        PROVE  i * r - v \in Int /\ i * r - v <= j * r
    <3>1. j * r = i * r + (j - i) * r
      OBVIOUS
    <3>2. j - i \in Nat
      BY <2>4
    <3>3. (j - i) * r \in Nat /\ i * r \in Nat
      BY <3>2
    <3>. QED  BY <3>1, <3>3
  <2> HIDE DEF N, R
  <2>. QED  BY <1>2, <2>2, <2>3, <2>4
<1>4. N * R \in Int
  <2> HIDE DEF N, R
  <2>. QED  BY <1>2
<1> HIDE DEF N, R
<1>5. O \subseteq Int /\ (\A o \in O : o <= N * R)
  BY <1>3
<1>6. Objective(k) \in O
  OBVIOUS
<1>7. m \in Allowed /\ Objective(m) = Max(O)
  BY DEF Optima
<1>8. \A o \in O : o <= Max(O)
  <2> HIDE DEF O
  <2>. QED  BY <1>4, <1>5, <1>6, GreatestNumber
<1>. QED  BY <1>3, <1>6, <1>7, <1>8

(* A maximum of the weighted sum serves as many tasks as can be served,    *)
(* and no other choice of as many costs less.                              *)
LEMMA MaximaAreBest ==
  ASSUME TypeOK, NEW m \in Optima, NEW k \in SUBSET Feasible, IsMatch(k)
  PROVE  \/ Cardinality(k) < Cardinality(m)
         \/ Cardinality(k) = Cardinality(m) /\ SumOfCosts(k) >= SumOfCosts(m)
<1>1. k \in Allowed
  BY DEF Allowed, IsMatch, IsMatching
<1>2. m \in Allowed /\ Objective(k) <= Objective(m)
  BY <1>1, OptimaAreMaxima
<1>3. m \in SUBSET Feasible
  BY <1>2 DEF Allowed
<1>4. Cardinality(k) \in Nat /\ Cardinality(m) \in Nat
  BY <1>3, SetsAreFinite
<1>5. PICK c, w :
        /\ CostSums(c) /\ WeightedSums(w)
        /\ \A x \in SUBSET Feasible :
             /\ c[x] \in Nat /\ w[x] \in Nat /\ w[x] <= w[Feasible]
             /\ MapThenSumSet(TotalCost, x) = c[x]
             /\ Objective(x) = Cardinality(x) * (w[Feasible] + 1) - w[x]
  BY SumsOfPairs
<1> DEFINE R == w[Feasible] + 1
<1>6. /\ c[k] \in Nat /\ c[m] \in Nat /\ w[k] \in Nat /\ w[m] \in Nat /\ R \in Nat
      /\ w[k] < R
      /\ SumOfCosts(k) = c[k] /\ SumOfCosts(m) = c[m]
      /\ Cardinality(k) * R - w[k] <= Cardinality(m) * R - w[m]
  BY <1>2, <1>3, <1>5 DEF SumOfCosts
<1> HIDE DEF R
<1>7. Cardinality(k) <= Cardinality(m)
  <2>1. ASSUME NEW i \in Nat, NEW j \in Nat, NEW a \in Nat, NEW b \in Nat, NEW r \in Nat,
               a < r, i * r - a <= j * r - b
        PROVE  i <= j
    <3>1. SUFFICES ASSUME i > j PROVE FALSE
      OBVIOUS
    <3>2. i * r = j * r + (i - j) * r
      OBVIOUS
    <3>3. i - j - 1 \in Nat /\ (i - j) * r = (i - j - 1) * r + r
      BY <3>1
    <3>4. (i - j - 1) * r \in Nat /\ j * r \in Nat
      BY <3>3
    <3>. QED  BY <2>1, <3>2, <3>3, <3>4
  <2>. QED  BY <1>4, <1>6, <2>1
<1>8. CASE Cardinality(k) = Cardinality(m)
  <2>1. w[m] <= w[k]
    <3>1. ASSUME NEW v \in Int, v - w[k] <= v - w[m] PROVE w[m] <= w[k]
      BY <1>6, <3>1
    <3>2. Cardinality(m) * R \in Int
      BY <1>4, <1>6
    <3>. QED  BY <1>6, <1>8, <3>1, <3>2
  <2>2. c[m] * Scale <= w[m] /\ w[k] < (c[k] + 1) * Scale
    BY <1>3, <1>5, WeightsFollowCosts
  <2>3. Scale \in Nat
    BY EffectiveCostsAreNat
  <2>4. ASSUME NEW a \in Nat, NEW b \in Nat, NEW v \in Nat, a * v < (b + 1) * v
        PROVE  b >= a
    <3>1. SUFFICES ASSUME b + 1 <= a PROVE FALSE
      OBVIOUS
    <3>2. a - (b + 1) \in Nat /\ a * v = (b + 1) * v + (a - (b + 1)) * v
      BY <3>1
    <3>3. (a - (b + 1)) * v \in Nat /\ (b + 1) * v \in Nat
      BY <3>2
    <3>. QED  BY <2>4, <3>2, <3>3
  <2>5. c[m] * Scale \in Nat /\ (c[k] + 1) * Scale \in Nat
    BY <1>6, <2>3
  <2>6. c[m] * Scale < (c[k] + 1) * Scale
    BY <1>6, <2>1, <2>2, <2>5
  <2>7. c[k] >= c[m]
    BY <1>6, <2>3, <2>4, <2>6
  <2>. QED  BY <1>6, <1>8, <2>7
<1>. QED  BY <1>4, <1>7, <1>8

(* Of two robots at the same cost for a task a maximum does not take the   *)
(* later one while the earlier stands idle: the index would be smaller.    *)
LEMMA MaximaBreakTies ==
  ASSUME TypeOK, NEW m \in Optima, NEW p \in m, NEW q \in Feasible,
         q[2] = p[2], q[1] < p[1], TotalCost(q) = TotalCost(p)
  PROVE  \E other \in m : other[1] = q[1]
<1> SUFFICES ASSUME \A other \in m : other[1] # q[1] PROVE FALSE
  OBVIOUS
<1>6. PICK c, w :
        /\ CostSums(c) /\ WeightedSums(w)
        /\ \A x \in SUBSET Feasible :
             /\ c[x] \in Nat /\ w[x] \in Nat /\ w[x] <= w[Feasible]
             /\ MapThenSumSet(TotalCost, x) = c[x]
             /\ Objective(x) = Cardinality(x) * (w[Feasible] + 1) - w[x]
             /\ \A y \in x : w[x] = EffectiveCost(y) + w[x \ {y}]
  BY SumsOfPairs
<1> DEFINE rest == m \ {p}
           k == rest \cup {q}
<1>1. m \in SUBSET Feasible /\ IsMatching(m)
  BY DEF Optima, Allowed
<1>2. p \in Feasible /\ rest \in SUBSET Feasible /\ k \in SUBSET Feasible
  BY <1>1
<1>3. q \notin m
  OBVIOUS
<1>4. k \in Allowed
  <2>1. ASSUME NEW a \in k, NEW b \in k, a # b PROVE a[1] # b[1] /\ a[2] # b[2]
    <3>1. CASE a \in rest /\ b \in rest
      BY <1>1, <2>1, <3>1 DEF IsMatching
    <3>2. CASE a = q /\ b \in rest
      BY <1>1, <3>2 DEF IsMatching
    <3>3. CASE a \in rest /\ b = q
      BY <1>1, <3>3 DEF IsMatching
    <3>. QED  BY <2>1, <3>1, <3>2, <3>3
  <2> HIDE DEF k
  <2>. QED  BY <1>2, <2>1 DEF Allowed, IsMatching
<1>5. Objective(k) \in Int /\ Objective(m) \in Int /\ Objective(k) <= Objective(m)
  <2> HIDE DEF k
  <2>. QED  BY <1>4, OptimaAreMaxima
<1>7. w[m] = EffectiveCost(p) + w[rest]
  BY <1>1, <1>6
<1>8. w[k] = EffectiveCost(q) + w[rest]
  <2>1. k \ {q} = rest /\ q \in k
    BY <1>3
  <2> HIDE DEF k, rest
  <2>. QED  BY <1>2, <1>6, <2>1
<1>9. Cardinality(k) = Cardinality(m)
  <2>1. IsFiniteSet(m) /\ Cardinality(m) \in Nat
    BY <1>1, SetsAreFinite
  <2>2. IsFiniteSet(rest) /\ Cardinality(rest) = Cardinality(m) - 1
    BY <2>1, FS_RemoveElement
  <2>3. q \notin rest
    BY <1>3
  <2> HIDE DEF rest
  <2>4. Cardinality(k) = Cardinality(rest) + 1
    BY <2>2, <2>3, FS_AddElement
  <2>. QED  BY <2>1, <2>2, <2>4
<1>10. /\ w[rest] \in Nat /\ w[m] \in Nat /\ w[k] \in Nat /\ w[Feasible] \in Nat
       /\ Objective(k) = Cardinality(m) * (w[Feasible] + 1) - w[k]
       /\ Objective(m) = Cardinality(m) * (w[Feasible] + 1) - w[m]
  <2> HIDE DEF k, rest
  <2>. QED  BY <1>1, <1>2, <1>6, <1>9
<1>11. Cardinality(m) * (w[Feasible] + 1) \in Int
  <2>1. Cardinality(m) \in Nat
    BY <1>1, SetsAreFinite
  <2>. QED  BY <1>10, <2>1
<1> HIDE DEF k, rest
<1>12. w[m] <= w[k]
  BY <1>5, <1>10, <1>11
<1>13. EffectiveCost(q) < EffectiveCost(p)
  <2>1. Index(q) < Index(p)
    <3>1. CreatedBefore(q, p)
      BY DEF CreatedBefore
    <3>. QED  BY <1>2, <3>1, IndexCounts
  <2>2. Index(q) \in Nat /\ Index(p) \in Nat
    BY <1>2, IndexCounts
  <2>3. TotalCost(p) * Scale \in Nat
    <3>1. TotalCost(p) \in Nat /\ Scale \in Nat
      BY <1>2, CostsAreNat, EffectiveCostsAreNat
    <3>. QED  BY <3>1
  <2>. QED  BY <2>1, <2>2, <2>3 DEF EffectiveCost
<1>14. EffectiveCost(q) \in Nat /\ EffectiveCost(p) \in Nat
  BY <1>2, EffectiveCostsAreNat
<1>. QED  BY <1>7, <1>8, <1>10, <1>12, <1>13, <1>14

-----------------------------------------------------------------------------
(* What a step leaves alone it leaves as true as it was.                   *)

LEMMA SameCycle ==
  ASSUME blocked' = blocked, robot' = robot, task' = task
  PROVE  /\ PendingTasks' = PendingTasks
         /\ \A r, t : Estimate(r, t)' = Estimate(r, t)
         /\ \A r, t : IsCandidate(r, t)' <=> IsCandidate(r, t)
         /\ \A t, u : Before(t, u)' <=> Before(t, u)
<1>1. PendingTasks' = PendingTasks
  BY DEF PendingTasks, IsPending
<1>2. \A r, t : Estimate(r, t)' = Estimate(r, t)
  BY DEF Estimate, PathCost
<1>3. \A r, t : IsCandidate(r, t)' <=> IsCandidate(r, t)
  BY <1>2 DEF IsCandidate, IsAvailable, IsPending, CanCarry, IsBatteryFeasible
<1>4. \A t, u : Before(t, u)' <=> Before(t, u)
  BY DEF Before
<1>. QED  BY <1>1, <1>2, <1>3, <1>4

PriceSum(f, m) == MapThenSumSet(LAMBDA p : f[p].toPickup + f[p].delivery, m)

LEMMA SamePrices ==
  ASSUME blocked' = blocked, robot' = robot, task' = task, price' = price
  PROVE  /\ Feasible' = Feasible
         /\ \A p : TotalCost(p)' = TotalCost(p)
         /\ \A p : IsLegal(p)' <=> IsLegal(p)
         /\ \A p, m : IsSettled(p, m)' <=> IsSettled(p, m)
         /\ \A m : MapThenSumSet(TotalCost, m)' = MapThenSumSet(TotalCost, m)
<1>1. Feasible' = Feasible /\ \A p : TotalCost(p)' = TotalCost(p)
  BY DEF Feasible, TotalCost
<1>2. \A p : IsLegal(p)' <=> IsLegal(p)
  BY SameCycle DEF IsLegal, IsAvailable, IsPending, CanCarry
<1>3. \A p, m : IsSettled(p, m)' <=> IsSettled(p, m)
  BY <1>1, SameCycle DEF IsSettled, Cheaper
<1>4. ASSUME NEW m PROVE MapThenSumSet(TotalCost, m) = PriceSum(price, m)
  BY Zenon DEF MapThenSumSet, MapThenFoldSet, TotalCost, PriceSum
<1>5. ASSUME NEW m PROVE MapThenSumSet(TotalCost, m)' = PriceSum(price, m)'
  BY Zenon DEF MapThenSumSet, MapThenFoldSet, TotalCost, PriceSum
<1>6. ASSUME NEW m PROVE PriceSum(price, m)' = PriceSum(price, m)
  OBVIOUS
<1>. QED  BY <1>1, <1>2, <1>3, <1>4, <1>5, <1>6

(* Whatever is returned has its sums right, and passes the check if it is  *)
(* a matching of feasible pairs, or a failure without pairs.               *)
LEMMA ReturnsPass ==
  ASSUME AllocInv, phase # "price", NEW st \in Statuses, NEW ok \in BOOLEAN,
         NEW m \in SUBSET Feasible, Return(st, ok, m), chosen' \in SUBSET Feasible,
         IsMatch(m), ok = FALSE => m = {}
  PROVE  /\ TypeOK' /\ PricesAreTrue' /\ NothingYet' /\ GreedyGoesInOrder'
         /\ (phase = "done" => ~ HasProblems(result))'
<1>1. /\ blocked' = blocked /\ robot' = robot /\ task' = task /\ price' = price
      /\ todo' = todo /\ phase' = "done" /\ result' = BuildResult(st, ok, m)
  BY DEF Return
<1>2. TypeOK /\ PricesAreTrue
  BY DEF AllocInv
<1>3. /\ result'.status = st /\ result'.success = ok /\ result'.pairs = m
      /\ result'.unassigned \subseteq PendingTasks /\ result'.total = SumOfCosts(m)
  BY <1>1 DEF BuildResult
<1>4. /\ Feasible' = Feasible /\ PendingTasks' = PendingTasks
      /\ \A p : IsLegal(p)' <=> IsLegal(p)
      /\ MapThenSumSet(TotalCost, m)' = MapThenSumSet(TotalCost, m)
  BY <1>1, SamePrices, SameCycle
<1>5. TypeOK'
  <2>1. SumOfCosts(m) \in Nat
    BY <1>2, CostsAreNat
  <2>2. PendingTasks \subseteq Tasks
    BY DEF PendingTasks
  <2>. QED  BY <1>1, <1>2, <1>3, <1>4, <2>1, <2>2 DEF TypeOK
<1>6. PricesAreTrue'
  <2>1. /\ \A r, t : IsCandidate(r, t)' <=> IsCandidate(r, t)
        /\ \A r, t : Estimate(r, t)' = Estimate(r, t)
    BY <1>1, SameCycle
  <2>. QED  BY <1>1, <1>2, <1>4, <2>1 DEF PricesAreTrue
<1>7. NothingYet' /\ GreedyGoesInOrder'
  BY <1>1 DEF NothingYet, GreedyGoesInOrder
<1>8. ~ HasProblems(result)'
  <2>1. CASE ok = FALSE
    BY <1>3, <2>1 DEF HasProblems
  <2>2. CASE ok = TRUE
    <3>1. ~ HasProblems(BuildResult(st, TRUE, m))
      BY <1>2, MatchingsPass
    <3> DEFINE res == BuildResult(st, TRUE, m)
    <3>2. res = result' /\ res.success = TRUE /\ res.pairs = m
      BY <1>1, <1>3, <2>2
    <3> HIDE DEF res
    <3>3. /\ IsMatch(m) /\ \A p \in m : IsLegal(p)
          /\ res.total = MapThenSumSet(TotalCost, m)
          /\ res.unassigned = PendingTasks \ {p[2] : p \in m}
          /\ Cardinality(m) + Cardinality(res.unassigned) = Cardinality(PendingTasks)
      <4>1. ~ HasProblems(res)
        BY <3>1 DEF res
      <4>. QED  BY <3>2, <4>1 DEF HasProblems
    <3>4. /\ result'.success = TRUE /\ result'.pairs = m
          /\ result'.total = MapThenSumSet(TotalCost, m)
          /\ result'.unassigned = PendingTasks \ {p[2] : p \in m}
          /\ Cardinality(m) + Cardinality(result'.unassigned) = Cardinality(PendingTasks)
      BY <3>2, <3>3
    <3>. QED  BY <1>4, <3>3, <3>4 DEF HasProblems
  <2>. QED  BY <2>1, <2>2
<1>. QED  BY <1>5, <1>6, <1>7, <1>8

(* A maximum that is returned as one is one.                               *)
LEMMA MaximaAreReturned ==
  ASSUME TypeOK, NEW m \in SUBSET Feasible, Return("OPTIMAL", TRUE, m),
         m \in Optima \/ Feasible = {}
  PROVE  OptimaAreBest'
<1>1. /\ blocked' = blocked /\ robot' = robot /\ task' = task /\ price' = price
      /\ result'.pairs = m /\ result'.total = SumOfCosts(m)
  BY DEF Return, BuildResult
<1>2. /\ Feasible' = Feasible /\ \A p : TotalCost(p)' = TotalCost(p)
      /\ \A k : MapThenSumSet(TotalCost, k)' = MapThenSumSet(TotalCost, k)
  BY <1>1, SamePrices
<1>3. TiesGoToTheLowerId'
  <2>1. ASSUME NEW p \in m, NEW q \in Feasible,
               q[2] = p[2], q[1] < p[1], TotalCost(q) = TotalCost(p)
        PROVE  \E other \in m : other[1] = q[1]
    BY <2>1, MaximaBreakTies
  <2>. QED  BY <1>1, <1>2, <2>1 DEF TiesGoToTheLowerId
<1>4. ASSUME NEW k \in SUBSET Feasible, IsMatch(k)
      PROVE  \/ Cardinality(k) < Cardinality(m)
             \/ Cardinality(k) = Cardinality(m) /\ SumOfCosts(k) >= SumOfCosts(m)
  <2>1. CASE m \in Optima
    BY <1>4, <2>1, MaximaAreBest
  <2>2. CASE Feasible = {}
    <3>1. k = m /\ SumOfCosts(m) \in Nat
      BY <2>2, CostsAreNat
    <3>. QED  BY <3>1
  <2>. QED  BY <2>1, <2>2
<1>5. ASSUME NEW k \in SUBSET Feasible', IsMatch(k)
      PROVE  \/ Cardinality(k) < Cardinality(result'.pairs)
             \/ /\ Cardinality(k) = Cardinality(result'.pairs)
                /\ MapThenSumSet(TotalCost, k)' >= result'.total
  BY <1>1, <1>2, <1>4, <1>5 DEF SumOfCosts
<1>. QED  BY <1>3, <1>5 DEF OptimaAreBest

-----------------------------------------------------------------------------
(* The invariant.                                                          *)

LEMMA NothingReturnedYet ==
  ASSUME result = NoResult, phase # "done"
  PROVE  /\ phase = "done" => ~ HasProblems(result)
         /\ GreedyHasSettled /\ OptimaAreBest
BY DEF NoResult, GreedyHasSettled, OptimaAreBest

LEMMA AllocationStarts == Init => AllocInv
<1> SUFFICES ASSUME Init PROVE AllocInv
  OBVIOUS
<1>1. Feasible = {}
  BY DEF Init, Feasible
<1>2. result = NoResult /\ phase = "price"
  BY DEF Init
<1>3. TypeOK
  <2>1. blocked \in SUBSET Cells
    BY AllocationAssumption DEF Init
  <2>2. /\ robot \in [Robots -> RobotKinds] /\ task \in [Tasks -> TaskKinds]
        /\ todo = {} /\ chosen = {} /\ phase = "price"
    BY DEF Init
  <2>3. /\ Feasible \subseteq Robots \X Tasks
        /\ \A p \in Feasible : price[p] \in [toPickup : Nat, delivery : Nat]
    BY <1>1
  <2>4. /\ result.status \in Statuses /\ result.success \in BOOLEAN
        /\ result.pairs \subseteq Feasible /\ result.unassigned \subseteq Tasks
        /\ result.total \in Nat
    BY <1>2 DEF NoResult, Statuses
  <2>5. chosen \subseteq Feasible /\ todo \subseteq Tasks
    BY <2>2
  <2>. QED  BY <2>1, <2>2, <2>3, <2>4, <2>5 DEF TypeOK
<1>4. PricesAreTrue /\ NothingYet /\ GreedyGoesInOrder
  BY <1>2 DEF Init, PricesAreTrue, NothingYet, GreedyGoesInOrder
<1>. QED  BY <1>2, <1>3, <1>4, NothingReturnedYet DEF AllocInv

LEMMA PricingKeepsIt == AllocInv /\ BuildCandidatePairs => AllocInv'
<1> SUFFICES ASSUME AllocInv, BuildCandidatePairs PROVE AllocInv'
  OBVIOUS
<1> DEFINE pairs == {p \in Robots \X Tasks : IsCandidate(p[1], p[2])}
<1>1. /\ blocked' = blocked /\ robot' = robot /\ task' = task
      /\ chosen' = chosen /\ result' = result /\ todo' = PendingTasks
      /\ phase = "price" /\ phase' \in {"greedy", "solve"}
      /\ price' = [p \in pairs |-> Estimate(p[1], p[2])]
  BY DEF BuildCandidatePairs
<1>2. TypeOK /\ chosen = {} /\ result = NoResult
  BY <1>1 DEF AllocInv, NothingYet
<1>3. /\ PendingTasks' = PendingTasks
      /\ \A r, t : Estimate(r, t)' = Estimate(r, t)
      /\ \A r, t : IsCandidate(r, t)' <=> IsCandidate(r, t)
  BY <1>1, SameCycle
<1>4. Feasible' = pairs
  BY <1>1 DEF Feasible
<1>5. \A p \in pairs : price'[p] = Estimate(p[1], p[2])
  BY <1>1
<1>6. \A p \in pairs : p \in Robots \X Tasks /\ IsCandidate(p[1], p[2])
  OBVIOUS
<1> HIDE DEF pairs
<1>7. TypeOK'
  <2>1. ASSUME NEW p \in pairs PROVE price'[p] \in [toPickup : Nat, delivery : Nat]
    <3>1. p[1] \in Robots /\ p[2] \in Tasks /\ IsCandidate(p[1], p[2])
      BY <1>6
    <3>2. robot \in [Robots -> RobotKinds] /\ task \in [Tasks -> TaskKinds]
      BY <1>2 DEF TypeOK
    <3>3. Estimate(p[1], p[2]) \in [toPickup : Nat, delivery : Nat]
      BY <3>1, <3>2, EstimatesAreTyped
    <3>. QED  BY <1>5, <3>3
  <2>2. /\ blocked' \in SUBSET Cells
        /\ robot' \in [Robots -> RobotKinds] /\ task' \in [Tasks -> TaskKinds]
        /\ phase' \in {"price", "greedy", "solve", "done"}
    BY <1>1, <1>2 DEF TypeOK
  <2>3. Feasible' \subseteq Robots \X Tasks
    BY <1>4, <1>6
  <2>4. \A p \in Feasible' : price'[p] \in [toPickup : Nat, delivery : Nat]
    BY <1>4, <2>1
  <2>5. todo' \subseteq Tasks /\ chosen' \subseteq Feasible'
    BY <1>1, <1>2 DEF PendingTasks
  <2>6. /\ result'.status \in Statuses /\ result'.success \in BOOLEAN
        /\ result'.pairs \subseteq Feasible' /\ result'.unassigned \subseteq Tasks
        /\ result'.total \in Nat
    BY <1>1, <1>2 DEF NoResult, Statuses
  <2>. QED  BY <2>2, <2>3, <2>4, <2>5, <2>6 DEF TypeOK
<1>8. PricesAreTrue'
  BY <1>3, <1>4, <1>5, <1>6 DEF PricesAreTrue
<1>9. NothingYet'
  BY <1>1, <1>2 DEF NothingYet
<1>10. GreedyGoesInOrder'
  <2>1. \A p \in pairs : p[2] \in PendingTasks
    BY <1>6 DEF IsCandidate, PendingTasks
  <2>. QED  BY <1>1, <1>2, <1>3, <1>4, <2>1 DEF GreedyGoesInOrder, IsMatch
<1>11. (/\ phase = "done" => ~ HasProblems(result)
        /\ GreedyHasSettled /\ OptimaAreBest)'
  <2>1. result' = NoResult /\ phase' # "done"
    BY <1>1, <1>2
  <2>. QED  BY <2>1 DEF NoResult, GreedyHasSettled, OptimaAreBest
<1>. QED  BY <1>7, <1>8, <1>9, <1>10, <1>11 DEF AllocInv

LEMMA GreedyStepKeepsIt == AllocInv /\ GreedyStep => AllocInv'
<1> SUFFICES ASSUME AllocInv, GreedyStep PROVE AllocInv'
  OBVIOUS
<1>1. PICK t \in todo :
        /\ phase = "greedy"
        /\ \A u \in todo \ {t} : Before(t, u)
        /\ todo' = todo \ {t}
        /\ \/ \E r \in Robots : IsCheapestFree(r, t) /\ chosen' = chosen \cup {<<r, t>>}
           \/ FreeRobotsFor(t) = {} /\ chosen' = chosen
        /\ blocked' = blocked /\ robot' = robot /\ task' = task
        /\ phase' = phase /\ price' = price /\ result' = result
  BY DEF GreedyStep
<1>2. /\ TypeOK /\ PricesAreTrue /\ GreedyGoesInOrder /\ result = NoResult
  BY <1>1 DEF AllocInv, NothingYet
<1>3. /\ Feasible' = Feasible /\ PendingTasks' = PendingTasks
      /\ \A p, m : IsSettled(p, m)' <=> IsSettled(p, m)
      /\ \A u, v : Before(u, v)' <=> Before(u, v)
      /\ \A r, u : Estimate(r, u)' = Estimate(r, u)
      /\ \A r, u : IsCandidate(r, u)' <=> IsCandidate(r, u)
  BY <1>1, SameCycle, SamePrices
<1>4. PICK more : more = chosen'
  OBVIOUS
<1>5. more \in SUBSET Feasible
  <2>1. chosen \subseteq Feasible
    BY <1>2 DEF TypeOK
  <2>. QED  BY <1>1, <1>4, <2>1 DEF IsCheapestFree, FreeRobotsFor
<1>6. /\ IsMatch(more)
      /\ \A u \in todo \ {t} : \A v \in PendingTasks \ (todo \ {t}) : Before(v, u)
      /\ \A p \in more : p[2] \notin todo \ {t}
      /\ \A p \in Feasible : p[2] \notin todo \ {t} => IsSettled(p, more)
  BY <1>1, <1>2, <1>4, <1>5, OneMoreTaskIsSettled
<1>7. TypeOK'
  BY <1>1, <1>2, <1>3, <1>4, <1>5 DEF TypeOK
<1>8. PricesAreTrue'
  BY <1>1, <1>2, <1>3 DEF PricesAreTrue
<1>9. NothingYet'
  BY <1>1, <1>2 DEF NothingYet
<1>10. GreedyGoesInOrder'
  <2>1. todo' \subseteq PendingTasks'
    BY <1>1, <1>2, <1>3 DEF GreedyGoesInOrder
  <2>2. \A p \in Feasible : p[2] \notin todo \ {t} => IsSettled(p, more)'
    BY <1>3, <1>6
  <2>3. \A p \in Feasible' : p[2] \notin todo' => IsSettled(p, chosen)'
    BY <1>1, <1>3, <1>4, <2>2 DEF IsSettled
  <2>. QED  BY <1>1, <1>3, <1>4, <1>6, <2>1, <2>3 DEF GreedyGoesInOrder
<1>11. (/\ phase = "done" => ~ HasProblems(result)
        /\ GreedyHasSettled /\ OptimaAreBest)'
  <2>1. result' = NoResult /\ phase' # "done"
    BY <1>1, <1>2
  <2>. QED  BY <2>1 DEF NoResult, GreedyHasSettled, OptimaAreBest
<1>. QED  BY <1>7, <1>8, <1>9, <1>10, <1>11 DEF AllocInv

LEMMA GreedyReturnKeepsIt == AllocInv /\ GreedyReturn => AllocInv'
<1> SUFFICES ASSUME AllocInv, GreedyReturn PROVE AllocInv'
  OBVIOUS
<1>1. /\ phase = "greedy" /\ todo = {} /\ Return("GREEDY", TRUE, chosen)
      /\ chosen' = chosen
  BY DEF GreedyReturn
<1>2. PICK m : m = chosen
  OBVIOUS
<1>3. /\ m \in SUBSET Feasible /\ IsMatch(m) /\ GreedyGoesInOrder /\ PricesAreTrue /\ TypeOK
  BY <1>1, <1>2 DEF AllocInv, TypeOK, GreedyGoesInOrder
<1>4. /\ blocked' = blocked /\ robot' = robot /\ task' = task /\ price' = price
      /\ result'.pairs = m /\ result'.status = "GREEDY"
  BY <1>1, <1>2 DEF Return, BuildResult
<1>5. /\ TypeOK' /\ PricesAreTrue' /\ NothingYet' /\ GreedyGoesInOrder'
      /\ (phase = "done" => ~ HasProblems(result))'
  <2>1. "GREEDY" \in Statuses /\ TRUE \in BOOLEAN /\ Return("GREEDY", TRUE, m)
    BY <1>1, <1>2 DEF Statuses
  <2>. QED  BY <1>1, <1>2, <1>3, <2>1, ReturnsPass
<1>6. GreedyHasSettled'
  <2>1. \A p \in Feasible : IsSettled(p, m)
    BY <1>1, <1>2, <1>3 DEF GreedyGoesInOrder
  <2>2. Feasible' = Feasible /\ \A p, k : IsSettled(p, k)' <=> IsSettled(p, k)
    BY <1>4, SamePrices
  <2>3. \A p \in Feasible' : IsSettled(p, m)'
    BY <2>1, <2>2
  <2>4. \A p \in Feasible' : IsSettled(p, result.pairs)'
    BY <1>4, <2>3 DEF IsSettled
  <2>. QED  BY <2>4 DEF GreedyHasSettled
<1>7. OptimaAreBest'
  BY <1>4 DEF OptimaAreBest
<1>. QED  BY <1>5, <1>6, <1>7 DEF AllocInv

LEMMA CpSatKeepsIt == AllocInv /\ CpSat => AllocInv'
<1> SUFFICES ASSUME AllocInv, CpSat PROVE AllocInv'
  OBVIOUS
<1>1. TypeOK
  BY DEF AllocInv
<1>2. PICK st \in Statuses, ok \in BOOLEAN, m \in SUBSET Feasible :
        /\ phase = "solve" /\ Return(st, ok, m) /\ chosen' \in SUBSET Feasible
        /\ IsMatch(m) /\ (ok = FALSE => m = {}) /\ st # "GREEDY"
        /\ st = "OPTIMAL" => ok = TRUE /\ (m \in Optima \/ Feasible = {})
  <2>0. /\ \A m \in Allowed : m \in SUBSET Feasible /\ IsMatch(m)
        /\ chosen \in SUBSET Feasible
        /\ {} \in SUBSET Feasible /\ IsMatch({})
    BY <1>1 DEF Allowed, IsMatching, IsMatch, TypeOK
  <2>1. CASE NoPairs
    <3>1. phase = "solve" /\ Feasible = {} /\ Return("OPTIMAL", TRUE, {}) /\ chosen' = chosen
      BY <2>1 DEF NoPairs
    <3>. QED  BY <2>0, <3>1 DEF Statuses
  <2>2. CASE Solve
    <3>1. PICK m \in Allowed :
            /\ phase = "solve" /\ chosen' = m
            /\ \/ m \in Optima /\ Return("OPTIMAL", TRUE, m)
               \/ Return("FEASIBLE", TRUE, m)
      BY <2>2 DEF Solve
    <3>2. CASE m \in Optima /\ Return("OPTIMAL", TRUE, m)
      BY <2>0, <3>1, <3>2 DEF Statuses
    <3>3. CASE Return("FEASIBLE", TRUE, m)
      BY <2>0, <3>1, <3>3 DEF Statuses
    <3>. QED  BY <3>1, <3>2, <3>3
  <2>3. CASE GiveUp
    <3>1. phase = "solve" /\ Return("UNKNOWN", FALSE, {}) /\ chosen' = chosen
      BY <2>3 DEF GiveUp
    <3>. QED  BY <2>0, <3>1 DEF Statuses
  <2>. QED  BY <2>1, <2>2, <2>3 DEF CpSat
<1>3. /\ TypeOK' /\ PricesAreTrue' /\ NothingYet' /\ GreedyGoesInOrder'
      /\ (phase = "done" => ~ HasProblems(result))'
  BY <1>2, ReturnsPass
<1>4. result'.status = st
  BY <1>2 DEF Return, BuildResult
<1>5. GreedyHasSettled'
  BY <1>2, <1>4 DEF GreedyHasSettled
<1>6. OptimaAreBest'
  <2>1. CASE st = "OPTIMAL"
    <3>1. Return("OPTIMAL", TRUE, m) /\ (m \in Optima \/ Feasible = {})
      BY <1>2, <2>1
    <3>. QED  BY <1>1, <3>1, MaximaAreReturned
  <2>2. CASE st # "OPTIMAL"
    BY <1>4, <2>2 DEF OptimaAreBest
  <2>. QED  BY <2>1, <2>2
<1>. QED  BY <1>3, <1>5, <1>6 DEF AllocInv

LEMMA RestKeepsIt == AllocInv /\ UNCHANGED vars => AllocInv'
<1> SUFFICES ASSUME AllocInv, UNCHANGED vars PROVE AllocInv'
  OBVIOUS
<1>1. /\ blocked' = blocked /\ robot' = robot /\ task' = task /\ price' = price
      /\ phase' = phase /\ todo' = todo /\ chosen' = chosen /\ result' = result
  BY DEF vars
<1>2. /\ Feasible' = Feasible /\ PendingTasks' = PendingTasks
      /\ \A p : TotalCost(p)' = TotalCost(p)
      /\ \A p : IsLegal(p)' <=> IsLegal(p)
      /\ \A p, m : IsSettled(p, m)' <=> IsSettled(p, m)
      /\ \A m : MapThenSumSet(TotalCost, m)' = MapThenSumSet(TotalCost, m)
      /\ \A u, v : Before(u, v)' <=> Before(u, v)
      /\ \A r, u : Estimate(r, u)' = Estimate(r, u)
      /\ \A r, u : IsCandidate(r, u)' <=> IsCandidate(r, u)
  BY <1>1, SameCycle, SamePrices
<1>3. TypeOK' /\ PricesAreTrue' /\ NothingYet'
  BY <1>1, <1>2 DEF AllocInv, TypeOK, PricesAreTrue, NothingYet
<1>4. PICK m, n : m = chosen /\ n = result.pairs
  OBVIOUS
<1>5. GreedyGoesInOrder'
  <2>1. \A p : IsSettled(p, chosen)' <=> IsSettled(p, chosen)
    <3>1. \A p : IsSettled(p, m)' <=> IsSettled(p, m)
      BY <1>2
    <3>. QED  BY <1>1, <1>4, <3>1 DEF IsSettled
  <2>. QED  BY <1>1, <1>2, <2>1 DEF AllocInv, GreedyGoesInOrder
<1>6. GreedyHasSettled'
  <2>1. \A p : IsSettled(p, result.pairs)' <=> IsSettled(p, result.pairs)
    <3>1. \A p : IsSettled(p, n)' <=> IsSettled(p, n)
      BY <1>2
    <3>. QED  BY <1>1, <1>4, <3>1 DEF IsSettled
  <2>. QED  BY <1>1, <1>2, <2>1 DEF AllocInv, GreedyHasSettled
<1>7. MapThenSumSet(TotalCost, result.pairs)' = MapThenSumSet(TotalCost, result.pairs)
  <2>1. MapThenSumSet(TotalCost, n)' = MapThenSumSet(TotalCost, n)
    BY <1>2
  <2>2. n = result'.pairs
    BY <1>1, <1>4
  <2>. QED  BY <1>4, <2>1, <2>2
<1>8. (phase = "done" => ~ HasProblems(result))'
  BY <1>1, <1>2, <1>7 DEF AllocInv, HasProblems
<1>9. OptimaAreBest'
  <2>1. TiesGoToTheLowerId' <=> TiesGoToTheLowerId
    BY <1>1, <1>2 DEF TiesGoToTheLowerId
  <2>. QED  BY <1>1, <1>2, <2>1 DEF AllocInv, OptimaAreBest
<1>. QED  BY <1>3, <1>5, <1>6, <1>8, <1>9 DEF AllocInv

(* Every state of a cycle satisfies the invariant.                         *)
THEOREM AllocationIsInvariant == Spec => []AllocInv
<1>1. AllocInv /\ [Next]_vars => AllocInv'
  BY PricingKeepsIt, GreedyStepKeepsIt, GreedyReturnKeepsIt, CpSatKeepsIt, RestKeepsIt
     DEF Next, Greedy
<1>. QED  BY <1>1, AllocationStarts, PTL DEF Spec

-----------------------------------------------------------------------------
(* What the allocators promise.                                            *)

(* find_allocation_problems finds nothing in what either allocator         *)
(* returns: no robot and no task twice, every pair feasible, the total and *)
(* the unassigned tasks right.                                             *)
THEOREM ResultsAlwaysPass == Spec => []ResultsPassTheCheck
<1>1. AllocInv => ResultsPassTheCheck
  BY DEF AllocInv, ResultsPassTheCheck
<1>. QED  BY <1>1, AllocationIsInvariant, PTL

(* Greedy leaves no feasible pair whose robot and task would both rather   *)
(* be paired with each other.                                              *)
THEOREM GreedyLeavesNothing == Spec => []GreedyIsStable
<1>1. AllocInv => GreedyIsStable
  <2> SUFFICES ASSUME AllocInv, result.status = "GREEDY", NEW p \in Feasible
               PROVE  \/ \E r \in Holder(p[2]) :
                           \/ r = p[1]
                           \/ TotalCost(<<r, p[2]>>) < TotalCost(p)
                           \/ TotalCost(<<r, p[2]>>) = TotalCost(p) /\ r < p[1]
                      \/ \E q \in result.pairs :
                           /\ q[1] = p[1]
                           /\ \/ task[q[2]].priority > task[p[2]].priority
                              \/ task[q[2]].priority = task[p[2]].priority /\ q[2] < p[2]
    BY DEF GreedyIsStable
  <2>1. IsSettled(p, result.pairs)
    BY DEF AllocInv, GreedyHasSettled
  <2>2. p = <<p[1], p[2]>>
    BY DEF AllocInv, TypeOK
  <2>3. CASE \E q \in result.pairs :
               q[2] = p[2] /\ (q[1] = p[1] \/ Cheaper(q[1], p[1], p[2]))
    <3>1. PICK q \in result.pairs :
            q[2] = p[2] /\ (q[1] = p[1] \/ Cheaper(q[1], p[1], p[2]))
      BY <2>3
    <3>2. q[1] \in Holder(p[2])
      BY <3>1 DEF Holder
    <3>. QED  BY <2>2, <3>1, <3>2 DEF Cheaper
  <2>4. CASE \E q \in result.pairs : q[1] = p[1] /\ Before(q[2], p[2])
    BY <2>4 DEF Before
  <2>. QED  BY <2>1, <2>3, <2>4 DEF IsSettled
<1>. QED  BY <1>1, AllocationIsInvariant, PTL

(* What CP-SAT returns as OPTIMAL serves as many tasks as can be served,   *)
(* at the least cost of all that serve as many, and with the lower id      *)
(* where two robots cost the same.                                         *)
THEOREM OptimalIsOptimal == Spec => []OptimaAreBest
<1>1. AllocInv => OptimaAreBest
  BY DEF AllocInv
<1>. QED  BY <1>1, AllocationIsInvariant, PTL
=============================================================================
