----------------------------- MODULE GridProofs -----------------------------
(***************************************************************************)
(* Facts about the floor plan that the proofs about searches rest on: how  *)
(* far cells are apart, what a recursive definition over layers of cells   *)
(* computes, and that Width * Height steps reach all that can be reached.  *)
(* Induction is over sets of numbers: a set that has the first number and  *)
(* with every number the next one has them all.                            *)
(***************************************************************************)
EXTENDS Grid, FiniteSetTheorems, TLAPS

-----------------------------------------------------------------------------
(* Numbers.                                                                *)

(* A set of naturals that is not empty has a least element.                *)
LEMMA LeastNumber ==
  ASSUME NEW T, T \subseteq Nat, T # {}
  PROVE  \E n \in T : \A m \in T : n <= m
<1>1. PICK n \in T : \A m \in T : ~ (<<m, n>> \in OpToRel(<, Nat))
  BY NatLessThanWellFounded, WFMin
<1>2. \A m, k \in Nat : m < k => <<m, k>> \in OpToRel(<, Nat)
  BY Zenon DEF OpToRel
<1>3. \A m \in T : ~ (m < n)
  BY <1>1, <1>2
<1>. QED  BY <1>3

(* Induction, from a first number m up to n.                               *)
LEMMA IntervalInduction ==
  ASSUME NEW m \in Nat, NEW n \in Nat, NEW S, m \in S,
         \A i \in m .. n - 1 : i \in S => i + 1 \in S
  PROVE  m .. n \subseteq S
<1> DEFINE T == {i \in m .. n : i \notin S}
<1>1. SUFFICES ASSUME T # {} PROVE FALSE
  OBVIOUS
<1>2. PICK i \in T : \A j \in T : i <= j
  <2>1. T \subseteq Nat
    OBVIOUS
  <2> HIDE DEF T
  <2>. QED  BY <1>1, <2>1, LeastNumber
<1>3. i \in m .. n /\ i \notin S /\ i # m
  OBVIOUS
<1>4. i - 1 \in m .. n - 1 /\ i - 1 \in m .. n /\ (i - 1) + 1 = i
  BY <1>3
<1>5. i - 1 \in S
  BY <1>2, <1>4
<1>. QED  BY <1>3, <1>4, <1>5

(* A recursive definition over 0, 1, 2, ... has a solution.  F says how a  *)
(* value of V follows from the one before it.                              *)
Rules(N, V) == [(1 .. N) \X V -> V]

Follows(f, N, V, base, F) ==
  /\ f \in [0 .. N -> V]
  /\ f[0] = base
  /\ \A n \in 1 .. N : f[n] = F[<<n, f[n-1]>>]

LEMMA LayersExist ==
  ASSUME NEW N \in Nat, NEW V, NEW base \in V, NEW F \in Rules(N, V)
  PROVE  \E f : Follows(f, N, V, base, F)
<1> USE DEF Rules, Follows
<1> DEFINE Solves(f, k) == /\ f \in [0 .. k -> V]
                           /\ f[0] = base
                           /\ \A n \in 1 .. k : f[n] = F[<<n, f[n-1]>>]
           S == {k \in 0 .. N : \E f : Solves(f, k)}
<1>1. 0 \in S
  <2>1. Solves([i \in 0 .. 0 |-> base], 0)
    OBVIOUS
  <2>2. 0 \in 0 .. N
    OBVIOUS
  <2> HIDE DEF Solves
  <2>. QED  BY <2>1, <2>2
<1>2. ASSUME NEW k \in 0 .. N - 1, k \in S PROVE k + 1 \in S
  <2>1. PICK f : Solves(f, k)
    BY <1>2
  <2> DEFINE next == F[<<k + 1, f[k]>>]
             g == [i \in 0 .. k + 1 |-> IF i = k + 1 THEN next ELSE f[i]]
  <2>2. next \in V
    BY <2>1
  <2>3. g \in [0 .. k + 1 -> V] /\ g[k+1] = next
        /\ \A i \in 0 .. k : g[i] = f[i]
    <3>1. \A i \in 0 .. k : f[i] \in V /\ i # k + 1 /\ i \in 0 .. k + 1
      BY <2>1
    <3>2. k + 1 \in 0 .. k + 1 /\ \A i \in 0 .. k + 1 : i = k + 1 \/ i \in 0 .. k
      OBVIOUS
    <3> HIDE DEF next
    <3>. QED  BY <2>2, <3>1, <3>2
  <2>4. g[0] = base
    BY <2>1, <2>3
  <2>5. ASSUME NEW n \in 1 .. k + 1 PROVE g[n] = F[<<n, g[n-1]>>]
    <3>1. CASE n = k + 1
      <4>1. n - 1 = k /\ g[n-1] = f[k]
        BY <2>3, <3>1
      <4> HIDE DEF g
      <4>. QED  BY <2>3, <3>1, <4>1
    <3>2. CASE n # k + 1
      <4>1. n \in 1 .. k /\ n \in 0 .. k /\ n - 1 \in 0 .. k
        BY <3>2
      <4>2. g[n] = f[n] /\ g[n-1] = f[n-1] /\ f[n] = F[<<n, f[n-1]>>]
        BY <2>1, <2>3, <4>1
      <4> HIDE DEF g
      <4>. QED  BY <4>2
    <3>. QED  BY <3>1, <3>2
  <2> HIDE DEF g
  <2>6. Solves(g, k + 1)
    BY <2>3, <2>4, <2>5
  <2>. QED  BY <2>6
<1> HIDE DEF S
<1>3. 0 .. N \subseteq S
  BY <1>1, <1>2, IntervalInduction
<1>. QED  BY <1>3 DEF S

-----------------------------------------------------------------------------
(* Distances.                                                              *)

LEMMA DistanceIsNat ==
  ASSUME NEW a \in Cells, NEW b \in Cells
  PROVE  /\ ManhattanDistance(a, b) \in Nat
         /\ ManhattanDistance(a, a) = 0
BY DimensionAssumption DEF ManhattanDistance, Distance, Cells

(* One step brings a cell at most one step nearer to any other.            *)
LEMMA StepsBringNearer ==
  ASSUME NEW a \in Int \X Int, NEW b \in Cells, NEW c \in Cells,
         c = b \/ AdjacentTo(b, c)
  PROVE  /\ ManhattanDistance(b, a) <= ManhattanDistance(c, a) + 1
         /\ ManhattanDistance(a, c) <= ManhattanDistance(a, b) + 1
BY DimensionAssumption DEF AdjacentTo, ManhattanDistance, Distance, Cells

-----------------------------------------------------------------------------
(* Which cells can be reached at all.                                      *)

(* A set of cells and the walkable cells next to them.                     *)
Wider(S, b) == S \cup UNION {Neighbors(c, b) : c \in S}

(* Every entry of WithinSteps adds one step to the one before it.          *)
LEMMA WithinStepsDef ==
  ASSUME NEW start \in Cells, NEW b
  PROVE  /\ WithinSteps(start, b) \in [0 .. Width * Height -> SUBSET Cells]
         /\ WithinSteps(start, b)[0] = {start}
         /\ \A n \in 1 .. Width * Height :
              WithinSteps(start, b)[n] = Wider(WithinSteps(start, b)[n-1], b)
<1> DEFINE N == Width * Height
           F == [p \in (1 .. N) \X SUBSET Cells |-> Wider(p[2], b)]
<1>1. N \in Nat
  BY DimensionAssumption
<1> HIDE DEF N
<1>2. F \in Rules(N, SUBSET Cells)
  BY DEF Wider, Neighbors, Rules
<1>3. PICK f : Follows(f, N, SUBSET Cells, {start}, F)
  <2> HIDE DEF F
  <2>. QED  BY <1>1, <1>2, LayersExist
<1>4. \A n \in 1 .. N : f[n] = Wider(f[n-1], b)
  <2>1. ASSUME NEW n \in 1 .. N PROVE f[n] = Wider(f[n-1], b)
    <3>1. n - 1 \in 0 .. N /\ f[n-1] \in SUBSET Cells
      BY <1>1, <1>3 DEF Follows
    <3>2. F[<<n, f[n-1]>>] = Wider(f[n-1], b)
      BY <3>1
    <3> HIDE DEF F
    <3>. QED  BY <1>3, <3>2 DEF Follows
  <2>. QED  BY <2>1
<1> DEFINE G(g) == [n \in 0 .. N |-> IF n = 0 THEN {start}
                                     ELSE g[n-1] \cup UNION {Neighbors(c, b) : c \in g[n-1]}]
<1>5. f = G(f)
  <2> HIDE DEF F
  <2>1. \A n \in 0 .. N : n = 0 \/ n \in 1 .. N
    BY <1>1
  <2>2. \A n \in 0 .. N : f[n] = IF n = 0 THEN {start}
                                 ELSE f[n-1] \cup UNION {Neighbors(c, b) : c \in f[n-1]}
    BY <1>3, <1>4, <2>1 DEF Wider, Follows
  <2>. QED  BY <1>3, <2>2 DEF Follows
<1>6. WithinSteps(start, b) = CHOOSE g : g = G(g)
  BY Zenon DEF WithinSteps, N
<1>7. WithinSteps(start, b) = G(WithinSteps(start, b))
  <2> HIDE DEF G
  <2>. QED  BY <1>5, <1>6
<1> DEFINE r == WithinSteps(start, b)
<1>8. r = [n \in 0 .. N |-> IF n = 0 THEN {start} ELSE Wider(r[n-1], b)]
  BY <1>7 DEF Wider
<1> HIDE DEF F, r, G
<1>9. DOMAIN r = 0 .. N /\ r[0] = {start}
      /\ \A n \in 1 .. N : r[n] = Wider(r[n-1], b)
  <2>1. 0 \in 0 .. N /\ \A n \in 1 .. N : n \in 0 .. N /\ n # 0
    BY <1>1
  <2>2. DOMAIN r = 0 .. N
    BY <1>8, Zenon
  <2>3. \A n \in 0 .. N : r[n] = IF n = 0 THEN {start} ELSE Wider(r[n-1], b)
    BY <1>8, Zenon
  <2>. QED  BY <2>1, <2>2, <2>3
<1>10. \A n \in 0 .. N : r[n] \in SUBSET Cells
  <2> DEFINE S == {n \in 0 .. N : r[n] \in SUBSET Cells}
  <2>1. 0 \in S
    BY <1>1, <1>9
  <2>2. ASSUME NEW n \in 0 .. N - 1, n \in S PROVE n + 1 \in S
    <3>1. n + 1 \in 1 .. N /\ n + 1 \in 0 .. N /\ (n + 1) - 1 = n
      BY <1>1
    <3>. QED  BY <1>9, <2>2, <3>1 DEF Wider, Neighbors
  <2> HIDE DEF S
  <2>3. 0 .. N \subseteq S
    BY <1>1, <2>1, <2>2, IntervalInduction
  <2>. QED  BY <2>3 DEF S
<1>. QED  BY <1>8, <1>9, <1>10 DEF r, N

(* The ring after the last of s, the list of k + 1 rings and a nought.     *)
NextRing(s, k, b) ==
  (UNION {Neighbors(c, b) : c \in s[k+1]}) \ (s[k] \cup s[k+1])

LEMMA RingsDef ==
  ASSUME NEW start \in Cells, NEW b
  PROVE  \E r : /\ DOMAIN r = 0 .. Width * Height
                /\ r[0] = << {}, {start} >>
                /\ \A k \in 1 .. Width * Height :
                     r[k] = Append(r[k-1], NextRing(r[k-1], k, b))
                /\ Rings(start, b) = Tail(r[Width * Height])
<1> DEFINE N == Width * Height
           V == Seq(SUBSET Cells)
           F == [p \in (1 .. N) \X V |-> Append(p[2], NextRing(p[2], p[1], b))]
           G(g) == [k \in 0 .. N |->
                      IF k = 0 THEN << {}, {start} >>
                      ELSE LET before == g[k-1] IN
                           Append(before, (UNION {Neighbors(c, b) : c \in before[k+1]})
                                            \ (before[k] \cup before[k+1]))]
<1>1. N \in Nat
  BY DimensionAssumption
<1> HIDE DEF N
<1>2. \A p, k : NextRing(p, k, b) \subseteq Cells \ b
  BY DEF Neighbors, NextRing
<1>3. F \in Rules(N, V)
  BY <1>2 DEF Rules
<1>4. PICK f : Follows(f, N, V, << {}, {start} >>, F)
  <2>1. << {}, {start} >> \in V
    OBVIOUS
  <2> HIDE DEF F, V
  <2>. QED  BY <1>1, <1>3, <2>1, LayersExist
<1>5. \A k \in 1 .. N : f[k-1] \in V /\ f[k] = Append(f[k-1], NextRing(f[k-1], k, b))
  <2>1. ASSUME NEW k \in 1 .. N
        PROVE  f[k-1] \in V /\ f[k] = Append(f[k-1], NextRing(f[k-1], k, b))
    <3>1. k - 1 \in 0 .. N /\ f[k-1] \in V
      BY <1>1, <1>4 DEF Follows
    <3> HIDE DEF V
    <3>2. F[<<k, f[k-1]>>] = Append(f[k-1], NextRing(f[k-1], k, b))
      BY <3>1
    <3> HIDE DEF F
    <3>. QED  BY <1>4, <3>1, <3>2 DEF Follows
  <2>. QED  BY <2>1
<1>6. f = G(f)
  <2> HIDE DEF F, V
  <2>1. \A k \in 0 .. N : k = 0 \/ k \in 1 .. N
    BY <1>1
  <2>2. \A k \in 0 .. N :
          f[k] = IF k = 0 THEN << {}, {start} >>
                 ELSE LET before == f[k-1] IN
                      Append(before, (UNION {Neighbors(c, b) : c \in before[k+1]})
                                       \ (before[k] \cup before[k+1]))
    BY <1>4, <1>5, <2>1 DEF Follows, NextRing
  <2>. QED  BY <1>4, <2>2 DEF Follows
<1> DEFINE r == CHOOSE g : g = G(g)
<1>7. r = G(r)
  <2> HIDE DEF G
  <2>. QED  BY <1>6
<1>8. Rings(start, b) = Tail(r[N])
  BY Zenon DEF Rings, N
<1> HIDE DEF F, r
<1>9. DOMAIN r = 0 .. N /\ r[0] = << {}, {start} >>
      /\ \A k \in 1 .. N : r[k] = Append(r[k-1], NextRing(r[k-1], k, b))
  <2>1. 0 \in 0 .. N /\ \A k \in 1 .. N : k \in 0 .. N /\ k # 0
    BY <1>1
  <2>2. DOMAIN r = 0 .. N
    BY <1>7, Zenon
  <2>3. \A k \in 0 .. N : r[k] = IF k = 0 THEN << {}, {start} >>
                                  ELSE Append(r[k-1], NextRing(r[k-1], k, b))
    BY <1>7, Zenon DEF NextRing
  <2>. QED  BY <2>1, <2>2, <2>3
<1>. QED  BY <1>8, <1>9, Zenon DEF N

(* The rings after k steps: together they are the cells W that k steps     *)
(* reach, and only from the last one there is somewhere new to go.         *)
AreRings(s, k, W, start, b) ==
  /\ s \in Seq(SUBSET Cells) /\ Len(s) = k + 2
  /\ s[1] = {} /\ s[2] = {start}
  /\ \A i \in 2 .. k + 2 : s[i] \subseteq {start} \cup (Cells \ b)
  /\ UNION {s[i] : i \in 1 .. k + 2} = W
  /\ \A i \in 1 .. k + 1 : \A c \in s[i] : Neighbors(c, b) \subseteq W

LEMMA NextRingKeeps ==
  ASSUME NEW k \in Nat, NEW s, NEW W, NEW start \in Cells, NEW b,
         AreRings(s, k, W, start, b)
  PROVE  AreRings(Append(s, NextRing(s, k + 1, b)), k + 1, Wider(W, b), start, b)
<1> DEFINE x == NextRing(s, k + 1, b)
           t == Append(s, x)
           U == UNION {Neighbors(c, b) : c \in s[(k+1)+1]}
<1>1. /\ s \in Seq(SUBSET Cells) /\ Len(s) = k + 2
      /\ s[1] = {} /\ s[2] = {start}
      /\ \A i \in 2 .. k + 2 : s[i] \subseteq {start} \cup (Cells \ b)
      /\ W = UNION {s[i] : i \in 1 .. k + 2}
      /\ \A i \in 1 .. k + 1 : \A c \in s[i] : Neighbors(c, b) \subseteq W
  BY DEF AreRings
<1>2. x = U \ (s[k+1] \cup s[(k+1)+1])
  BY Zenon DEF NextRing
<1>3. x \subseteq Cells \ b
  BY <1>2 DEF Neighbors
<1> HIDE DEF x
<1>4. t \in Seq(SUBSET Cells) /\ Len(t) = (k + 1) + 2
  BY <1>1, <1>3
<1>5. (\A i \in 1 .. k + 2 : t[i] = s[i]) /\ t[k+3] = x
  BY <1>1
<1> HIDE DEF t
<1>6. \A i \in 1 .. (k + 1) + 2 : i \in 1 .. k + 2 \/ i = k + 3
  OBVIOUS
<1>7. 1 \in 1 .. k + 2 /\ 2 \in 1 .. k + 2 /\ k + 1 \in 1 .. k + 2 /\ k + 2 \in 1 .. k + 2
      /\ k + 3 \in 1 .. (k + 1) + 2
      /\ \A i \in 1 .. k + 2 : i \in 1 .. (k + 1) + 2 /\ (i = k + 2 \/ i \in 1 .. k + 1)
  OBVIOUS
<1>8. \A i \in 2 .. (k + 1) + 2 : t[i] \subseteq {start} \cup (Cells \ b)
  <2>1. \A i \in 2 .. (k + 1) + 2 : i = k + 3 \/ (i \in 2 .. k + 2 /\ i \in 1 .. k + 2)
    OBVIOUS
  <2>. QED  BY <1>1, <1>3, <1>5, <2>1
<1>9. \A i \in 1 .. k + 2 : \A c \in t[i] : Neighbors(c, b) \subseteq W \cup x
  <2>1. ASSUME NEW c \in s[k+2] PROVE Neighbors(c, b) \subseteq W \cup x
    <3>1. s[k+1] \cup s[k+2] \subseteq W
      BY <1>1, <1>7
    <3>2. ASSUME NEW d \in Neighbors(c, b) PROVE d \in W \cup x
      <4>1. d \in U
        BY <2>1, <3>2
      <4> HIDE DEF U
      <4>. QED  BY <1>2, <3>1, <4>1
    <3>. QED  BY <3>2
  <2>. QED  BY <1>1, <1>5, <1>7, <2>1
<1>10. UNION {t[i] : i \in 1 .. (k + 1) + 2} = W \cup x
  <2>1. \A c : (\E i \in 1 .. (k + 1) + 2 : c \in t[i])
                 <=> (\E i \in 1 .. k + 2 : c \in s[i]) \/ c \in x
    BY <1>5, <1>6, <1>7
  <2>2. \A c : c \in W <=> \E i \in 1 .. k + 2 : c \in s[i]
    BY <1>1
  <2>. QED  BY <2>1, <2>2
<1>11. Wider(W, b) = W \cup x
  <2>1. x \subseteq UNION {Neighbors(c, b) : c \in W}
    BY <1>1, <1>2, <1>7
  <2>2. \A c \in W : Neighbors(c, b) \subseteq W \cup x
    BY <1>1, <1>5, <1>7, <1>9
  <2>. QED  BY <2>1, <2>2 DEF Wider
<1>12. t[1] = {} /\ t[2] = {start}
  BY <1>1, <1>5, <1>7
<1>13. \A i \in 1 .. (k + 1) + 1 : i \in 1 .. k + 2
  OBVIOUS
<1>14. AreRings(t, k + 1, Wider(W, b), start, b)
  BY <1>4, <1>8, <1>9, <1>10, <1>11, <1>12, <1>13 DEF AreRings
<1>. QED  BY <1>14 DEF t, x

(* What Rings computes: the first ring is the start, no ring after it has  *)
(* a cell that may not be driven over, and together they are the cells     *)
(* that can be reached.                                                    *)
LEMMA RingsHold ==
  ASSUME NEW start \in Cells, NEW b
  PROVE  /\ Rings(start, b) \in Seq(SUBSET Cells)
         /\ DOMAIN Rings(start, b) = 1 .. Width * Height + 1
         /\ Rings(start, b)[1] = {start}
         /\ \A i \in DOMAIN Rings(start, b) :
              Rings(start, b)[i] \subseteq {start} \cup (Cells \ b)
         /\ UNION {Rings(start, b)[i] : i \in DOMAIN Rings(start, b)}
              = WithinSteps(start, b)[Width * Height]
<1> DEFINE N == Width * Height
           w == WithinSteps(start, b)
<1>1. N \in Nat
  BY DimensionAssumption
<1>2. PICK r : /\ DOMAIN r = 0 .. N
               /\ r[0] = << {}, {start} >>
               /\ \A k \in 1 .. N : r[k] = Append(r[k-1], NextRing(r[k-1], k, b))
               /\ Rings(start, b) = Tail(r[N])
  BY RingsDef
<1>3. /\ w[0] = {start}
      /\ \A k \in 1 .. N : w[k] = Wider(w[k-1], b)
  BY WithinStepsDef
<1> HIDE DEF N, w
<1> DEFINE S == {k \in 0 .. N : AreRings(r[k], k, w[k], start, b)}
<1>4. 0 \in S
  <2> DEFINE s == << {}, {start} >>
  <2>1. s \in Seq(SUBSET Cells) /\ Len(s) = 0 + 2 /\ s[1] = {} /\ s[2] = {start}
    OBVIOUS
  <2>2. 1 .. 0 + 2 = {1, 2} /\ 2 .. 0 + 2 = {2} /\ 1 .. 0 + 1 = {1} /\ 0 \in 0 .. N
    BY <1>1
  <2> HIDE DEF s
  <2>3. UNION {s[i] : i \in {1, 2}} = {start}
    BY <2>1
  <2>4. AreRings(s, 0, {start}, start, b)
    BY <2>1, <2>2, <2>3 DEF AreRings
  <2>. QED  BY <1>2, <1>3, <2>2, <2>4 DEF s
<1>5. ASSUME NEW k \in 0 .. N - 1, k \in S PROVE k + 1 \in S
  <2>1. k \in Nat /\ k + 1 \in 1 .. N /\ k + 1 \in 0 .. N /\ (k + 1) - 1 = k
    BY <1>1
  <2>2. r[k+1] = Append(r[k], NextRing(r[k], k + 1, b)) /\ w[k+1] = Wider(w[k], b)
    BY <1>2, <1>3, <2>1
  <2>3. AreRings(r[k], k, w[k], start, b)
    BY <1>5
  <2>4. AreRings(r[k+1], k + 1, w[k+1], start, b)
    BY <2>1, <2>2, <2>3, NextRingKeeps
  <2>. QED  BY <2>1, <2>4
<1> HIDE DEF S
<1>6. 0 .. N \subseteq S
  BY <1>1, <1>4, <1>5, IntervalInduction
<1>7. AreRings(r[N], N, w[N], start, b)
  BY <1>1, <1>6 DEF S
<1> DEFINE s == r[N]
           t == Tail(s)
<1>8. /\ s \in Seq(SUBSET Cells) /\ Len(s) = N + 2
      /\ s[1] = {} /\ s[2] = {start}
      /\ \A i \in 2 .. N + 2 : s[i] \subseteq {start} \cup (Cells \ b)
      /\ UNION {s[i] : i \in 1 .. N + 2} = w[N]
  BY <1>7 DEF AreRings
<1> HIDE DEF s
<1>9. t \in Seq(SUBSET Cells) /\ DOMAIN t = 1 .. N + 1 /\ \A i \in 1 .. N + 1 : t[i] = s[i+1]
  BY <1>1, <1>8
<1> HIDE DEF t
<1>10. \A i \in 1 .. N + 1 : i + 1 \in 2 .. N + 2 /\ i + 1 \in 1 .. N + 2
  BY <1>1
<1>11. \A i \in 1 .. N + 2 : i = 1 \/ (i - 1 \in 1 .. N + 1 /\ (i - 1) + 1 = i)
  BY <1>1
<1>12. UNION {t[i] : i \in DOMAIN t} = w[N]
  <2>1. \A c : (\E i \in 1 .. N + 1 : c \in t[i]) <=> (\E i \in 1 .. N + 2 : c \in s[i])
    <3>1. ASSUME NEW c, NEW i \in 1 .. N + 1, c \in t[i]
          PROVE  \E j \in 1 .. N + 2 : c \in s[j]
      <4>1. i + 1 \in 1 .. N + 2 /\ c \in s[i + 1]
        BY <1>9, <1>10, <3>1
      <4>. QED  BY <4>1
    <3>2. ASSUME NEW c, NEW i \in 1 .. N + 2, c \in s[i]
          PROVE  \E j \in 1 .. N + 1 : c \in t[j]
      <4>1. i # 1
        BY <1>8, <3>2
      <4>2. i - 1 \in 1 .. N + 1 /\ t[i - 1] = s[(i - 1) + 1] /\ (i - 1) + 1 = i
        BY <1>9, <1>11, <4>1
      <4>. QED  BY <3>2, <4>2
    <3>. QED  BY <3>1, <3>2
  <2>2. \A c : c \in w[N] <=> \E i \in 1 .. N + 2 : c \in s[i]
    BY <1>8
  <2>3. \A c : c \in w[N] <=> c \in UNION {t[i] : i \in DOMAIN t}
    <3>1. \A c : c \in UNION {t[i] : i \in DOMAIN t} <=> \E i \in DOMAIN t : c \in t[i]
      OBVIOUS
    <3>2. \A c : c \in w[N] <=> \E i \in DOMAIN t : c \in t[i]
      BY <1>9, <2>1, <2>2
    <3>. QED  BY <3>1, <3>2, Zenon
  <2>. QED  BY <2>3
<1>13. 1 \in 1 .. N + 1 /\ 1 + 1 = 2
  BY <1>1
<1>14. t[1] = {start}
  BY <1>8, <1>9, <1>13
<1>15. \A i \in DOMAIN t : t[i] \subseteq {start} \cup (Cells \ b)
  BY <1>8, <1>9, <1>10
<1>16. Rings(start, b) = t
  BY <1>2 DEF s, t
<1>. QED  BY <1>9, <1>12, <1>14, <1>15, <1>16 DEF N, w

(* The number of moves to a cell: known for the cells that can be reached, *)
(* and nought for the start alone.                                         *)
LEMMA StepsHold ==
  ASSUME NEW start \in Cells, NEW b
  PROVE  /\ DOMAIN StepsFrom(start, b) = WithinSteps(start, b)[Width * Height]
         /\ \A c \in DOMAIN StepsFrom(start, b) :
              /\ StepsFrom(start, b)[c] \in Nat
              /\ c \in {start} \cup (Cells \ b)
              /\ StepsFrom(start, b)[c] = 0 => c = start
<1> DEFINE r == Rings(start, b)
           N == Width * Height
           D == UNION {r[i] : i \in DOMAIN r}
           f == [c \in D |-> (CHOOSE i \in DOMAIN r : c \in r[i]) - 1]
<1>1. StepsFrom(start, b) = f
  BY Zenon DEF StepsFrom
<1>2. N \in Nat
  BY DimensionAssumption
<1>3. /\ DOMAIN r = 1 .. N + 1 /\ r[1] = {start}
      /\ \A i \in DOMAIN r : r[i] \subseteq {start} \cup (Cells \ b)
      /\ D = WithinSteps(start, b)[N]
  BY RingsHold
<1> HIDE DEF r, N
<1>4. ASSUME NEW c \in D
      PROVE  f[c] \in Nat /\ c \in {start} \cup (Cells \ b) /\ (f[c] = 0 => c = start)
  <2> DEFINE i == CHOOSE i \in DOMAIN r : c \in r[i]
  <2>1. \E j \in DOMAIN r : c \in r[j]
    BY <1>4
  <2>2. i \in DOMAIN r /\ c \in r[i]
    BY <2>1
  <2>3. f[c] = i - 1
    BY <1>4, Zenon
  <2> HIDE DEF i, f, D
  <2>. QED  BY <1>2, <1>3, <2>2, <2>3
<1>. QED  BY <1>1, <1>3, <1>4 DEF N

LEMMA CellsAreFinite ==
  /\ IsFiniteSet(Cells)
  /\ Cardinality(Cells) = Width * Height
<1>1. /\ IsFiniteSet(0 .. Height - 1) /\ Cardinality(0 .. Height - 1) = Height
      /\ IsFiniteSet(0 .. Width - 1) /\ Cardinality(0 .. Width - 1) = Width
  <2>1. 0 \in Int /\ Height - 1 \in Int /\ Width - 1 \in Int
    BY DimensionAssumption
  <2>2. /\ IsFiniteSet(0 .. Height - 1)
        /\ Cardinality(0 .. Height - 1) = IF 0 > Height - 1 THEN 0 ELSE (Height - 1) - 0 + 1
        /\ IsFiniteSet(0 .. Width - 1)
        /\ Cardinality(0 .. Width - 1) = IF 0 > Width - 1 THEN 0 ELSE (Width - 1) - 0 + 1
    BY <2>1, FS_Interval
  <2>. QED  BY <2>2, DimensionAssumption
<1>2. /\ IsFiniteSet((0 .. Height - 1) \X (0 .. Width - 1))
      /\ Cardinality((0 .. Height - 1) \X (0 .. Width - 1))
           = Cardinality(0 .. Height - 1) * Cardinality(0 .. Width - 1)
  BY <1>1, FS_Product
<1>3. Height * Width = Width * Height
  BY DimensionAssumption
<1>. QED  BY <1>1, <1>2, <1>3 DEF Cells

(* As long as every step finds new cells there are more cells than steps,  *)
(* so after Width * Height steps one of them found nothing new, and from   *)
(* then on nothing new is found: what was reached by then is closed.       *)
LEMMA ReachIsClosed ==
  ASSUME NEW start \in Cells, NEW b
  PROVE  /\ WithinSteps(start, b)[Width * Height] \in SUBSET Cells
         /\ start \in WithinSteps(start, b)[Width * Height]
         /\ Wider(WithinSteps(start, b)[Width * Height], b)
              = WithinSteps(start, b)[Width * Height]
<1> DEFINE N == Width * Height
           r == WithinSteps(start, b)
<1>1. N \in Nat
  BY DimensionAssumption
<1>2. /\ r \in [0 .. N -> SUBSET Cells] /\ r[0] = {start}
      /\ \A n \in 1 .. N : r[n] = Wider(r[n-1], b)
  BY WithinStepsDef
<1>3. IsFiniteSet(Cells) /\ Cardinality(Cells) = N
  BY CellsAreFinite
<1> HIDE DEF N, r
<1>4. \A n \in 0 .. N - 1 : r[n+1] = Wider(r[n], b) /\ r[n] \subseteq r[n+1]
  <2>1. ASSUME NEW n \in 0 .. N - 1
        PROVE  r[n+1] = Wider(r[n], b) /\ r[n] \subseteq r[n+1]
    <3>1. n + 1 \in 1 .. N /\ (n + 1) - 1 = n
      BY <1>1
    <3>2. r[n+1] = Wider(r[n], b)
      BY <1>2, <3>1
    <3>. QED  BY <3>2 DEF Wider
  <2>. QED  BY <2>1
<1>5. \E n \in 0 .. N : Wider(r[n], b) = r[n]
  <2> SUFFICES ASSUME \A n \in 0 .. N : Wider(r[n], b) # r[n]
               PROVE  FALSE
    OBVIOUS
  <2> DEFINE S == {n \in 0 .. N : IsFiniteSet(r[n]) /\ Cardinality(r[n]) >= n + 1}
  <2>1. 0 \in S
    <3>1. IsFiniteSet({start}) /\ Cardinality({start}) = 1
      BY FS_Singleton
    <3>2. r[0] = {start}
      BY <1>2
    <3>3. IsFiniteSet(r[0]) /\ Cardinality(r[0]) = 1
      BY <3>1, <3>2, Zenon
    <3>4. 0 \in 0 .. N /\ Cardinality(r[0]) >= 0 + 1
      BY <1>1, <3>3
    <3>. QED  BY <3>3, <3>4
  <2>2. ASSUME NEW n \in 0 .. N - 1, n \in S PROVE n + 1 \in S
    <3>1. n \in 0 .. N /\ n + 1 \in 0 .. N /\ n \in Nat
      BY <1>1
    <3>2. r[n+1] \in SUBSET Cells /\ r[n] \subseteq r[n+1] /\ r[n] # r[n+1]
      BY <1>2, <1>4, <3>1
    <3>3. IsFiniteSet(r[n+1]) /\ IsFiniteSet(r[n])
      BY <1>3, <3>2, FS_Subset
    <3>4. /\ Cardinality(r[n]) <= Cardinality(r[n+1])
          /\ Cardinality(r[n+1]) # Cardinality(r[n])
      BY <3>2, <3>3, FS_Subset
    <3>5. Cardinality(r[n]) \in Nat /\ Cardinality(r[n+1]) \in Nat
      BY <3>3, FS_CardinalityType
    <3>6. Cardinality(r[n]) >= n + 1
      BY <2>2
    <3>7. Cardinality(r[n+1]) >= (n + 1) + 1
      BY <3>1, <3>4, <3>5, <3>6
    <3>. QED  BY <3>1, <3>3, <3>7
  <2> HIDE DEF S
  <2>3. N \in S
    <3>1. 0 .. N \subseteq S
      BY <1>1, <2>1, <2>2, IntervalInduction
    <3>. QED  BY <1>1, <3>1
  <2>4. Cardinality(r[N]) >= N + 1
    BY <2>3 DEF S
  <2>5. r[N] \in SUBSET Cells
    BY <1>1, <1>2
  <2>6. Cardinality(r[N]) <= N /\ Cardinality(r[N]) \in Nat
    BY <1>3, <2>5, FS_Subset, FS_CardinalityType
  <2>. QED  BY <1>1, <2>4, <2>6
<1>6. PICK n \in 0 .. N : Wider(r[n], b) = r[n]
  BY <1>5
<1>7. N \in {m \in n .. N : r[m] = r[n]}
  <2> DEFINE S == {m \in n .. N : r[m] = r[n]}
  <2>1. n \in Nat /\ n \in S
    BY <1>1, <1>6
  <2>2. ASSUME NEW m \in n .. N - 1, m \in S PROVE m + 1 \in S
    <3>1. m \in 0 .. N - 1 /\ m + 1 \in n .. N
      BY <1>1, <1>6
    <3>2. r[m+1] = Wider(r[m], b) /\ r[m] = r[n]
      BY <1>4, <2>2, <3>1
    <3>. QED  BY <1>6, <3>1, <3>2
  <2> HIDE DEF S
  <2>3. n .. N \subseteq S
    BY <1>1, <2>1, <2>2, IntervalInduction
  <2>4. N \in n .. N
    BY <1>1, <1>6
  <2>. QED  BY <2>3, <2>4 DEF S
<1>8. Wider(r[N], b) = r[N]
  BY <1>6, <1>7
<1>9. start \in r[N]
  <2> DEFINE S == {m \in 0 .. N : start \in r[m]}
  <2>1. 0 \in S
    BY <1>1, <1>2
  <2>2. ASSUME NEW m \in 0 .. N - 1, m \in S PROVE m + 1 \in S
    BY <1>1, <1>4, <2>2
  <2> HIDE DEF S
  <2>3. 0 .. N \subseteq S
    BY <1>1, <2>1, <2>2, IntervalInduction
  <2>4. N \in 0 .. N
    BY <1>1
  <2>. QED  BY <2>3, <2>4 DEF S
<1>. QED  BY <1>1, <1>2, <1>8, <1>9 DEF N, r

(* The rings do not meet, every cell but the start is next to one of the   *)
(* ring before, and a cell has its neighbours in its own ring and the two  *)
(* beside it.  s is as in AreRings.                                        *)
AreApart(s, k, b) ==
  /\ s \in Seq(SUBSET Cells) /\ Len(s) = k + 2 /\ s[1] = {}
  /\ \A i \in 2 .. k + 2 : s[i] \subseteq Cells \ b
  /\ \A i \in 2 .. k + 2 : \A j \in i + 1 .. k + 2 : s[i] \cap s[j] = {}
  /\ \A i \in 2 .. k + 1 : \A c \in s[i] :
       Neighbors(c, b) \subseteq s[i-1] \cup s[i] \cup s[i+1]
  /\ \A i \in 3 .. k + 2 : \A c \in s[i] : \E p \in s[i-1] : c \in Neighbors(p, b)

LEMMA NeighboursAreMutual ==
  ASSUME NEW b, NEW c \in Cells \ b, NEW d \in Neighbors(c, b)
  PROVE  c \in Neighbors(d, b)
BY DimensionAssumption DEF Neighbors, AdjacentTo, ManhattanDistance, Distance, Cells

LEMMA NextRingIsApart ==
  ASSUME NEW k \in Nat, NEW s, NEW b, AreApart(s, k, b)
  PROVE  AreApart(Append(s, NextRing(s, k + 1, b)), k + 1, b)
<1> DEFINE x == NextRing(s, k + 1, b)
           t == Append(s, x)
<1>1. /\ s \in Seq(SUBSET Cells) /\ Len(s) = k + 2 /\ s[1] = {}
      /\ \A i \in 2 .. k + 2 : s[i] \subseteq Cells \ b
      /\ \A i \in 2 .. k + 2 : \A j \in i + 1 .. k + 2 : s[i] \cap s[j] = {}
      /\ \A i \in 2 .. k + 1 : \A c \in s[i] :
           Neighbors(c, b) \subseteq s[i-1] \cup s[i] \cup s[i+1]
      /\ \A i \in 3 .. k + 2 : \A c \in s[i] : \E p \in s[i-1] : c \in Neighbors(p, b)
  BY DEF AreApart
<1>2. /\ \A c \in x : \E p \in s[k+2] : c \in Neighbors(p, b)
      /\ \A p \in s[k+2] : Neighbors(p, b) \subseteq s[k+1] \cup s[k+2] \cup x
      /\ x \cap s[k+1] = {} /\ x \cap s[k+2] = {}
  <2>1. (k + 1) + 1 = k + 2
    OBVIOUS
  <2>2. x = (UNION {Neighbors(c, b) : c \in s[k+2]}) \ (s[k+1] \cup s[k+2])
    BY Zenon, <2>1 DEF NextRing
  <2> HIDE DEF x
  <2>. QED  BY <2>2
<1>3. x \subseteq Cells \ b
  <2> HIDE DEF x
  <2>. QED  BY <1>2 DEF Neighbors
<1> HIDE DEF x
<1>4. t \in Seq(SUBSET Cells) /\ Len(t) = (k + 1) + 2
  BY <1>1, <1>3
<1>5. (\A i \in 1 .. k + 2 : t[i] = s[i]) /\ t[k+3] = x
  BY <1>1
<1> HIDE DEF t
<1>6. t[1] = {}
  BY <1>1, <1>5
<1>7. \A i \in 2 .. (k + 1) + 2 : t[i] \subseteq Cells \ b
  <2>1. \A i \in 2 .. (k + 1) + 2 : i = k + 3 \/ (i \in 2 .. k + 2 /\ i \in 1 .. k + 2)
    OBVIOUS
  <2>. QED  BY <1>1, <1>3, <1>5, <2>1
<1>8. ASSUME NEW i \in 2 .. k + 2 PROVE s[i] \cap x = {}
  <2>1. CASE i \in {k + 1, k + 2}
    BY <1>2, <2>1
  <2>2. CASE i \in 2 .. k
    <3> SUFFICES ASSUME NEW c \in s[i], c \in x PROVE FALSE
      OBVIOUS
    <3>1. PICK p \in s[k+2] : c \in Neighbors(p, b)
      BY <1>2
    <3>2. k + 2 \in 2 .. k + 2 /\ i \in 2 .. k + 1 /\ k + 2 \in i + 1 .. k + 2
          /\ i + 1 \in 2 .. k + 2 /\ k + 2 \in (i + 1) + 1 .. k + 2
      BY <2>2
    <3>3. p \in Neighbors(c, b)
      <4>1. p \in Cells \ b
        BY <1>1, <3>2
      <4>. QED  BY <3>1, <4>1, NeighboursAreMutual
    <3>4. p \in s[i-1] \cup s[i] \cup s[i+1]
      BY <1>1, <3>2, <3>3
    <3>5. p \notin s[i] /\ p \notin s[i+1]
      BY <1>1, <3>2
    <3>6. p \notin s[i-1]
      <4>1. CASE i = 2
        BY <1>1, <4>1
      <4>2. CASE i # 2
        <5>1. i - 1 \in 2 .. k + 2 /\ k + 2 \in (i - 1) + 1 .. k + 2
          BY <2>2, <4>2
        <5>. QED  BY <1>1, <5>1
      <4>. QED  BY <4>1, <4>2
    <3>. QED  BY <3>4, <3>5, <3>6
  <2>. QED  BY <2>1, <2>2
<1>9. ASSUME NEW i \in 2 .. (k + 1) + 2, NEW j \in i + 1 .. (k + 1) + 2
      PROVE  t[i] \cap t[j] = {}
  <2>1. i \in 2 .. k + 2 /\ i \in 1 .. k + 2
    OBVIOUS
  <2>2. CASE j = k + 3
    BY <1>5, <1>8, <2>1, <2>2
  <2>3. CASE j # k + 3
    <3>1. j \in i + 1 .. k + 2 /\ j \in 1 .. k + 2
      BY <2>3
    <3>. QED  BY <1>1, <1>5, <2>1, <3>1
  <2>. QED  BY <2>2, <2>3
<1>10. ASSUME NEW i \in 2 .. (k + 1) + 1, NEW c \in t[i]
       PROVE  Neighbors(c, b) \subseteq t[i-1] \cup t[i] \cup t[i+1]
  <2>1. i \in 1 .. k + 2 /\ i - 1 \in 1 .. k + 2 /\ c \in s[i]
    BY <1>5, <1>10
  <2>2. CASE i = k + 2
    <3>1. i + 1 = k + 3 /\ i - 1 = k + 1
      BY <2>2
    <3>2. t[i-1] = s[k+1] /\ t[i] = s[k+2] /\ t[i+1] = x
      BY <1>5, <2>1, <2>2, <3>1
    <3>. QED  BY <1>2, <2>1, <2>2, <3>2
  <2>3. CASE i # k + 2
    <3>1. i \in 2 .. k + 1 /\ i + 1 \in 1 .. k + 2
      BY <2>3
    <3>2. t[i-1] = s[i-1] /\ t[i] = s[i] /\ t[i+1] = s[i+1]
      BY <1>5, <2>1, <3>1
    <3>. QED  BY <1>1, <2>1, <3>1, <3>2
  <2>. QED  BY <2>2, <2>3
<1>11. ASSUME NEW i \in 3 .. (k + 1) + 2, NEW c \in t[i]
       PROVE  \E p \in t[i-1] : c \in Neighbors(p, b)
  <2>1. i - 1 \in 1 .. k + 2 /\ t[i-1] = s[i-1]
    BY <1>5
  <2>2. CASE i = k + 3
    <3>1. i - 1 = k + 2 /\ c \in x
      BY <1>5, <1>11, <2>2
    <3>. QED  BY <1>2, <2>1, <3>1
  <2>3. CASE i # k + 3
    <3>1. i \in 3 .. k + 2 /\ i \in 1 .. k + 2
      BY <2>3
    <3>2. c \in s[i]
      BY <1>5, <1>11, <3>1
    <3>. QED  BY <1>1, <2>1, <3>1, <3>2
  <2>. QED  BY <2>2, <2>3
<1>12. AreApart(t, k + 1, b)
  BY <1>4, <1>6, <1>7, <1>9, <1>10, <1>11 DEF AreApart
<1>. QED  BY <1>12 DEF t, x

LEMMA RingsAreApart ==
  ASSUME NEW b, NEW start \in Cells \ b
  PROVE  \E s : /\ AreApart(s, Width * Height, b) /\ s[2] = {start}
                /\ Rings(start, b) = Tail(s)
<1> DEFINE N == Width * Height
<1>1. N \in Nat
  BY DimensionAssumption
<1>2. PICK r : /\ DOMAIN r = 0 .. N
               /\ r[0] = << {}, {start} >>
               /\ \A k \in 1 .. N : r[k] = Append(r[k-1], NextRing(r[k-1], k, b))
               /\ Rings(start, b) = Tail(r[N])
  BY RingsDef
<1> HIDE DEF N
<1> DEFINE S == {k \in 0 .. N : AreApart(r[k], k, b) /\ r[k][2] = {start}}
<1>3. 0 \in S
  <2> DEFINE s == << {}, {start} >>
  <2>1. s \in Seq(SUBSET Cells) /\ Len(s) = 0 + 2 /\ s[1] = {} /\ s[2] = {start}
    OBVIOUS
  <2>2. /\ 2 .. 0 + 2 = {2} /\ 2 .. 0 + 1 = {} /\ 3 .. 0 + 2 = {} /\ 2 + 1 .. 0 + 2 = {}
        /\ 0 \in 0 .. N
    BY <1>1
  <2> HIDE DEF s
  <2>3. AreApart(s, 0, b)
    BY <2>1, <2>2 DEF AreApart
  <2>. QED  BY <1>2, <2>1, <2>2, <2>3 DEF s
<1>4. ASSUME NEW k \in 0 .. N - 1, k \in S PROVE k + 1 \in S
  <2>1. k \in Nat /\ k + 1 \in 1 .. N /\ k + 1 \in 0 .. N /\ (k + 1) - 1 = k
    BY <1>1
  <2>2. r[k+1] = Append(r[k], NextRing(r[k], k + 1, b))
    BY <1>2, <2>1
  <2>3. AreApart(r[k], k, b) /\ r[k][2] = {start}
    BY <1>4
  <2>4. AreApart(r[k+1], k + 1, b)
    BY <2>1, <2>2, <2>3, NextRingIsApart
  <2>5. r[k+1][2] = {start}
    <3>1. r[k] \in Seq(SUBSET Cells) /\ Len(r[k]) = k + 2
      BY <2>3 DEF AreApart
    <3>2. 2 \in 1 .. k + 2
      BY <2>1
    <3>. QED  BY <2>2, <2>3, <3>1, <3>2
  <2>. QED  BY <2>1, <2>4, <2>5
<1> HIDE DEF S
<1>5. 0 .. N \subseteq S
  BY <1>1, <1>3, <1>4, IntervalInduction
<1>6. AreApart(r[N], N, b) /\ r[N][2] = {start}
  BY <1>1, <1>5 DEF S
<1>. QED  BY <1>2, <1>6 DEF N

(* The numbers of moves are distances: nought for the start, one more than *)
(* for some neighbour elsewhere, never more than one more than for any.    *)
LEMMA StepsAreExact ==
  ASSUME NEW b, NEW start \in Cells \ b
  PROVE  LET d == StepsFrom(start, b) IN
         /\ start \in DOMAIN d /\ d[start] = 0
         /\ \A c \in DOMAIN d : c \in Cells \ b /\ d[c] \in Nat
         /\ \A c \in DOMAIN d : \A n \in Neighbors(c, b) :
              n \in DOMAIN d /\ d[n] <= d[c] + 1
         /\ \A c \in DOMAIN d \ {start} :
              \E p \in DOMAIN d : c \in Neighbors(p, b) /\ d[c] = d[p] + 1
<1> DEFINE d == StepsFrom(start, b)
           N == Width * Height
           r == Rings(start, b)
           D == UNION {r[i] : i \in DOMAIN r}
           f == [c \in D |-> (CHOOSE i \in DOMAIN r : c \in r[i]) - 1]
<1>1. N \in Nat
  BY DimensionAssumption
<1>2. PICK s : AreApart(s, N, b) /\ s[2] = {start} /\ r = Tail(s)
  BY RingsAreApart
<1>3. d = f
  BY Zenon DEF StepsFrom
<1>4. /\ DOMAIN d = WithinSteps(start, b)[N]
      /\ \A c \in DOMAIN d : c \in Cells \ b /\ d[c] \in Nat
  <2>1. start \in Cells
    OBVIOUS
  <2>. QED  BY <2>1, StepsHold, ReachIsClosed
<1>5. \A c \in DOMAIN d : \A n \in Neighbors(c, b) : n \in DOMAIN d
  <2>1. start \in Cells
    OBVIOUS
  <2>2. Wider(DOMAIN d, b) = DOMAIN d
    <3> HIDE DEF d
    <3>. QED  BY <1>4, <2>1, ReachIsClosed DEF N
  <2> HIDE DEF d
  <2>. QED  BY <2>2 DEF Wider
<1>6. /\ s \in Seq(SUBSET Cells) /\ Len(s) = N + 2
      /\ \A i \in 2 .. N + 2 : \A j \in i + 1 .. N + 2 : s[i] \cap s[j] = {}
      /\ \A i \in 2 .. N + 1 : \A c \in s[i] :
           Neighbors(c, b) \subseteq s[i-1] \cup s[i] \cup s[i+1]
      /\ \A i \in 3 .. N + 2 : \A c \in s[i] : \E p \in s[i-1] : c \in Neighbors(p, b)
      /\ s[1] = {}
  BY <1>2 DEF AreApart
<1> HIDE DEF N, r, d
<1>7. DOMAIN r = 1 .. N + 1 /\ \A i \in 1 .. N + 1 : r[i] = s[i+1]
  BY <1>1, <1>2, <1>6
<1>8. ASSUME NEW i \in 2 .. N + 2, NEW c \in s[i] PROVE c \in DOMAIN d /\ d[c] = i - 2
  <2>1. i - 1 \in 1 .. N + 1 /\ (i - 1) + 1 = i
    BY <1>1
  <2>2. c \in r[i-1] /\ i - 1 \in DOMAIN r
    BY <1>7, <1>8, <2>1
  <2>3. c \in D
    BY <2>2
  <2> DEFINE j == CHOOSE j \in DOMAIN r : c \in r[j]
  <2>4. j \in DOMAIN r /\ c \in r[j]
    BY <2>2
  <2>5. d[c] = j - 1
    <3> HIDE DEF D
    <3>. QED  BY <1>3, <2>3, Zenon
  <2> HIDE DEF j
  <2>6. j + 1 \in 2 .. N + 2 /\ c \in s[j+1] /\ j \in Int
    BY <1>1, <1>7, <2>4
  <2>7. j + 1 = i
    <3>1. CASE j + 1 < i
      <4>1. i \in (j + 1) + 1 .. N + 2
        BY <2>6, <3>1
      <4>. QED  BY <1>6, <1>8, <2>6, <4>1
    <3>2. CASE i < j + 1
      <4>1. j + 1 \in i + 1 .. N + 2
        BY <2>6, <3>2
      <4>. QED  BY <1>6, <1>8, <2>6, <4>1
    <3>. QED  BY <2>6, <3>1, <3>2
  <2>8. DOMAIN d = D
    BY <1>3
  <2> HIDE DEF D, f
  <2>. QED  BY <2>3, <2>5, <2>6, <2>7, <2>8
<1>9. ASSUME NEW c \in DOMAIN d PROVE \E i \in 2 .. N + 2 : c \in s[i]
  <2>1. PICK j \in DOMAIN r : c \in r[j]
    BY <1>3, <1>9
  <2>2. j + 1 \in 2 .. N + 2 /\ c \in s[j+1]
    BY <1>1, <1>7, <2>1
  <2>. QED  BY <2>2
<1> HIDE DEF D, f
<1>10. start \in DOMAIN d /\ d[start] = 0
  <2>1. 2 \in 2 .. N + 2 /\ start \in s[2]
    BY <1>1, <1>2
  <2>. QED  BY <1>8, <2>1
<1>11. ASSUME NEW c \in DOMAIN d, NEW n \in Neighbors(c, b) PROVE d[n] <= d[c] + 1
  <2>1. PICK i \in 2 .. N + 2 : c \in s[i]
    BY <1>9
  <2>2. n \in DOMAIN d /\ d[c] = i - 2
    BY <1>5, <1>8, <2>1
  <2>3. PICK j \in 2 .. N + 2 : n \in s[j]
    BY <1>9, <2>2
  <2>4. d[n] = j - 2
    BY <1>8, <2>3
  <2>5. CASE i = N + 2
    BY <1>1, <2>2, <2>4, <2>5
  <2>6. CASE i # N + 2
    <3>1. i \in 2 .. N + 1
      BY <1>1, <2>6
    <3>2. n \in s[i-1] \cup s[i] \cup s[i+1]
      BY <1>6, <2>1, <3>1
    <3>3. \A k \in {i - 1, i, i + 1} : n \in s[k] => d[n] = k - 2
      <4>1. ASSUME NEW k \in {i - 1, i, i + 1}, n \in s[k] PROVE d[n] = k - 2
        <5>1. k # 1
          BY <1>6, <4>1
        <5>2. k \in 2 .. N + 2
          BY <1>1, <3>1, <5>1
        <5>. QED  BY <1>8, <4>1, <5>2
      <4>. QED  BY <4>1
    <3>4. d[n] = (i - 1) - 2 \/ d[n] = i - 2 \/ d[n] = (i + 1) - 2
      BY <3>2, <3>3
    <3>. QED  BY <2>2, <3>4
  <2>. QED  BY <2>5, <2>6
<1>12. ASSUME NEW c \in DOMAIN d, c # start
       PROVE  \E p \in DOMAIN d : c \in Neighbors(p, b) /\ d[c] = d[p] + 1
  <2>1. PICK i \in 2 .. N + 2 : c \in s[i]
    BY <1>9
  <2>2. i # 2
    BY <1>2, <1>12, <2>1
  <2>3. i \in 3 .. N + 2 /\ i - 1 \in 2 .. N + 2
    BY <1>1, <2>2
  <2>4. PICK p \in s[i-1] : c \in Neighbors(p, b)
    BY <1>6, <2>1, <2>3
  <2>5. p \in DOMAIN d /\ d[p] = (i - 1) - 2 /\ d[c] = i - 2
    BY <1>8, <2>1, <2>3, <2>4
  <2>. QED  BY <2>4, <2>5
<1>13. /\ start \in DOMAIN d /\ d[start] = 0
       /\ \A c \in DOMAIN d : c \in Cells \ b /\ d[c] \in Nat
       /\ \A c \in DOMAIN d : \A n \in Neighbors(c, b) :
            n \in DOMAIN d /\ d[n] <= d[c] + 1
       /\ \A c \in DOMAIN d \ {start} :
            \E p \in DOMAIN d : c \in Neighbors(p, b) /\ d[c] = d[p] + 1
  BY <1>4, <1>5, <1>10, <1>11, <1>12
<1>. QED  BY <1>13 DEF d
=============================================================================
