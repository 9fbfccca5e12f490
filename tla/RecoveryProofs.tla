--------------------------- MODULE RecoveryProofs ---------------------------
(***************************************************************************)
(* For any fleet, floor, horizon, plans and schedule of events.            *)
(*                                                                         *)
(* Four invariants, each on top of the first: routes begin with what was   *)
(* driven of them (CourseInv); robots and tasks agree on assignments       *)
(* (TaskInv); the routes that stay are free of conflicts, the table of a   *)
(* replan holds them, and what a replan returns respects the table         *)
(* (SafeInv); and as long as nothing happens the plan is driven            *)
(* (VerdictInv).                                                           *)
(***************************************************************************)
EXTENDS RecoveryProperties, GridProofs

USE RecoveryAssumption, DimensionAssumption, HorizonAssumption

-----------------------------------------------------------------------------
(* Timed paths.                                                            *)

LEMMA PathNumbers ==
  ASSUME NEW p, IsTimedPath(p)
  PROVE  /\ p.start \in Nat /\ p.arrival \in Nat /\ Horizon \in Nat
         /\ p.start <= p.arrival /\ p.arrival <= Horizon
         /\ p.start \in Times /\ p.arrival \in Times
         /\ \A t \in p.start .. p.arrival : p.at[t] \in Cells
BY DEF IsTimedPath, Times

(* Where a route has its robot: at its first cell before it starts, at its *)
(* goal from the arrival on.                                               *)
LEMMA PositionOfPath ==
  ASSUME NEW p, IsTimedPath(p), NEW t \in Nat
  PROVE  /\ PositionAt(p, t) \in Cells
         /\ t <= p.start => PositionAt(p, t) = p.at[p.start]
         /\ t \in p.start .. p.arrival => PositionAt(p, t) = p.at[t]
         /\ t >= p.arrival => PositionAt(p, t) = Goal(p)
<1>1. /\ p.start \in Nat /\ p.arrival \in Nat /\ p.start <= p.arrival
      /\ \A u \in p.start .. p.arrival : p.at[u] \in Cells
  BY PathNumbers
<1>2. p.start \in p.start .. p.arrival /\ p.arrival \in p.start .. p.arrival
  BY <1>1
<1>3. CASE t <= p.start
  BY <1>1, <1>2, <1>3 DEF PositionAt, Goal
<1>4. CASE t > p.start /\ t >= p.arrival
  BY <1>1, <1>2, <1>4 DEF PositionAt, Goal
<1>5. CASE t > p.start /\ t < p.arrival
  <2>1. t \in p.start .. p.arrival
    BY <1>1, <1>5
  <2>. QED  BY <1>1, <1>5, <2>1 DEF PositionAt
<1>. QED  BY <1>1, <1>3, <1>4, <1>5

(* Robots that pass the replay are never on one cell and never trade       *)
(* cells, also before the first start and after the last arrival.          *)
LEMMA ReplayFindsMeetings ==
  ASSUME NEW P, \A r \in DOMAIN P : IsTimedPath(P[r]), ~ VertexConflict(P),
         NEW q \in DOMAIN P, NEW r \in DOMAIN P, q # r, NEW t \in Nat
  PROVE  PositionAt(P[q], t) # PositionAt(P[r], t)
<1> DEFINE a == P[q].arrival  b == P[r].arrival  s == P[q].start  u == P[r].start
<1>1. /\ s \in Nat /\ a \in Nat /\ u \in Nat /\ b \in Nat /\ s <= a /\ u <= b
      /\ a <= Horizon /\ b <= Horizon /\ Horizon \in Nat
  BY PathNumbers
<1>2. ASSUME NEW n \in Nat, s <= n \/ u <= n, n <= a \/ n <= b
      PROVE  PositionAt(P[q], n) # PositionAt(P[r], n)
  <2>1. n \in Times
    BY <1>1, <1>2 DEF Times
  <2>2. n \in ReplayTimes(P)
    BY <1>1, <1>2, <2>1 DEF ReplayTimes, WithinMakespan
  <2>. QED  BY <2>2 DEF VertexConflict
<1>3. CASE t < s /\ t < u
  <2>1. PICK n \in {s, u} : n <= s /\ n <= u
    BY <1>1
  <2>2. /\ PositionAt(P[q], n) = PositionAt(P[q], t)
        /\ PositionAt(P[r], n) = PositionAt(P[r], t)
    BY <1>1, <1>3, <2>1, PositionOfPath
  <2>. QED  BY <1>1, <1>2, <2>1, <2>2
<1>4. CASE t > a /\ t > b
  <2>1. PICK n \in {a, b} : n >= a /\ n >= b
    BY <1>1
  <2>2. /\ PositionAt(P[q], n) = PositionAt(P[q], t)
        /\ PositionAt(P[r], n) = PositionAt(P[r], t)
    BY <1>1, <1>4, <2>1, PositionOfPath
  <2>. QED  BY <1>1, <1>2, <2>1, <2>2
<1>. QED  BY <1>1, <1>2, <1>3, <1>4

LEMMA ReplayFindsSwaps ==
  ASSUME NEW P, \A r \in DOMAIN P : IsTimedPath(P[r]), ~ VertexConflict(P),
         ~ EdgeConflict(P),
         NEW q \in DOMAIN P, NEW r \in DOMAIN P, q # r, NEW t \in Nat
  PROVE  ~ /\ PositionAt(P[q], t) = PositionAt(P[r], t + 1)
           /\ PositionAt(P[r], t) = PositionAt(P[q], t + 1)
<1> SUFFICES ASSUME PositionAt(P[q], t) = PositionAt(P[r], t + 1),
                    PositionAt(P[r], t) = PositionAt(P[q], t + 1)
             PROVE  FALSE
  OBVIOUS
<1> DEFINE a == P[q].arrival  b == P[r].arrival  s == P[q].start  u == P[r].start
<1>1. /\ s \in Nat /\ a \in Nat /\ u \in Nat /\ b \in Nat /\ s <= a /\ u <= b
      /\ a <= Horizon /\ b <= Horizon /\ Horizon \in Nat /\ t + 1 \in Nat
  BY PathNumbers
<1>2. PositionAt(P[q], t) # PositionAt(P[r], t)
  BY ReplayFindsMeetings
<1>3. PositionAt(P[q], t) # PositionAt(P[q], t + 1)
  BY <1>2
<1>4. PositionAt(P[r], t) # PositionAt(P[r], t + 1)
  BY <1>2
<1>5. ~ (t + 1 <= s) /\ ~ (t + 1 <= u) /\ ~ (t >= a) /\ ~ (t >= b)
  <2>1. t + 1 <= s => t <= s
    BY <1>1
  <2>2. t + 1 <= u => t <= u
    BY <1>1
  <2>3. t >= a => t + 1 >= a
    BY <1>1
  <2>4. t >= b => t + 1 >= b
    BY <1>1
  <2>. QED  BY <1>1, <1>3, <1>4, <2>1, <2>2, <2>3, <2>4, PositionOfPath
<1>6. t \in Times /\ t <= a /\ t + 1 <= a /\ s <= t
  BY <1>1, <1>5 DEF Times
<1>7. t \in ReplayTimes(P) /\ WithinMakespan(P, t + 1)
  BY <1>6 DEF ReplayTimes, WithinMakespan
<1>. QED  BY <1>3, <1>7 DEF EdgeConflict

(* What a route does from now on, when the past of another is put before   *)
(* it.                                                                     *)
LEMMA SpliceIsRoute ==
  ASSUME NEW h, IsTimedPath(h), NEW p, IsTimedPath(p), h.arrival = p.start,
         h.at[h.arrival] = p.at[p.start], IsWalk(h), IsWalk(p)
  PROVE  /\ IsTimedPath(Splice(h, p)) /\ IsWalk(Splice(h, p))
         /\ Splice(h, p).start = h.start /\ Splice(h, p).arrival = p.arrival
         /\ Goal(Splice(h, p)) = Goal(p)
         /\ \A t \in h.start .. h.arrival : PositionAt(Splice(h, p), t) = h.at[t]
         /\ \A t \in p.start .. p.arrival : Splice(h, p).at[t] = p.at[t]
         /\ \A t \in Nat : t >= p.start => PositionAt(Splice(h, p), t) = PositionAt(p, t)
<1> DEFINE s == Splice(h, p)
<1>1. /\ h.start \in Nat /\ h.arrival \in Nat /\ p.arrival \in Nat /\ p.start \in Nat
      /\ h.start <= h.arrival /\ p.start <= p.arrival /\ p.arrival <= Horizon
      /\ Horizon \in Nat
      /\ \A t \in h.start .. h.arrival : h.at[t] \in Cells
      /\ \A t \in p.start .. p.arrival : p.at[t] \in Cells
  BY PathNumbers
<1>2. s.start = h.start /\ s.arrival = p.arrival
  BY DEF Splice
<1>3. s.at = [t \in h.start .. p.arrival |-> IF t < p.start THEN h.at[t] ELSE p.at[t]]
  BY DEF Splice
<1> HIDE DEF s
<1>4. \A t \in h.start .. h.arrival : s.at[t] = h.at[t]
  BY <1>1, <1>3
<1>5. \A t \in p.start .. p.arrival : s.at[t] = p.at[t]
  BY <1>1, <1>3
<1>6. IsTimedPath(s)
  <2>1. ASSUME NEW t \in h.start .. p.arrival
        PROVE  (IF t < p.start THEN h.at[t] ELSE p.at[t]) \in Cells
    BY <1>1
  <2>2. s.at \in [h.start .. p.arrival -> Cells]
    BY <1>3, <2>1
  <2>3. h.start \in Times /\ p.arrival \in h.start .. Horizon
    BY <1>1 DEF Times
  <2>. QED  BY <1>2, <2>2, <2>3 DEF IsTimedPath
<1>7. IsWalk(s)
  <2>1. SUFFICES ASSUME NEW t \in h.start .. p.arrival - 1
                 PROVE  s.at[t] = s.at[t+1] \/ AdjacentTo(s.at[t], s.at[t+1])
    BY <1>2 DEF IsWalk
  <2>2. CASE t < p.start
    <3>1. /\ t \in h.start .. h.arrival - 1 /\ t \in h.start .. h.arrival
          /\ t + 1 \in h.start .. h.arrival
      BY <1>1, <2>2
    <3>. QED  BY <1>4, <3>1 DEF IsWalk
  <2>3. CASE t >= p.start
    <3>1. /\ t \in p.start .. p.arrival - 1 /\ t \in p.start .. p.arrival
          /\ t + 1 \in p.start .. p.arrival
      BY <1>1, <2>3
    <3>. QED  BY <1>5, <3>1 DEF IsWalk
  <2>. QED  BY <1>1, <2>2, <2>3
<1>8. \A t \in h.start .. h.arrival : PositionAt(s, t) = h.at[t]
  <2>1. \A t \in h.start .. h.arrival : t \in Nat /\ t \in s.start .. s.arrival
    BY <1>1, <1>2
  <2>. QED  BY <1>4, <1>6, <2>1, PositionOfPath
<1>9. Goal(s) = Goal(p)
  <2>1. p.arrival \in p.start .. p.arrival
    BY <1>1
  <2>. QED  BY <1>2, <1>5, <2>1 DEF Goal
<1>10. ASSUME NEW t \in Nat, t >= p.start PROVE PositionAt(s, t) = PositionAt(p, t)
  <2>1. CASE t >= p.arrival
    BY <1>2, <1>6, <1>9, <2>1, PositionOfPath
  <2>2. CASE t < p.arrival
    <3>1. t \in p.start .. p.arrival /\ t \in s.start .. s.arrival
      BY <1>1, <1>2, <1>10, <2>2
    <3>. QED  BY <1>5, <1>6, <3>1, PositionOfPath
  <2>. QED  BY <1>1, <2>1, <2>2
<1>. QED  BY <1>2, <1>4, <1>5, <1>6, <1>7, <1>8, <1>9, <1>10 DEF s

(* A robot that stands still.                                              *)
LEMMA StandingIsRoute ==
  ASSUME NEW c \in Cells, NEW t \in Times
  PROVE  /\ IsTimedPath(StandAt(c, t)) /\ IsWalk(StandAt(c, t))
         /\ StandAt(c, t).start = t /\ StandAt(c, t).arrival = t
         /\ StandAt(c, t).at[t] = c /\ Goal(StandAt(c, t)) = c
<1>1. t \in Nat /\ t .. t = {t} /\ t .. t - 1 = {} /\ t <= Horizon /\ Horizon \in Nat
  BY DEF Times
<1>2. [u \in {t} |-> c] \in [{t} -> Cells] /\ [u \in {t} |-> c][t] = c
  OBVIOUS
<1>. QED  BY <1>1, <1>2 DEF StandAt, IsTimedPath, IsWalk, Goal

(* One more timestep.                                                      *)
LEMMA ExtendIsRoute ==
  ASSUME NEW h, IsTimedPath(h), NEW c \in Cells, h.arrival + 1 \in Times,
         NEW x, x = Extend(h, c, h.arrival + 1)
  PROVE  /\ IsTimedPath(x)
         /\ x.start = h.start /\ x.arrival = h.arrival + 1
         /\ x.at[x.arrival] = c /\ Goal(x) = c
         /\ \A t \in h.start .. h.arrival : x.at[t] = h.at[t]
<1> DEFINE n == h.arrival + 1
<1>1. /\ h.start \in Nat /\ h.arrival \in Nat /\ h.start <= h.arrival
      /\ h.start \in Times
      /\ \A t \in h.start .. h.arrival : h.at[t] \in Cells
  BY PathNumbers
<1>2. n \in h.start .. Horizon /\ n \in h.start .. n
  BY <1>1 DEF Times
<1>3. x.start = h.start /\ x.arrival = n
  BY DEF Extend
<1>4. x.at = [u \in h.start .. n |-> IF u = n THEN c ELSE h.at[u]]
  BY DEF Extend
<1>5. \A u \in h.start .. n : u = n \/ u \in h.start .. h.arrival
  BY <1>1
<1>6. \A u \in h.start .. h.arrival : u \in h.start .. n /\ u # n
  BY <1>1
<1> HIDE DEF n
<1>7. x.at \in [h.start .. n -> Cells]
  BY <1>1, <1>4, <1>5
<1>8. x.at[n] = c /\ \A t \in h.start .. h.arrival : x.at[t] = h.at[t]
  BY <1>2, <1>4, <1>6
<1>. QED  BY <1>1, <1>2, <1>3, <1>7, <1>8 DEF IsTimedPath, Goal, n

-----------------------------------------------------------------------------
(* What a replan returns.  Its two recursive definitions have a solution,  *)
(* so they mean what they say.                                             *)

LEMMA SpreadBegins ==
  ASSUME NEW tbl, NEW r, NEW from \in Cells, NEW now \in Times, NEW obs
  PROVE  Spread(tbl, r, from, now, obs)[0] = {from}
<1> DEFINE N == Horizon - now
           Grow(n, S) == UNION {{d \in Cells : MayStep(tbl, r, c, d, now + n - 1, obs)} :
                                c \in S}
           F == [p \in (1 .. N) \X SUBSET Cells |-> Grow(p[1], p[2])]
           G(g) == [n \in 0 .. N |-> IF n = 0 THEN {from} ELSE Grow(n, g[n-1])]
<1>1. N \in Nat /\ 0 \in 0 .. N
  BY DEF Times
<1>2. Spread(tbl, r, from, now, obs) = CHOOSE g : g = G(g)
  BY Zenon DEF Spread
<1>3. \A n, S : Grow(n, S) \in SUBSET Cells
  OBVIOUS
<1> HIDE DEF N, Grow
<1>4. F \in Rules(N, SUBSET Cells)
  BY <1>3 DEF Rules
<1>5. PICK f : Follows(f, N, SUBSET Cells, {from}, F)
  <2> HIDE DEF F
  <2>. QED  BY <1>1, <1>4, LayersExist
<1>6. ASSUME NEW n \in 1 .. N PROVE f[n] = Grow(n, f[n-1])
  <2>1. n - 1 \in 0 .. N
    BY <1>1
  <2>2. F[<<n, f[n-1]>>] = Grow(n, f[n-1])
    BY <1>5, <2>1 DEF Follows
  <2> HIDE DEF F
  <2>. QED  BY <1>5, <2>2 DEF Follows
<1>7. f = G(f)
  <2> HIDE DEF F
  <2>1. \A n \in 0 .. N : n = 0 \/ n \in 1 .. N
    BY <1>1
  <2>2. \A n \in 0 .. N : f[n] = IF n = 0 THEN {from} ELSE Grow(n, f[n-1])
    BY <1>5, <1>6, <2>1 DEF Follows
  <2>. QED  BY <1>5, <2>2 DEF Follows
<1>8. Spread(tbl, r, from, now, obs) = G(Spread(tbl, r, from, now, obs))
  <2> HIDE DEF G
  <2>. QED  BY <1>2, <1>7
<1>. QED  BY <1>1, <1>8, Zenon

(* A walk of a replan up to time t.                                        *)
WalkUpTo(w, tbl, r, from, now, t, obs) ==
  /\ w \in [now .. t -> Cells]
  /\ w[now] = from
  /\ \A u \in now .. t - 1 : MayStep(tbl, r, w[u], w[u+1], u, obs)

(* One more step of a walk.                                                *)
Longer(w, d, now, t) == [u \in now .. t |-> IF u = t THEN d ELSE w[u]]

NextCells(w, tbl, r, goal, arrival, t, obs) ==
  {e \in {d \in Cells : ManhattanDistance(d, goal) <= arrival - t} :
     MayStep(tbl, r, w[t-1], e, t - 1, obs)}

LEMMA LongerWalks ==
  ASSUME NEW tbl, NEW r, NEW from \in Cells, NEW goal, NEW arrival, NEW obs,
         NEW now \in Nat, NEW t \in Nat, t > now,
         NEW w, w \in [now .. t - 1 -> Cells],
         NEW d \in NextCells(w, tbl, r, goal, arrival, t, obs)
  PROVE  /\ Longer(w, d, now, t) \in [now .. t -> Cells]
         /\ Longer(w, d, now, t)[t] = d
         /\ WalkUpTo(w, tbl, r, from, now, t - 1, obs) =>
              WalkUpTo(Longer(w, d, now, t), tbl, r, from, now, t, obs)
<1> DEFINE x == Longer(w, d, now, t)
<1>1. d \in Cells /\ MayStep(tbl, r, w[t-1], d, t - 1, obs)
  BY DEF NextCells
<1>2. \A u \in now .. t : u = t \/ u \in now .. t - 1
  OBVIOUS
<1>3. x \in [now .. t -> Cells]
  BY <1>1, <1>2 DEF Longer
<1>4. /\ t \in now .. t /\ x[t] = d
      /\ \A u \in now .. t - 1 : u \in now .. t /\ u # t /\ x[u] = w[u]
  BY DEF Longer
<1> HIDE DEF x
<1>5. ASSUME WalkUpTo(w, tbl, r, from, now, t - 1, obs)
      PROVE  WalkUpTo(x, tbl, r, from, now, t, obs)
  <2>1. now \in now .. t - 1
    OBVIOUS
  <2>2. ASSUME NEW u \in now .. t - 1 PROVE MayStep(tbl, r, x[u], x[u+1], u, obs)
    <3>1. CASE u = t - 1
      <4>1. u + 1 = t
        BY <3>1
      <4>. QED  BY <1>1, <1>4, <3>1, <4>1
    <3>2. CASE u # t - 1
      <4>1. u \in now .. (t - 1) - 1 /\ u + 1 \in now .. t - 1
        BY <3>2
      <4>. QED  BY <1>4, <1>5, <4>1 DEF WalkUpTo
    <3>. QED  BY <3>1, <3>2
  <2>. QED  BY <1>3, <1>4, <1>5, <2>1, <2>2 DEF WalkUpTo
<1>. QED  BY <1>3, <1>4, <1>5 DEF x

LEMMA WalksAreWalks ==
  ASSUME NEW tbl, NEW r, NEW from \in Cells, NEW goal \in Cells, NEW now \in Nat,
         NEW arrival \in Nat, now <= arrival, NEW obs,
         NEW w \in WalksArriving(tbl, r, from, goal, now, arrival, obs)
  PROVE  /\ WalkUpTo(w, tbl, r, from, now, arrival, obs)
         /\ arrival > now => w[arrival] = goal
<1> DEFINE Near(t) == {d \in Cells : ManhattanDistance(d, goal) <= arrival - t}
           G(g) == [t \in now .. arrival |->
                      IF t = now THEN {[u \in {now} |-> from]}
                      ELSE UNION {{[u \in now .. t |-> IF u = t THEN d ELSE v[u]] :
                                     d \in {e \in Near(t) : MayStep(tbl, r, v[t-1], e, t - 1, obs)}} :
                                  v \in g[t-1]}]
           Onward(t, W) == UNION {{Longer(v, d, now, t) :
                                  d \in NextCells(v, tbl, r, goal, arrival, t, obs)} :
                                v \in W}
           Walks(t) == [now .. t -> Cells]
           first == [u \in {now} |-> from]
           N == arrival - now
           V == SUBSET UNION {Walks(t) : t \in now .. arrival}
           F == [p \in (1 .. N) \X V |->
                   Onward(now + p[1], {v \in p[2] : v \in Walks(now + p[1] - 1)})]
<1>1. /\ N \in Nat /\ now \in now .. arrival /\ now .. now = {now} /\ arrival \in now .. arrival
      /\ now + 0 = now /\ 0 \in 0 .. N
  OBVIOUS
<1>2. WalksArriving(tbl, r, from, goal, now, arrival, obs) = (CHOOSE g : g = G(g))[arrival]
  BY Zenon DEF WalksArriving
<1>3. \A g : G(g) = [t \in now .. arrival |-> IF t = now THEN {first} ELSE Onward(t, g[t-1])]
  BY Zenon DEF Longer, NextCells
<1>4. first \in Walks(now)
  BY <1>1
<1>5. ASSUME NEW t \in Nat, t > now, NEW W, W \subseteq Walks(t-1)
      PROVE  Onward(t, W) \subseteq Walks(t)
  <2>1. SUFFICES ASSUME NEW v \in W,
                        NEW d \in NextCells(v, tbl, r, goal, arrival, t, obs)
                 PROVE  Longer(v, d, now, t) \in Walks(t)
    OBVIOUS
  <2>2. v \in [now .. t - 1 -> Cells]
    BY <1>5
  <2>. QED  BY <1>5, <2>2, LongerWalks
<1> HIDE DEF G, Onward
<1>6. F \in Rules(N, V)
  <2>1. ASSUME NEW n \in 1 .. N, NEW W \in V
        PROVE  Onward(now + n, {v \in W : v \in Walks(now + n - 1)}) \in V
    <3>1. now + n \in now .. arrival /\ now + n \in Nat /\ now + n > now
      BY <1>1
    <3>2. {v \in W : v \in Walks((now + n) - 1)} \subseteq Walks((now + n) - 1)
      OBVIOUS
    <3> HIDE DEF Walks
    <3>3. Onward(now + n, {v \in W : v \in Walks((now + n) - 1)}) \subseteq Walks(now + n)
      BY <1>5, <3>1, <3>2
    <3>. QED  BY <3>1, <3>3
  <2> HIDE DEF V, Walks
  <2>. QED  BY <2>1 DEF Rules
<1>7. {first} \in V
  BY <1>1, <1>4
<1>8. PICK f : Follows(f, N, V, {first}, F)
  <2> HIDE DEF F, V, first, N
  <2>. QED  BY <1>1, <1>6, <1>7, LayersExist
<1> HIDE DEF first
<1>9. ASSUME NEW n \in 1 .. N
      PROVE  /\ f[n] = Onward(now + n, {v \in f[n-1] : v \in Walks(now + n - 1)})
             /\ f[n] \subseteq Walks(now + n)
  <2>1. n - 1 \in 0 .. N /\ now + n \in Nat /\ now + n > now
    BY <1>1
  <2>2. f[n-1] \in V
    BY <1>8, <2>1 DEF Follows
  <2> HIDE DEF Walks
  <2>3. F[<<n, f[n-1]>>] = Onward(now + n, {v \in f[n-1] : v \in Walks(now + n - 1)})
    <3> HIDE DEF V
    <3>. QED  BY <2>2
  <2>4. {v \in f[n-1] : v \in Walks((now + n) - 1)} \subseteq Walks((now + n) - 1)
    OBVIOUS
  <2> HIDE DEF F, V
  <2>5. f[n] = F[<<n, f[n-1]>>]
    BY <1>8 DEF Follows
  <2>. QED  BY <1>5, <2>1, <2>3, <2>4, <2>5
<1>10. ASSUME NEW n \in 0 .. N PROVE f[n] \subseteq Walks(now + n)
  <2>1. CASE n = 0
    BY <1>1, <1>4, <1>8, <2>1 DEF Follows
  <2>2. CASE n # 0
    <3>1. n \in 1 .. N
      BY <1>1, <2>2
    <3>. QED  BY <1>9, <3>1
  <2>. QED  BY <2>1, <2>2
<1>11. ASSUME NEW n \in 1 .. N PROVE f[n] = Onward(now + n, f[n-1])
  <2>1. n - 1 \in 0 .. N /\ now + (n - 1) = now + n - 1
    BY <1>1
  <2>2. f[n-1] \subseteq Walks(now + n - 1)
    BY <1>10, <2>1
  <2> HIDE DEF Walks
  <2>3. {v \in f[n-1] : v \in Walks(now + n - 1)} = f[n-1]
    BY <2>2
  <2>. QED  BY <1>9, <2>3
<1> DEFINE h == [t \in now .. arrival |-> f[t-now]]
<1>12. h = G(h)
  <2>1. ASSUME NEW t \in now .. arrival
        PROVE  h[t] = IF t = now THEN {first} ELSE Onward(t, h[t-1])
    <3>1. CASE t = now
      <4>1. h[t] = f[0]
        BY <3>1, <1>1
      <4>. QED  BY <3>1, <4>1, <1>8 DEF Follows
    <3>2. CASE t # now
      <4>1. t - now \in 1 .. N /\ t - 1 \in now .. arrival /\ now + (t - now) = t
            /\ (t - 1) - now = (t - now) - 1
        BY <3>2
      <4>2. h[t] = f[t-now] /\ h[t-1] = f[(t-now)-1]
        BY <4>1
      <4>. QED  BY <1>11, <3>2, <4>1, <4>2
    <3>. QED  BY <3>1, <3>2
  <2>2. h = [t \in now .. arrival |-> h[t]]
    OBVIOUS
  <2> HIDE DEF h
  <2>3. h = [t \in now .. arrival |-> IF t = now THEN {first} ELSE Onward(t, h[t-1])]
    BY <2>1, <2>2, Zenon
  <2>. QED  BY <1>3, <2>3
<1> DEFINE walk == CHOOSE g : g = G(g)
<1>13. walk = G(walk)
  <2> HIDE DEF h
  <2>. QED  BY <1>12
<1> HIDE DEF walk
<1>14. walk = [t \in now .. arrival |-> IF t = now THEN {first} ELSE Onward(t, walk[t-1])]
  BY <1>3, <1>13
<1>15. ASSUME NEW t \in now .. arrival
       PROVE  walk[t] = IF t = now THEN {first} ELSE Onward(t, walk[t-1])
  BY <1>14, Zenon
<1> DEFINE Good(t) == \A v \in walk[t] : WalkUpTo(v, tbl, r, from, now, t, obs)
           S == {t \in now .. arrival : Good(t)}
<1>16. WalkUpTo(first, tbl, r, from, now, now, obs)
  BY <1>1, <1>4 DEF WalkUpTo, first
<1>17. now \in S
  <2>1. walk[now] = {first}
    BY <1>1, <1>15
  <2>. QED  BY <1>1, <1>16, <2>1
<1>18. ASSUME NEW t \in now .. arrival - 1, t \in S PROVE t + 1 \in S
  <2>1. /\ t + 1 \in now .. arrival /\ t + 1 # now /\ (t + 1) - 1 = t /\ t + 1 \in Nat
        /\ t + 1 > now
    OBVIOUS
  <2>2. walk[t+1] = Onward(t + 1, walk[t])
    BY <1>15, <2>1
  <2>3. ASSUME NEW v \in walk[t+1] PROVE WalkUpTo(v, tbl, r, from, now, t + 1, obs)
    <3>1. PICK x \in walk[t] : \E d \in NextCells(x, tbl, r, goal, arrival, t + 1, obs) :
            v = Longer(x, d, now, t + 1)
      BY <2>2 DEF Onward
    <3>2. WalkUpTo(x, tbl, r, from, now, t, obs)
      BY <1>18
    <3>3. x \in [now .. (t + 1) - 1 -> Cells]
      BY <2>1, <3>2 DEF WalkUpTo
    <3>4. PICK d \in NextCells(x, tbl, r, goal, arrival, t + 1, obs) :
            v = Longer(x, d, now, t + 1)
      BY <3>1
    <3>5. WalkUpTo(x, tbl, r, from, now, (t + 1) - 1, obs)
      BY <2>1, <3>2
    <3>6. WalkUpTo(Longer(x, d, now, t + 1), tbl, r, from, now, t + 1, obs)
      BY <2>1, <3>3, <3>5, LongerWalks
    <3>. QED  BY <3>4, <3>6
  <2>. QED  BY <2>1, <2>3
<1>19. now .. arrival \subseteq S
  <2> HIDE DEF S
  <2>. QED  BY <1>17, <1>18, IntervalInduction
<1>20. w \in walk[arrival]
  BY <1>2 DEF walk
<1>21. WalkUpTo(w, tbl, r, from, now, arrival, obs)
  BY <1>1, <1>19, <1>20
<1>22. ASSUME arrival > now PROVE w[arrival] = goal
  <2>1. walk[arrival] = Onward(arrival, walk[arrival-1]) /\ arrival - 1 \in now .. arrival
    BY <1>1, <1>15, <1>22
  <2>2. PICK x \in walk[arrival-1] : \E d \in NextCells(x, tbl, r, goal, arrival, arrival, obs) :
          w = Longer(x, d, now, arrival)
    BY <1>20, <2>1 DEF Onward
  <2>3. PICK d \in NextCells(x, tbl, r, goal, arrival, arrival, obs) : w = Longer(x, d, now, arrival)
    BY <2>2
  <2>4. w[arrival] = d
    BY <1>1, <2>3 DEF Longer
  <2>5. d \in Cells /\ ManhattanDistance(d, goal) <= arrival - arrival
    BY <2>3 DEF NextCells
  <2>6. d = goal
    BY <2>5 DEF ManhattanDistance, Distance, Cells
  <2>. QED  BY <2>4, <2>6
<1>. QED  BY <1>21, <1>22

(* A replan returns a walk from here to the goal, over walkable cells, whose *)
(* every step the table allows, and whose goal stays free to the horizon.  *)
LEMMA ReplansAreRoutes ==
  ASSUME NEW tbl, NEW r, NEW from \in Cells, NEW goal \in Cells, NEW now \in Times,
         NEW obs, NEW p \in Replans(tbl, r, from, goal, now, obs)
  PROVE  /\ IsTimedPath(p) /\ IsWalk(p)
         /\ p.start = now /\ p.at[now] = from /\ Goal(p) = goal
         /\ {from, goal} \subseteq Cells \ obs /\ IsVertexFree(tbl, from, now, r)
         /\ \A t \in now .. p.arrival - 1 : MayStep(tbl, r, p.at[t], p.at[t+1], t, obs)
         /\ MayPark(tbl, r, goal, p.arrival)
<1> DEFINE times == ArrivalTimes(tbl, r, from, goal, now, obs)
<1>1. PICK a \in times : \E w \in WalksArriving(tbl, r, from, goal, now, a, obs) :
        p = [start |-> now, arrival |-> a, at |-> w]
  BY DEF Replans
<1>2. PICK w \in WalksArriving(tbl, r, from, goal, now, a, obs) :
        p = [start |-> now, arrival |-> a, at |-> w]
  BY <1>1
<1>3. /\ now <= Horizon /\ {from, goal} \subseteq Cells \ obs
      /\ IsVertexFree(tbl, from, now, r)
      /\ a \in now .. Horizon /\ goal \in Spread(tbl, r, from, now, obs)[a - now]
      /\ MayPark(tbl, r, goal, a)
  BY <1>1 DEF ArrivalTimes
<1>4. now \in Nat /\ a \in Nat /\ now <= a /\ a <= Horizon
  BY <1>3 DEF Times
<1>5. WalkUpTo(w, tbl, r, from, now, a, obs) /\ (a > now => w[a] = goal)
  BY <1>2, <1>4, WalksAreWalks
<1>6. a = now => w[a] = goal
  <2>1. SUFFICES ASSUME a = now PROVE w[a] = goal
    OBVIOUS
  <2>2. a - now = 0
    BY <1>4, <2>1
  <2>3. goal \in {from}
    BY <1>3, <2>2, SpreadBegins
  <2>. QED  BY <1>5, <2>1, <2>3 DEF WalkUpTo
<1>7. p.start = now /\ p.arrival = a /\ p.at = w
  BY <1>2
<1>8. IsTimedPath(p)
  BY <1>3, <1>5, <1>7 DEF IsTimedPath, WalkUpTo
<1>9. \A t \in now .. a - 1 : MayStep(tbl, r, w[t], w[t+1], t, obs)
  BY <1>5 DEF WalkUpTo
<1>10. IsWalk(p)
  BY <1>7, <1>9 DEF IsWalk, MayStep
<1>11. Goal(p) = goal
  BY <1>4, <1>5, <1>6, <1>7 DEF Goal
<1>. QED  BY <1>3, <1>5, <1>7, <1>8, <1>9, <1>10, <1>11 DEF WalkUpTo

(* Every cell and every move of it, the hold at the goal included, is one  *)
(* the table leaves to this robot.                                         *)
LEMMA ReplansKeepClear ==
  ASSUME NEW tbl, NEW r, NEW from \in Cells, NEW goal \in Cells, NEW now \in Times,
         NEW obs, NEW p \in Replans(tbl, r, from, goal, now, obs), NEW t \in now .. Horizon
  PROVE  /\ PositionAt(p, t) \in Cells \ obs
         /\ IsVertexFree(tbl, PositionAt(p, t), t, r)
         /\ t < Horizon /\ PositionAt(p, t) # PositionAt(p, t + 1) =>
              ~ IsSwapConflict(tbl, PositionAt(p, t), PositionAt(p, t + 1), t, r)
<1>1. /\ IsTimedPath(p) /\ IsWalk(p)
      /\ p.start = now /\ p.at[now] = from /\ Goal(p) = goal
      /\ {from, goal} \subseteq Cells \ obs /\ IsVertexFree(tbl, from, now, r)
      /\ \A u \in now .. p.arrival - 1 : MayStep(tbl, r, p.at[u], p.at[u+1], u, obs)
      /\ MayPark(tbl, r, goal, p.arrival)
  BY ReplansAreRoutes
<1>2. /\ now \in Nat /\ t \in Nat /\ p.arrival \in Nat /\ now <= p.arrival
      /\ p.arrival <= Horizon /\ now <= t /\ t <= Horizon /\ t + 1 \in Nat
  BY <1>1, PathNumbers DEF Times
<1>3. PositionAt(p, t) \in Cells \ obs /\ IsVertexFree(tbl, PositionAt(p, t), t, r)
  <2>1. CASE t = now
    <3>1. PositionAt(p, t) = from
      BY <1>1, <1>2, <2>1, PositionOfPath
    <3>. QED  BY <1>1, <2>1, <3>1
  <2>2. CASE t > now /\ t <= p.arrival
    <3>1. t - 1 \in now .. p.arrival - 1 /\ (t - 1) + 1 = t /\ t \in now .. p.arrival
      BY <1>2, <2>2
    <3>2. MayStep(tbl, r, p.at[t-1], p.at[t], t - 1, obs)
      BY <1>1, <3>1
    <3>3. PositionAt(p, t) = p.at[t]
      BY <1>1, <1>2, <3>1, PositionOfPath
    <3>4. p.at[t] \in Cells \ obs /\ IsVertexFree(tbl, p.at[t], (t - 1) + 1, r)
      BY <3>2 DEF MayStep, IsMoveAllowed
    <3>. QED  BY <3>1, <3>3, <3>4
  <2>3. CASE t > p.arrival
    <3>1. PositionAt(p, t) = goal /\ t \in p.arrival .. Horizon
      BY <1>1, <1>2, <2>3, PositionOfPath
    <3>. QED  BY <1>1, <3>1 DEF MayPark
  <2>. QED  BY <1>2, <2>1, <2>2, <2>3
<1>4. ASSUME t < Horizon, PositionAt(p, t) # PositionAt(p, t + 1)
      PROVE  ~ IsSwapConflict(tbl, PositionAt(p, t), PositionAt(p, t + 1), t, r)
  <2>1. t < p.arrival
    <3>1. SUFFICES ASSUME t >= p.arrival PROVE FALSE
      BY <1>2
    <3>2. t + 1 >= p.arrival
      BY <1>2, <3>1
    <3>. QED  BY <1>1, <1>2, <1>4, <3>1, <3>2, PositionOfPath
  <2>2. t \in now .. p.arrival - 1 /\ t \in now .. p.arrival /\ t + 1 \in now .. p.arrival
    BY <1>2, <2>1
  <2>3. PositionAt(p, t) = p.at[t] /\ PositionAt(p, t + 1) = p.at[t+1]
    BY <1>1, <1>2, <2>2, PositionOfPath
  <2>4. MayStep(tbl, r, p.at[t], p.at[t+1], t, obs)
    BY <1>1, <2>2
  <2>. QED  BY <1>4, <2>3, <2>4 DEF MayStep, IsMoveAllowed
<1>. QED  BY <1>3, <1>4

-----------------------------------------------------------------------------
(* The table a replan is made against.                                     *)

LEMMA FutureTableHolds ==
  ASSUME NEW P, NEW kept, NEW pinned, NEW now \in Nat,
         NEW tbl, tbl = FutureReservations(P, kept, pinned, now)
  PROVE  /\ \A r \in kept, t \in now .. Horizon :
              <<PositionAt(P[r], t), t, r>> \in tbl.vertices
         /\ \A r \in kept : \A k \in LaterEdges(P[r], now) :
              <<k[1], k[2], k[3], r>> \in tbl.edges
         /\ \A o \in DOMAIN pinned, t \in now .. Horizon :
              <<pinned[o], t, o>> \in tbl.vertices
<1> DEFINE Routes(r) == {<<k[1], k[2], r>> : k \in LaterVertices(P[r], now)}
           Posts(o) == {<<pinned[o], t, o>> : t \in now .. Horizon}
<1>0. tbl.vertices = UNION ({Routes(r) : r \in kept} \cup {Posts(o) : o \in DOMAIN pinned})
  BY DEF FutureReservations, FutureVertices
<1>1. ASSUME NEW r \in kept, NEW t \in now .. Horizon
      PROVE  <<PositionAt(P[r], t), t, r>> \in tbl.vertices
  <2>1. <<PositionAt(P[r], t), t>> \in LaterVertices(P[r], now)
    BY DEF LaterVertices
  <2>2. <<PositionAt(P[r], t), t, r>> \in {<<k[1], k[2], r>> : k \in LaterVertices(P[r], now)}
    BY <2>1
  <2>3. <<PositionAt(P[r], t), t, r>> \in Routes(r)
    BY <2>2
  <2> HIDE DEF Routes, Posts
  <2>. QED  BY <1>0, <2>3
<1>2. ASSUME NEW r \in kept, NEW k \in LaterEdges(P[r], now)
      PROVE  <<k[1], k[2], k[3], r>> \in tbl.edges
  BY DEF FutureReservations
<1>3. ASSUME NEW o \in DOMAIN pinned, NEW t \in now .. Horizon
      PROVE  <<pinned[o], t, o>> \in tbl.vertices
  <2>1. <<pinned[o], t, o>> \in Posts(o)
    OBVIOUS
  <2> HIDE DEF Routes, Posts
  <2>. QED  BY <1>0, <2>1
<1>. QED  BY <1>1, <1>2, <1>3

LEMMA FutureTableHasNothingElse ==
  ASSUME NEW P, NEW kept, NEW pinned, NEW now \in Nat,
         NEW v \in FutureVertices(P, kept, pinned, now)
  PROVE  \E o, t : /\ t \in now .. Horizon
                   /\ \/ o \in kept /\ v = <<PositionAt(P[o], t), t, o>>
                      \/ o \in DOMAIN pinned /\ v = <<pinned[o], t, o>>
<1>1. CASE \E r \in kept : v \in {<<k[1], k[2], r>> : k \in LaterVertices(P[r], now)}
  BY <1>1 DEF LaterVertices
<1>2. CASE \E o \in DOMAIN pinned : v \in {<<pinned[o], t, o>> : t \in now .. Horizon}
  BY <1>2
<1>. QED  BY <1>1, <1>2 DEF FutureVertices

(* Nobody can be reserved twice where robots are on different cells.       *)
LEMMA NoClash ==
  ASSUME NEW P, NEW kept, NEW pinned, NEW now \in Nat,
         \A t \in now .. Horizon : \A q, r \in kept :
           q # r => PositionAt(P[q], t) # PositionAt(P[r], t),
         \A t \in now .. Horizon : \A r \in kept : \A o \in DOMAIN pinned :
           PositionAt(P[r], t) # pinned[o],
         \A o, u \in DOMAIN pinned : o # u => pinned[o] # pinned[u]
  PROVE  ~ HeldTwice(FutureVertices(P, kept, pinned, now))
<1> SUFFICES ASSUME NEW v \in FutureVertices(P, kept, pinned, now),
                    NEW w \in FutureVertices(P, kept, pinned, now),
                    v[1] = w[1], v[2] = w[2], v[3] # w[3]
             PROVE  FALSE
  BY DEF HeldTwice
<1>1. PICK o, t : /\ t \in now .. Horizon
                  /\ \/ o \in kept /\ v = <<PositionAt(P[o], t), t, o>>
                     \/ o \in DOMAIN pinned /\ v = <<pinned[o], t, o>>
  BY FutureTableHasNothingElse
<1>2. PICK q, u : /\ u \in now .. Horizon
                  /\ \/ q \in kept /\ w = <<PositionAt(P[q], u), u, q>>
                     \/ q \in DOMAIN pinned /\ w = <<pinned[q], u, q>>
  BY FutureTableHasNothingElse
<1>3. t = u /\ o # q
  BY <1>1, <1>2
<1>. QED  BY <1>1, <1>2, <1>3

-----------------------------------------------------------------------------
(* Plans that pass pre-flight.                                             *)

LEMMA WalkSteps ==
  ASSUME NEW p, IsTimedPath(p), IsWalk(p), NEW t \in Nat
  PROVE  PositionAt(p, t) = PositionAt(p, t + 1)
           \/ AdjacentTo(PositionAt(p, t), PositionAt(p, t + 1))
<1>1. /\ p.start \in Nat /\ p.arrival \in Nat /\ p.start <= p.arrival /\ t + 1 \in Nat
  BY PathNumbers
<1>2. CASE t < p.start
  <2>1. t <= p.start /\ t + 1 <= p.start
    BY <1>1, <1>2
  <2>. QED  BY <1>1, <2>1, PositionOfPath
<1>3. CASE t >= p.arrival
  <2>1. t >= p.arrival /\ t + 1 >= p.arrival
    BY <1>1, <1>3
  <2>. QED  BY <1>1, <2>1, PositionOfPath
<1>4. CASE t >= p.start /\ t < p.arrival
  <2>1. /\ t \in p.start .. p.arrival - 1 /\ t \in p.start .. p.arrival
        /\ t + 1 \in p.start .. p.arrival
    BY <1>1, <1>4
  <2>2. PositionAt(p, t) = p.at[t] /\ PositionAt(p, t + 1) = p.at[t+1]
    BY <1>1, <2>1, PositionOfPath
  <2>. QED  BY <2>1, <2>2 DEF IsWalk
<1>. QED  BY <1>1, <1>2, <1>3, <1>4

LEMMA NearCells ==
  ASSUME NEW a \in Cells, NEW b \in Cells, ManhattanDistance(a, b) \in {0, 1}
  PROVE  a = b \/ AdjacentTo(a, b)
BY DEF AdjacentTo, ManhattanDistance, Distance, Cells

LEMMA SoundPlansAreWalks ==
  ASSUME NEW P, \A r \in DOMAIN P : IsTimedPath(P[r]), ~ HasProblems(P, {}),
         NEW r \in DOMAIN P
  PROVE  IsWalk(P[r])
<1>1. SUFFICES ASSUME NEW t \in P[r].start .. P[r].arrival - 1
               PROVE  P[r].at[t] = P[r].at[t+1] \/ AdjacentTo(P[r].at[t], P[r].at[t+1])
  BY DEF IsWalk
<1>2. ManhattanDistance(P[r].at[t], P[r].at[t+1]) \in {0, 1}
  BY DEF HasProblems, PathProblem
<1>3. /\ t \in P[r].start .. P[r].arrival /\ t + 1 \in P[r].start .. P[r].arrival
  BY PathNumbers
<1>4. P[r].at[t] \in Cells /\ P[r].at[t+1] \in Cells
  BY <1>3, PathNumbers
<1>. QED  BY <1>2, <1>4, NearCells

-----------------------------------------------------------------------------
(* Routes are what is driven.                                              *)

(* What a robot under control drove.                                       *)
LEMMA DrivenIsOnCourse ==
  ASSUME CourseInv, Underway, NEW r \in Driven
  PROVE  /\ r \in Robots
         /\ IsTimedPath(paths[r]) /\ IsWalk(paths[r])
         /\ IsTimedPath(trace[r]) /\ IsWalk(trace[r])
         /\ trace[r].start = paths[r].start
         /\ position[r] = Here(r) /\ position[r] \in Cells
         /\ \A t \in trace[r].start .. trace[r].arrival :
              /\ PositionAt(paths[r], t) = trace[r].at[t]
              /\ PositionAt(trace[r], t) = trace[r].at[t]
<1>1. r \in Robots /\ IsTimedPath(paths[r]) /\ position[r] \in Cells
  BY DEF CourseInv, TypeOK
<1>2. /\ IsTimedPath(trace[r]) /\ IsWalk(paths[r]) /\ position[r] = Here(r)
      /\ paths[r].start = trace[r].start
      /\ \A t \in trace[r].start .. trace[r].arrival :
           PositionAt(paths[r], t) = trace[r].at[t]
  BY DEF CourseInv, RoutesAreDriven
<1>3. trace[r].start \in Nat /\ trace[r].start <= trace[r].arrival
  BY <1>2, PathNumbers
<1>4. \A t \in trace[r].start .. trace[r].arrival : t \in Nat
  BY <1>3
<1>5. \A t \in trace[r].start .. trace[r].arrival : PositionAt(trace[r], t) = trace[r].at[t]
  BY <1>2, <1>4, PositionOfPath
<1>6. IsWalk(trace[r])
  <2>1. SUFFICES ASSUME NEW t \in trace[r].start .. trace[r].arrival - 1
                 PROVE  trace[r].at[t] = trace[r].at[t+1]
                          \/ AdjacentTo(trace[r].at[t], trace[r].at[t+1])
    BY DEF IsWalk
  <2>2. /\ t \in trace[r].start .. trace[r].arrival /\ t \in Nat
        /\ t + 1 \in trace[r].start .. trace[r].arrival
    BY <1>2, <1>3, PathNumbers
  <2>. QED  BY <1>1, <1>2, <2>2, WalkSteps
<1>. QED  BY <1>1, <1>2, <1>5, <1>6

(* Where a robot that is still to be moved is, and where its route goes on.*)
LEMMA MoverIsOnCourse ==
  ASSUME CourseInv, Underway, NEW r \in Movers
  PROVE  /\ r \in Driven /\ r \in Robots /\ r \notin offline /\ r \notin stopped
         /\ IsTimedPath(paths[r]) /\ IsWalk(paths[r])
         /\ IsTimedPath(trace[r]) /\ IsWalk(trace[r])
         /\ trace[r].start = paths[r].start /\ trace[r].arrival = clock
         /\ clock \in Nat /\ clock <= Horizon
         /\ position[r] = Here(r) /\ position[r] \in Cells
         /\ position[r] = trace[r].at[clock] /\ position[r] = PositionAt(paths[r], clock)
         /\ Goal(paths[r]) = goals[r] /\ goals[r] \in Cells
<1>1. r \in Driven /\ r \notin offline /\ r \notin stopped
  BY DEF Movers, LiveRobots
<1>2. clock \in Nat /\ clock <= Horizon
  BY DEF CourseInv, TypeOK, Times
<1>3. trace[r].arrival = clock /\ Goal(paths[r]) = goals[r] /\ goals[r] \in Cells
  BY <1>1 DEF CourseInv, RoutesAreDriven
<1>4. /\ r \in Robots
      /\ IsTimedPath(paths[r]) /\ IsWalk(paths[r])
      /\ IsTimedPath(trace[r]) /\ IsWalk(trace[r])
      /\ trace[r].start = paths[r].start
      /\ position[r] = Here(r) /\ position[r] \in Cells
      /\ \A t \in trace[r].start .. trace[r].arrival :
           PositionAt(paths[r], t) = trace[r].at[t]
  BY <1>1, DrivenIsOnCourse
<1>5. clock \in trace[r].start .. trace[r].arrival
  BY <1>2, <1>3, <1>4, PathNumbers
<1>. QED  BY <1>1, <1>2, <1>3, <1>4, <1>5 DEF Here, Goal

(* A route repaired from where the robot stands keeps it on course.        *)
LEMMA SpliceKeepsCourse ==
  ASSUME CourseInv, Underway, NEW r \in Movers, NEW p, IsTimedPath(p), IsWalk(p),
         p.start = clock, p.at[clock] = Here(r)
  PROVE  LET new == Splice(trace[r], p) IN
         /\ IsTimedPath(new) /\ IsWalk(new)
         /\ new.start = trace[r].start /\ new.arrival = p.arrival /\ Goal(new) = Goal(p)
         /\ \A t \in trace[r].start .. trace[r].arrival : PositionAt(new, t) = trace[r].at[t]
         /\ \A t \in p.start .. p.arrival : new.at[t] = p.at[t]
         /\ \A t \in Nat : t >= clock => PositionAt(new, t) = PositionAt(p, t)
<1>1. /\ IsTimedPath(trace[r]) /\ IsWalk(trace[r]) /\ trace[r].arrival = clock
      /\ Here(r) = trace[r].at[clock]
  BY MoverIsOnCourse
<1>. QED  BY <1>1, SpliceIsRoute

LEMMA LastTimestepIsNat ==
  ASSUME failures \subseteq Times \X Robots, drops \subseteq Times \X Cells
  PROVE  LastTimestep \in Nat
<1> DEFINE times == {0} \cup {e[1] : e \in failures} \cup {e[1] : e \in drops}
           early == {Horizon - t : t \in times}
<1>1. times \subseteq Times /\ 0 \in times /\ Times \subseteq Nat
  BY DEF Times
<1> HIDE DEF times
<1>2. early \subseteq Nat /\ early # {}
  BY <1>1 DEF Times
<1>3. PICK m \in early : \A n \in early : m <= n
  <2> HIDE DEF early
  <2>. QED  BY <1>2, LeastNumber
<1>4. PICK n \in times : m = Horizon - n
  OBVIOUS
<1>5. \A t \in times : t <= n
  <2>1. SUFFICES ASSUME NEW t \in times PROVE t <= n
    OBVIOUS
  <2>2. m <= Horizon - t
    BY <1>3
  <2>3. t \in Nat /\ n \in Nat
    BY <1>1
  <2>. QED  BY <1>4, <2>2, <2>3
<1>6. LastTimestep = CHOOSE k \in times : \A t \in times : t <= k
  BY DEF LastTimestep, times
<1>7. LastTimestep \in times
  BY <1>5, <1>6
<1>. QED  BY <1>1, <1>7

LEMMA InitCourse == SomeRun => CourseInv
<1> SUFFICES ASSUME SomeRun PROVE CourseInv
  OBVIOUS
<1>1. PICK s \in Scenarios :
        /\ paths \in s.plans
        /\ position \in [Robots -> Cells]
        /\ enabled \in s.settings
        /\ battery \in [Robots -> s.charges]
        /\ SomeAssignment(s.owners, s.progress)
        /\ \E e \in s.schedules : failures = e.failures /\ drops = e.drops
        /\ limit = LastTimestep + 4 * (Width + Height)
  BY DEF SomeRun
<1>2. /\ DOMAIN paths \subseteq Robots
      /\ \A r \in DOMAIN paths : IsTimedPath(paths[r]) /\ paths[r].start = 0
      /\ s.charges \subseteq Nat /\ s.owners \subseteq Robots \cup {NoRobot}
      /\ s.progress \subseteq {"ASSIGNED", "IN_PROGRESS", "COMPLETED"}
  BY <1>1, ScenarioAssumption
<1>3. PICK given \in [Tasks -> s.owners] :
        /\ assignedTo = given
        /\ \E made \in [Tasks -> s.progress] :
             taskStatus = [t \in Tasks |-> IF given[t] = NoRobot THEN "PENDING" ELSE made[t]]
        /\ holds = [r \in Robots |-> IF \E t \in Tasks : given[t] = r
                                     THEN CHOOSE t \in Tasks : given[t] = r
                                     ELSE NoTask]
        /\ status = [r \in Robots |-> IF holds[r] = NoTask THEN "IDLE" ELSE "ASSIGNED"]
  BY <1>1 DEF SomeAssignment
<1>4. assignedTo \in [Tasks -> Robots \cup {NoRobot}]
  BY <1>2, <1>3
<1>5. taskStatus \in [Tasks -> {"PENDING", "ASSIGNED", "IN_PROGRESS", "COMPLETED", "FAILED"}]
  BY <1>2, <1>3
<1>6. holds \in [Robots -> Tasks \cup {NoTask}]
  BY <1>3
<1>7. status \in [Robots -> {"IDLE", "ASSIGNED", "MOVING", "OFFLINE"}]
      /\ \A r \in Robots : status[r] # "OFFLINE"
  BY <1>3
<1>8. battery \in [Robots -> Nat]
  BY <1>1, <1>2
<1>9. EmptyTable \in Tables /\ 0 \in Times
  BY DEF EmptyTable, Tables, Times
<1>10. /\ mode = "idle" /\ result = "none" /\ clock = 0 /\ offline = {} /\ stopped = {}
       /\ failing = NoRobot /\ released = NoTask /\ queue = {} /\ future = EmptyTable
       /\ safeStop = FALSE /\ blocked = {}
  BY DEF Init, SomeRun
<1>11. TypeOK
  BY <1>1, <1>2, <1>4, <1>5, <1>6, <1>7, <1>8, <1>9, <1>10 DEF TypeOK, Modes, Results, Driven
<1>12. ScheduleIsKnown
  <2>1. PICK e \in s.schedules : failures = e.failures /\ drops = e.drops
    BY <1>1
  <2>2. failures \subseteq Times \X Robots /\ drops \subseteq Times \X Cells
    BY <2>1, ScenarioAssumption
  <2>3. LastTimestep \in Nat /\ limit = LastTimestep + 4 * (Width + Height)
    BY <1>1, <2>2, LastTimestepIsNat
  <2>. QED  BY <2>2, <2>3 DEF ScheduleIsKnown
<1>13. BeforeTheStart /\ RoutesAreDriven /\ HandlingIsSound /\ OnlyFailedAreOffline
  BY <1>2, <1>7, <1>10
     DEF BeforeTheStart, RoutesAreDriven, Underway, HandlingIsSound, OnlyFailedAreOffline, Driven
<1>. QED  BY <1>11, <1>12, <1>13 DEF CourseInv

(* Steps that only decide where the run goes on.                           *)
LEMMA CourseWhenNothingMoves ==
  ASSUME CourseInv, mode' \in {"halted", "done"}, result' \in Results,
         mode = "idle" => ~ Underway',
         mode \notin {"done", "replanning", "reassigning", "rerouting"},
         UNCHANGED <<scheduleVars, clock, planVars, worldVars, blocked, handlingVars,
                     safeStop>>
  PROVE  CourseInv'
<1>1. /\ UNCHANGED <<clock, paths, goals, trace, offline, stopped, position, battery,
                     status, holds, taskStatus, assignedTo, blocked, failing, released,
                     queue, future, safeStop, failures, drops, limit>>
  BY DEF planVars, worldVars, handlingVars, scheduleVars
<1>2. Driven' = Driven /\ Movers' = Movers
  BY <1>1 DEF Driven, Movers, LiveRobots
<1>3. Underway' => Underway
  BY DEF Underway
<1>4. mode' \notin {"idle", "done"} => Underway
  BY <1>3 DEF Underway
<1>5. TypeOK'
  BY <1>1, <1>2, <1>4 DEF CourseInv, TypeOK, Modes, Driven, RoutesAreDriven
<1>6. RoutesAreDriven'
  BY <1>1, <1>2, <1>3 DEF CourseInv, RoutesAreDriven, Here
<1>. QED  BY <1>1, <1>5, <1>6
          DEF CourseInv, BeforeTheStart, HandlingIsSound, OnlyFailedAreOffline,
              ScheduleIsKnown

LEMMA RefusalsKeepCourse ==
  ASSUME CourseInv, NothingToDrive \/ RejectPlan \/ RejectFleet
  PROVE  CourseInv'
<1>1. /\ mode = "idle" /\ mode' = "done"
      /\ UNCHANGED <<scheduleVars, clock, planVars, worldVars, blocked, handlingVars,
                     safeStop>>
      /\ \/ result' \in {"plan_rejected", "fleet_not_ready"}
         \/ result' = "ok" /\ Driven = {}
  BY DEF NothingToDrive, RejectPlan, RejectFleet, Refuse
<1>2. Driven' = Driven /\ result' \in Results
  BY <1>1 DEF Driven, planVars, Results
<1>3. ~ Underway'
  BY <1>1, <1>2 DEF Underway
<1>. QED  BY <1>1, <1>2, <1>3, CourseWhenNothingMoves

LEMMA HaltKeepsCourse ==
  ASSUME CourseInv, Halt PROVE CourseInv'
<1>1. /\ mode = "running" /\ mode' = "halted" /\ result' = result
      /\ UNCHANGED <<scheduleVars, clock, planVars, worldVars, blocked, handlingVars,
                     safeStop>>
  BY DEF Halt, MayDrive
<1>2. result' \in Results
  BY <1>1 DEF CourseInv, TypeOK
<1>. QED  BY <1>1, <1>2, CourseWhenNothingMoves

LEMMA FinaliseKeepsCourse ==
  ASSUME CourseInv, Finalise PROVE CourseInv'
<1>1. /\ mode \in {"running", "halted"} /\ mode' = "done"
      /\ result' \in {"safe_stop", "ok", "failed"}
      /\ UNCHANGED <<scheduleVars, clock, planVars, worldVars, blocked, handlingVars,
                     safeStop>>
  BY DEF Finalise
<1>2. result' \in Results
  BY <1>1 DEF Results
<1>. QED  BY <1>1, <1>2, CourseWhenNothingMoves

LEMMA StartKeepsCourse ==
  ASSUME CourseInv, Start PROVE CourseInv'
<1>1. /\ mode = "idle" /\ mode' = "running"
      /\ ~ HasProblems(paths, {})
      /\ \A r \in Driven : position[r] = paths[r].at[paths[r].start]
      /\ goals' = [r \in Driven |-> Goal(paths[r])]
      /\ trace' = [r \in Driven |-> StandAt(position[r], 0)]
      /\ UNCHANGED <<clock, paths, offline, stopped, position, battery, status, holds,
                     taskStatus, assignedTo, blocked, failing, released, queue, future,
                     safeStop, result, failures, drops, limit>>
  BY DEF Start, Misplaced, worldVars, handlingVars, scheduleVars
<1>2. /\ clock = 0 /\ offline = {} /\ stopped = {} /\ Driven \subseteq Robots
      /\ \A r \in Driven : IsTimedPath(paths[r]) /\ paths[r].start = 0
      /\ position \in [Robots -> Cells] /\ 0 \in Times
  BY <1>1 DEF CourseInv, BeforeTheStart, TypeOK, Times
<1>3. Driven' = Driven /\ Movers' = Driven /\ DOMAIN paths = Driven
  BY <1>1, <1>2 DEF Driven, Movers, LiveRobots
<1>4. ASSUME NEW r \in Driven
      PROVE  /\ Goal(paths[r]) \in Cells /\ position[r] \in Cells
             /\ goals'[r] = Goal(paths[r]) /\ trace'[r] = StandAt(position[r], 0)
             /\ IsTimedPath(trace'[r]) /\ Goal(trace'[r]) = position[r]
             /\ trace'[r].start = 0 /\ trace'[r].arrival = 0 /\ trace'[r].at[0] = position[r]
             /\ PositionAt(paths[r], 0) = position[r] /\ IsWalk(paths[r])
  <2>1. trace'[r] = StandAt(position[r], 0) /\ position[r] \in Cells
    BY <1>1, <1>2
  <2>2. Goal(paths[r]) \in Cells /\ PositionAt(paths[r], 0) = paths[r].at[0]
    <3>1. paths[r].arrival \in Nat /\ paths[r].arrival >= paths[r].arrival
      BY <1>2, PathNumbers
    <3>. QED  BY <1>2, <3>1, PositionOfPath
  <2>3. IsTimedPath(trace'[r]) /\ Goal(trace'[r]) = position[r]
        /\ trace'[r].start = 0 /\ trace'[r].arrival = 0 /\ trace'[r].at[0] = position[r]
    BY <1>2, <2>1, StandingIsRoute
  <2>4. IsWalk(paths[r])
    BY <1>1, <1>2, <1>3, SoundPlansAreWalks
  <2>. QED  BY <1>1, <1>2, <2>1, <2>2, <2>3, <2>4
<1>5. goals' \in [Driven -> Cells] /\ DOMAIN trace' = Driven
  BY <1>1, <1>4
<1>6. TypeOK'
  BY <1>1, <1>3, <1>4, <1>5 DEF CourseInv, TypeOK, Modes, Driven
<1>7. \A r \in Driven : \A t \in trace'[r].start .. trace'[r].arrival : t = 0
  BY <1>4
<1>8. RoutesAreDriven'
  BY <1>1, <1>2, <1>3, <1>4, <1>5, <1>7 DEF RoutesAreDriven, Here
<1>. QED  BY <1>1, <1>6, <1>8
          DEF CourseInv, BeforeTheStart, HandlingIsSound, OnlyFailedAreOffline,
              ScheduleIsKnown

(* Routes of robots still to be moved may be repaired from where they      *)
(* stand; those of the others stay.                                        *)
Repaired(r, p) ==
  /\ r \in Movers
  /\ IsTimedPath(p) /\ IsWalk(p) /\ p.start = clock /\ p.at[clock] = Here(r)
  /\ paths'[r] = Splice(trace[r], p)

LEMMA RepairsKeepCourse ==
  ASSUME CourseInv, mode \notin {"idle", "done"}, mode' # "idle",
         UNCHANGED <<clock, goals, trace, offline, position>>,
         DOMAIN paths' = Driven, stopped \subseteq stopped',
         \A r \in Driven :
           \/ paths'[r] = paths[r]
           \/ \E p : Repaired(r, p) /\ (r \in stopped' \/ Goal(p) = goals[r])
  PROVE  /\ Driven' = Driven
         /\ \A r \in Driven : IsTimedPath(paths'[r])
         /\ RoutesAreDriven'
<1>1. Driven' = Driven /\ Movers' \subseteq Movers /\ Underway
  BY DEF Driven, Movers, LiveRobots, Underway
<1>2. ASSUME NEW r \in Driven
      PROVE  /\ IsTimedPath(paths'[r]) /\ IsWalk(paths'[r])
             /\ paths'[r].start = trace[r].start
             /\ \A t \in trace[r].start .. trace[r].arrival :
                  PositionAt(paths'[r], t) = trace[r].at[t]
             /\ r \in Movers' => Goal(paths'[r]) = goals[r]
  <2>1. CASE paths'[r] = paths[r]
    BY <1>1, <2>1 DEF CourseInv, TypeOK, RoutesAreDriven
  <2>2. CASE \E p : Repaired(r, p) /\ (r \in stopped' \/ Goal(p) = goals[r])
    <3>1. PICK p : Repaired(r, p) /\ (r \in stopped' \/ Goal(p) = goals[r])
      BY <2>2
    <3>2. r \in Movers' => Goal(p) = goals[r]
      BY <3>1 DEF Movers
    <3>. QED  BY <1>1, <3>1, <3>2, SpliceKeepsCourse DEF Repaired
  <2>. QED  BY <2>1, <2>2
<1>3. /\ goals \in [Driven -> Cells] /\ DOMAIN trace = Driven
      /\ \A r \in Driven : IsTimedPath(trace[r]) /\ position[r] = Here(r)
      /\ \A r \in Movers : trace[r].arrival = clock
  BY <1>1 DEF CourseInv, RoutesAreDriven
<1>4. ASSUME NEW r \in Driven PROVE Here(r)' = Here(r) /\ position'[r] = Here(r)
  BY <1>3 DEF Here
<1>5. RoutesAreDriven'
  <2>1. goals' \in [Driven' -> Cells] /\ DOMAIN trace' = Driven'
    BY <1>1, <1>3
  <2>2. \A r \in Driven' :
          /\ IsTimedPath(trace'[r])
          /\ IsWalk(paths'[r])
          /\ position'[r] = Here(r)'
          /\ paths'[r].start = trace'[r].start
          /\ \A t \in trace'[r].start .. trace'[r].arrival :
               PositionAt(paths'[r], t) = trace'[r].at[t]
    BY <1>1, <1>2, <1>3, <1>4
  <2>3. \A r \in Movers' : r \in Driven /\ r \in Movers
    BY <1>1 DEF Movers, LiveRobots
  <2>4. \A r \in Movers' : trace'[r].arrival = clock' /\ Goal(paths'[r]) = goals'[r]
    BY <1>2, <1>3, <2>3
  <2>. QED  BY <2>1, <2>2, <2>4 DEF RoutesAreDriven
<1>. QED  BY <1>1, <1>2, <1>5

LEMMA RouteCells ==
  ASSUME NEW p, IsTimedPath(p)
  PROVE  /\ \A k \in PathVertices(p) : k[1] \in Cells /\ k[2] \in Times
         /\ \A k \in PathEdges(p) : k[1] \in Cells /\ k[2] \in Cells /\ k[3] \in Times
<1>1. ASSUME NEW k \in PathVertices(p) PROVE k[1] \in Cells /\ k[2] \in Times
  <2>1. PICK t \in p.start .. Horizon : k = <<PositionAt(p, t), t>>
    BY DEF PathVertices
  <2>2. t \in Nat /\ t \in Times
    BY PathNumbers DEF Times
  <2>. QED  BY <2>1, <2>2, PositionOfPath
<1>2. ASSUME NEW k \in PathEdges(p)
      PROVE  k[1] \in Cells /\ k[2] \in Cells /\ k[3] \in Times
  <2>1. PICK t \in p.start .. p.arrival - 1 : k = <<p.at[t], p.at[t+1], t>>
    BY DEF PathEdges
  <2>2. t \in p.start .. p.arrival /\ t + 1 \in p.start .. p.arrival /\ t \in Times
    BY PathNumbers DEF Times
  <2>. QED  BY <2>1, <2>2, PathNumbers
<1>. QED  BY <1>1, <1>2

LEMMA ReservingIsTyped ==
  ASSUME NEW tbl \in Tables, NEW r \in Robots, NEW p, IsTimedPath(p)
  PROVE  ReserveTimedPath(tbl, r, p) \in Tables
BY RouteCells DEF ReserveTimedPath, Tables

LEMMA FutureIsTyped ==
  ASSUME CourseInv, NEW exclude
  PROVE  FutureTable(exclude) \in Tables
<1>1. Kept(exclude) \subseteq Driven /\ Driven \subseteq Robots /\ clock \in Nat
      /\ offline \subseteq Robots /\ position \in [Robots -> Cells]
      /\ DOMAIN Pinned = offline /\ \A o \in offline : Pinned[o] = position[o]
  BY DEF Kept, CourseInv, TypeOK, Times, Pinned
<1>0. ASSUME NEW r \in Kept(exclude) PROVE r \in Robots /\ IsTimedPath(paths[r])
  BY DEF Kept, CourseInv, TypeOK
<1>2. \A t \in clock .. Horizon : t \in Times /\ t \in Nat
  BY <1>1 DEF Times
<1>3. FutureTable(exclude).vertices \subseteq Cells \X Times \X Robots
  <2>1. SUFFICES ASSUME NEW v \in FutureVertices(paths, Kept(exclude), Pinned, clock)
                 PROVE  v \in Cells \X Times \X Robots
    BY DEF FutureTable, FutureReservations
  <2>2. PICK o, t : /\ t \in clock .. Horizon
                    /\ \/ o \in Kept(exclude) /\ v = <<PositionAt(paths[o], t), t, o>>
                       \/ o \in DOMAIN Pinned /\ v = <<Pinned[o], t, o>>
    BY <1>1, FutureTableHasNothingElse
  <2>3. t \in Times /\ t \in Nat
    BY <1>2, <2>2
  <2>4. CASE o \in Kept(exclude) /\ v = <<PositionAt(paths[o], t), t, o>>
    <3>1. o \in Robots /\ IsTimedPath(paths[o])
      BY <1>0, <2>4
    <3>2. PositionAt(paths[o], t) \in Cells
      BY <2>3, <3>1, PositionOfPath
    <3>. QED  BY <2>3, <2>4, <3>1, <3>2
  <2>5. CASE o \in DOMAIN Pinned /\ v = <<Pinned[o], t, o>>
    <3>1. o \in Robots /\ Pinned[o] \in Cells
      BY <1>1, <2>5
    <3>. QED  BY <2>3, <2>5, <3>1
  <2>. QED  BY <2>2, <2>4, <2>5
<1>4. FutureTable(exclude).edges \subseteq Cells \X Cells \X Times \X Robots
  <2>1. SUFFICES ASSUME NEW r \in Kept(exclude), NEW k \in LaterEdges(paths[r], clock)
                 PROVE  <<k[1], k[2], k[3], r>> \in Cells \X Cells \X Times \X Robots
    BY DEF FutureTable, FutureReservations
  <2>2. k \in PathEdges(paths[r]) /\ IsTimedPath(paths[r]) /\ r \in Robots
    BY <1>0 DEF LaterEdges
  <2>3. k[1] \in Cells /\ k[2] \in Cells /\ k[3] \in Times
    BY <2>2, RouteCells
  <2>. QED  BY <2>2, <2>3
<1>5. FutureTable(exclude) = [vertices |-> FutureTable(exclude).vertices,
                              edges |-> FutureTable(exclude).edges]
  BY DEF FutureTable, FutureReservations
<1>. QED  BY <1>3, <1>4, <1>5 DEF Tables

LEMMA ReplanKeepsCourse ==
  ASSUME CourseInv, Replan PROVE CourseInv'
<1>1. PICK r \in queue :
        /\ LET routes == Replans(future, r, Here(r), goals[r], clock, blocked) IN
           \/ routes # {} /\ Repair(r, routes)
           \/ routes = {} /\ StopSafely(r)
        /\ queue' = queue \ {r}
        /\ mode' = IF queue' = {} THEN "running" ELSE mode
  BY DEF Replan
<1>2. /\ mode = "replanning" /\ mode' \in {"running", "replanning"}
      /\ mode' = "replanning" => queue' # {}
      /\ UNCHANGED <<failures, drops, limit, clock, goals, trace, offline, position,
                     battery, status, holds, taskStatus, assignedTo, blocked, failing,
                     released, result>>
  BY <1>1 DEF Replan, worldVars, scheduleVars
<1>3. Underway /\ queue \subseteq Movers /\ r \in Movers /\ r \in Driven
  BY <1>2 DEF Underway, CourseInv, HandlingIsSound, Movers, LiveRobots
<1>4. /\ IsTimedPath(paths[r]) /\ r \in Robots /\ Here(r) \in Cells /\ goals[r] \in Cells
      /\ clock \in Times
  BY <1>3, MoverIsOnCourse DEF CourseInv, TypeOK
<1>5. \E p : /\ IsTimedPath(p) /\ IsWalk(p) /\ p.start = clock /\ p.at[clock] = Here(r)
             /\ paths' = [paths EXCEPT ![r] = Splice(trace[r], p)]
             /\ future' \in Tables /\ safeStop' \in BOOLEAN
             /\ \/ stopped' = stopped \cup {r}
                \/ stopped' = stopped /\ Goal(p) = goals[r]
  <2>1. CASE StopSafely(r)
    <3>1. LET p == StandAt(Here(r), clock) IN
          IsTimedPath(p) /\ IsWalk(p) /\ p.start = clock /\ p.at[clock] = Here(r)
      BY <1>4, StandingIsRoute
    <3>. QED  BY <2>1, <3>1 DEF StopSafely, CourseInv, TypeOK
  <2>2. CASE Repair(r, Replans(future, r, Here(r), goals[r], clock, blocked))
    <3>1. PICK p \in Replans(future, r, Here(r), goals[r], clock, blocked) :
            /\ paths' = [paths EXCEPT ![r] = Splice(trace[r], p)]
            /\ future' = ReserveTimedPath(future, r, p)
      BY <2>2 DEF Repair
    <3>2. stopped' = stopped /\ safeStop' \in BOOLEAN /\ future \in Tables
      BY <2>2 DEF Repair, CourseInv, TypeOK
    <3>3. /\ IsTimedPath(p) /\ IsWalk(p) /\ p.start = clock /\ p.at[clock] = Here(r)
          /\ Goal(p) = goals[r]
      <4> DEFINE from == Here(r)  goal == goals[r]
      <4>1. from \in Cells /\ goal \in Cells /\ clock \in Times
        BY <1>4
      <4>2. p \in Replans(future, r, from, goal, clock, blocked)
        OBVIOUS
      <4> HIDE DEF from, goal
      <4>3. IsTimedPath(p) /\ IsWalk(p) /\ p.start = clock /\ p.at[clock] = from /\ Goal(p) = goal
        BY <4>1, <4>2, ReplansAreRoutes
      <4>. QED  BY <4>3 DEF from, goal
    <3>4. future' \in Tables
      BY <1>4, <3>1, <3>2, <3>3, ReservingIsTyped
    <3>. QED  BY <3>1, <3>2, <3>3, <3>4
  <2>. QED  BY <1>1, <2>1, <2>2
<1>6. /\ DOMAIN paths' = Driven /\ stopped \subseteq stopped'
      /\ \A q \in Driven : q # r => paths'[q] = paths[q]
      /\ stopped' \subseteq stopped \cup {r} /\ future' \in Tables /\ safeStop' \in BOOLEAN
  BY <1>5 DEF Driven
<1>7. \E p : Repaired(r, p) /\ (r \in stopped' \/ Goal(p) = goals[r])
  <2>1. \A p : paths' = [paths EXCEPT ![r] = Splice(trace[r], p)]
                 => paths'[r] = Splice(trace[r], p)
    BY <1>3 DEF Driven
  <2>. QED  BY <1>3, <1>5, <2>1 DEF Repaired
<1>8. /\ Driven' = Driven
      /\ \A q \in Driven : IsTimedPath(paths'[q])
      /\ RoutesAreDriven'
  <2>1. \A q \in Driven : \/ paths'[q] = paths[q]
                          \/ \E p : Repaired(q, p) /\ (q \in stopped' \/ Goal(p) = goals[q])
    BY <1>6, <1>7
  <2>. QED  BY <1>2, <1>6, <2>1, RepairsKeepCourse
<1>9. TypeOK'
  <2>1. goals \in [Driven -> Cells] /\ DOMAIN trace = Driven
        /\ \A q \in Driven : IsTimedPath(trace[q])
    BY <1>3 DEF CourseInv, RoutesAreDriven
  <2>. QED  BY <1>1, <1>2, <1>4, <1>6, <1>8, <2>1 DEF CourseInv, TypeOK, Modes
<1>10. HandlingIsSound'
  <2>1. queue' \subseteq Movers'
    BY <1>1, <1>2, <1>3, <1>6, <1>8 DEF Movers, LiveRobots
  <2>2. ASSUME NEW q \in queue'
        PROVE  \E c \in blocked \cup {position[o] : o \in offline} :
                 RouteTouchesCell(paths'[q], c, clock)
    <3>1. q \in queue /\ paths'[q] = paths[q]
      BY <1>1, <1>3, <1>6 DEF Movers, LiveRobots
    <3>. QED  BY <1>2, <3>1 DEF CourseInv, HandlingIsSound
  <2>. QED  BY <1>2, <2>1, <2>2 DEF HandlingIsSound
<1>. QED  BY <1>2, <1>8, <1>9, <1>10
          DEF CourseInv, BeforeTheStart, OnlyFailedAreOffline, ScheduleIsKnown

(* A table for the robots an event is in the way of, or an exception.      *)
LEMMA BeginningKeepsCourse ==
  ASSUME CourseInv, NEW affected, BeginReplanning(affected), affected \subseteq Movers
  PROVE  /\ queue' = affected /\ future' \in Tables /\ mode' \in {"raised", "replanning"}
         /\ queue' \subseteq Driven
<1>1. future' = future \/ future' = FutureTable(affected)
  BY DEF BeginReplanning
<1>2. future' \in Tables
  BY <1>1, FutureIsTyped DEF CourseInv, TypeOK
<1>. QED  BY <1>2 DEF BeginReplanning, Movers, LiveRobots

LEMMA ObstaclesKeepCourse ==
  ASSUME CourseInv, RecoverObstacle PROVE CourseInv'
<1>1. PICK e \in drops :
        /\ drops' = drops \ {e}
        /\ \/ RefuseObstacle(e[2]) \/ DropBesideRoutes(e[2])
           \/ DropWithoutRecovery(e[2]) \/ DropOnRoutes(e[2])
  BY DEF RecoverObstacle
<1> DEFINE c == e[2]
<1>2. /\ mode = "running" /\ Underway /\ c \in Cells /\ clock \in Times
      /\ drops' \subseteq Times \X Cells
      /\ UNCHANGED <<failures, limit, clock, goals, trace, offline, position,
                     battery, status, holds, taskStatus, assignedTo, failing,
                     released, result>>
  BY <1>1 DEF RecoverObstacle, worldVars, Underway, CourseInv, ScheduleIsKnown, TypeOK
<1> HIDE DEF c
<1>3. /\ DOMAIN paths = Driven /\ Driven \subseteq Robots
      /\ \A r \in HitBy(c) : r \in Movers /\ r \in Driven /\ r \in Robots
      /\ HitBy(c) \subseteq Movers
  BY DEF HitBy, Driven, Movers, LiveRobots, CourseInv, TypeOK
<1>4. /\ mode' \in {"running", "raised", "replanning"}
      /\ blocked' \subseteq Cells /\ blocked' \in {blocked, blocked \cup {c}}
      /\ stopped' \in {stopped, stopped \cup HitBy(c)}
      /\ DOMAIN paths' = Driven
      /\ \A r \in Driven :
           \/ paths'[r] = paths[r]
           \/ r \in HitBy(c) /\ r \in stopped'
                /\ paths'[r] = Splice(trace[r], StandAt(Here(r), clock))
      /\ safeStop' \in BOOLEAN
      /\ queue' \subseteq Driven /\ future' \in Tables
      /\ mode' = "replanning" => /\ queue' = HitBy(c) /\ HitBy(c) # {} /\ c \in blocked'
                                 /\ paths' = paths /\ stopped' = stopped
  <2>0. blocked \subseteq Cells /\ safeStop \in BOOLEAN /\ queue \subseteq Driven
        /\ future \in Tables
    BY DEF CourseInv, TypeOK
  <2>1. CASE RefuseObstacle(c)
    BY <1>2, <1>3, <2>0, <2>1 DEF RefuseObstacle
  <2>2. CASE DropBesideRoutes(c)
    BY <1>2, <1>3, <2>0, <2>2 DEF DropBesideRoutes
  <2>3. CASE DropWithoutRecovery(c)
    BY <1>2, <1>3, <2>0, <2>3 DEF DropWithoutRecovery
  <2>4. CASE DropOnRoutes(c)
    <3>1. BeginReplanning(HitBy(c)) /\ blocked' = blocked \cup {c} /\ HitBy(c) # {}
          /\ UNCHANGED <<paths, stopped, safeStop>>
      BY <2>4 DEF DropOnRoutes
    <3>2. queue' = HitBy(c) /\ future' \in Tables /\ mode' \in {"raised", "replanning"}
          /\ queue' \subseteq Driven
      BY <1>3, <3>1, BeginningKeepsCourse
    <3>. QED  BY <1>2, <1>3, <2>0, <3>1, <3>2
  <2>. QED  BY <1>1, <2>1, <2>2, <2>3, <2>4 DEF c
<1>5. stopped \subseteq stopped' /\ stopped' \subseteq Robots
  BY <1>3, <1>4 DEF CourseInv, TypeOK
<1>6. \A r \in Driven : \/ paths'[r] = paths[r]
                        \/ \E p : Repaired(r, p) /\ (r \in stopped' \/ Goal(p) = goals[r])
  <2>1. SUFFICES ASSUME NEW r \in HitBy(c), r \in stopped',
                        paths'[r] = Splice(trace[r], StandAt(Here(r), clock))
                 PROVE  Repaired(r, StandAt(Here(r), clock))
    BY <1>4
  <2>2. r \in Movers /\ Here(r) \in Cells
    BY <1>2, <1>3, MoverIsOnCourse
  <2>. QED  BY <1>2, <2>1, <2>2, StandingIsRoute DEF Repaired
<1>7. /\ Driven' = Driven
      /\ \A q \in Driven : IsTimedPath(paths'[q])
      /\ RoutesAreDriven'
  BY <1>2, <1>4, <1>5, <1>6, RepairsKeepCourse
<1>8. TypeOK'
  <2>1. goals \in [Driven -> Cells] /\ DOMAIN trace = Driven
        /\ \A q \in Driven : IsTimedPath(trace[q])
    BY <1>2 DEF CourseInv, RoutesAreDriven
  <2>. QED  BY <1>2, <1>4, <1>5, <1>7, <2>1 DEF CourseInv, TypeOK, Modes
<1>9. HandlingIsSound'
  <2>1. SUFFICES ASSUME mode' = "replanning"
                 PROVE  /\ queue' \subseteq Movers' /\ queue' # {}
                        /\ \A r \in queue' :
                             \E d \in blocked' \cup {position[o] : o \in offline} :
                               RouteTouchesCell(paths'[r], d, clock)
    BY <1>2, <1>4 DEF HandlingIsSound
  <2>2. Movers' = Movers
    BY <1>2, <1>4, <1>7, <2>1 DEF Movers, LiveRobots
  <2>3. \A r \in queue' : RouteTouchesCell(paths'[r], c, clock)
    BY <1>4, <2>1 DEF HitBy
  <2>. QED  BY <1>3, <1>4, <2>1, <2>2, <2>3
<1>10. ScheduleIsKnown'
  BY <1>2 DEF CourseInv, ScheduleIsKnown
<1>. QED  BY <1>2, <1>4, <1>7, <1>8, <1>9, <1>10
          DEF CourseInv, BeforeTheStart, OnlyFailedAreOffline

LEMMA FailuresKeepCourse ==
  ASSUME CourseInv, RecoverFailure PROVE CourseInv'
<1>1. PICK e \in failures :
        /\ failures' = failures \ {e}
        /\ offline' = offline \cup {e[2]}
        /\ paths' = [r \in Driven |-> IF r = e[2] THEN trace[r] ELSE paths[r]]
        /\ FailWithoutRecovery(e[2]) \/ FailAndRelease(e[2])
  BY DEF RecoverFailure
<1> DEFINE f == e[2]
<1>2. /\ mode = "running" /\ Underway /\ f \in Robots
      /\ failures' \subseteq Times \X Robots
      /\ UNCHANGED <<drops, limit, clock, goals, trace, stopped, position,
                     battery, blocked, queue, future, result>>
  BY <1>1 DEF RecoverFailure, Underway, CourseInv, ScheduleIsKnown
<1> HIDE DEF f
<1>3. /\ mode' \in {"running", "rerouting", "reassigning"}
      /\ status' = [status EXCEPT ![f] = "OFFLINE"]
      /\ holds' \in [Robots -> Tasks \cup {NoTask}]
      /\ taskStatus' \in [Tasks -> {"PENDING", "ASSIGNED", "IN_PROGRESS", "COMPLETED",
                                    "FAILED"}]
      /\ assignedTo' \in [Tasks -> Robots \cup {NoRobot}]
      /\ released' \in Tasks \cup {NoTask}
      /\ safeStop' \in BOOLEAN
      /\ failing' \in Robots \cup {NoRobot}
      /\ mode' # "running" => failing' = f
  <2>1. CASE FailWithoutRecovery(f)
    BY <1>2, <2>1 DEF FailWithoutRecovery, CourseInv, TypeOK
  <2>2. CASE FailAndRelease(f)
    <3>1. ReleaseTask(f) /\ failing' = f /\ safeStop' = safeStop
          /\ mode' \in {"rerouting", "reassigning"}
      BY <2>2 DEF FailAndRelease
    <3>2. /\ status' = [status EXCEPT ![f] = "OFFLINE"]
          /\ holds' \in [Robots -> Tasks \cup {NoTask}]
      BY <1>2, <3>1 DEF ReleaseTask, CourseInv, TypeOK
    <3>3. taskStatus' \in [Tasks -> {"PENDING", "ASSIGNED", "IN_PROGRESS", "COMPLETED",
                                     "FAILED"}]
      BY <1>2, <3>1 DEF ReleaseTask, CourseInv, TypeOK
    <3>4. assignedTo' \in [Tasks -> Robots \cup {NoRobot}]
      BY <1>2, <3>1 DEF ReleaseTask, CourseInv, TypeOK
    <3>5. released' \in Tasks \cup {NoTask}
      BY <1>2, <3>1 DEF ReleaseTask, CourseInv, TypeOK
    <3>. QED  BY <1>2, <3>1, <3>2, <3>3, <3>4, <3>5 DEF CourseInv, TypeOK
  <2>. QED  BY <1>1, <2>1, <2>2 DEF f
<1>4. /\ Driven' = Driven /\ Movers' \subseteq Movers
      /\ offline' = offline \cup {f} /\ offline' \subseteq Robots
      /\ \A r \in Movers' : r # f /\ paths'[r] = paths[r] /\ r \in Driven
      /\ \A r \in Driven : paths'[r] = IF r = f THEN trace[r] ELSE paths[r]
  <2>1. offline \subseteq Robots
    BY DEF CourseInv, TypeOK
  <2>. QED  BY <1>1, <1>2, <2>1 DEF f, Driven, Movers, LiveRobots
<1>5. ASSUME NEW r \in Driven
      PROVE  /\ IsTimedPath(paths'[r]) /\ IsWalk(paths'[r])
             /\ paths'[r].start = trace[r].start
             /\ IsTimedPath(trace[r]) /\ position[r] = Here(r)
             /\ \A t \in trace[r].start .. trace[r].arrival :
                  PositionAt(paths'[r], t) = trace[r].at[t]
  <2>1. paths'[r] \in {trace[r], paths[r]}
    BY <1>4
  <2>. QED  BY <1>2, <2>1, DrivenIsOnCourse
<1>6. /\ goals \in [Driven -> Cells] /\ DOMAIN trace = Driven
      /\ \A r \in Movers : trace[r].arrival = clock /\ Goal(paths[r]) = goals[r]
  BY <1>2 DEF CourseInv, RoutesAreDriven
<1>7. RoutesAreDriven'
  <2>1. \A r \in Driven : Here(r)' = Here(r)
    BY <1>2 DEF Here
  <2>2. \A r \in Driven' :
          /\ IsTimedPath(trace'[r])
          /\ IsWalk(paths'[r])
          /\ position'[r] = Here(r)'
          /\ paths'[r].start = trace'[r].start
          /\ \A t \in trace'[r].start .. trace'[r].arrival :
               PositionAt(paths'[r], t) = trace'[r].at[t]
    BY <1>2, <1>4, <1>5, <2>1
  <2>3. \A r \in Movers' : trace'[r].arrival = clock' /\ Goal(paths'[r]) = goals'[r]
    BY <1>2, <1>4, <1>6
  <2>. QED  BY <1>2, <1>4, <1>6, <2>2, <2>3 DEF RoutesAreDriven
<1>8. TypeOK'
  <2>1. status' \in [Robots -> {"IDLE", "ASSIGNED", "MOVING", "OFFLINE"}]
    BY <1>3 DEF CourseInv, TypeOK
  <2>. QED  BY <1>2, <1>3, <1>4, <1>5, <1>6, <2>1 DEF CourseInv, TypeOK, Modes
<1>9. OnlyFailedAreOffline'
  <2>1. status \in [Robots -> {"IDLE", "ASSIGNED", "MOVING", "OFFLINE"}]
        /\ \A r \in Robots : status[r] = "OFFLINE" => r \in offline
    BY DEF CourseInv, TypeOK, OnlyFailedAreOffline
  <2>. QED  BY <1>3, <1>4, <2>1 DEF OnlyFailedAreOffline
<1>. QED  BY <1>2, <1>3, <1>4, <1>7, <1>8, <1>9
          DEF CourseInv, BeforeTheStart, HandlingIsSound, ScheduleIsKnown

(* A task that found a robot: its pointers are typed, and the robot is one *)
(* that did not fail.                                                      *)
LEMMA TakersAreSound ==
  ASSUME CourseInv, NEW r \in Robots, Cheapest(r, released)
  PROVE  /\ released \in Tasks /\ Pickup[released] \in Cells
         /\ r \notin offline /\ status[r] = "IDLE" /\ holds[r] = NoTask
<1>1. r \notin offline /\ IsAvailable(r) /\ <<r, released>> \in CanCarry
  BY DEF Cheapest, Candidates
<1>2. released \in Tasks
  BY <1>1
<1>. QED  BY <1>1, <1>2 DEF IsAvailable

LEMMA CommitsAreTyped ==
  ASSUME CourseInv, NEW r \in Robots, Cheapest(r, released), CommitTo(r)
  PROVE  /\ status' \in [Robots -> {"IDLE", "ASSIGNED", "MOVING", "OFFLINE"}]
         /\ holds' \in [Robots -> Tasks \cup {NoTask}]
         /\ taskStatus' \in [Tasks -> {"PENDING", "ASSIGNED", "IN_PROGRESS", "COMPLETED",
                                       "FAILED"}]
         /\ assignedTo' \in [Tasks -> Robots \cup {NoRobot}]
         /\ \A q \in Robots : status'[q] = "OFFLINE" => q \in offline
<1>1. released \in Tasks
  BY TakersAreSound
<1>2. /\ status \in [Robots -> {"IDLE", "ASSIGNED", "MOVING", "OFFLINE"}]
      /\ holds \in [Robots -> Tasks \cup {NoTask}]
      /\ taskStatus \in [Tasks -> {"PENDING", "ASSIGNED", "IN_PROGRESS", "COMPLETED",
                                   "FAILED"}]
      /\ assignedTo \in [Tasks -> Robots \cup {NoRobot}]
      /\ \A q \in Robots : status[q] = "OFFLINE" => q \in offline
  BY DEF CourseInv, TypeOK, OnlyFailedAreOffline
<1>. QED  BY <1>1, <1>2 DEF CommitTo

(* The newcomer is under control from now on, with nothing driven yet.     *)
LEMMA JoiningKeepsCourse ==
  ASSUME CourseInv, mode = "reassigning", mode' = "rerouting", NEW r \in Robots,
         r \notin offline, released \in Tasks, NEW p,
         IsTimedPath(p), IsWalk(p), p.start = clock, p.at[clock] = position[r],
         Goal(p) = Pickup[released], Join(r, p),
         UNCHANGED <<clock, offline, stopped, position>>
  PROVE  /\ Driven' = Driven \cup {r}
         /\ goals' \in [Driven' -> Cells] /\ DOMAIN trace' = Driven'
         /\ \A q \in Driven' : IsTimedPath(paths'[q]) /\ IsTimedPath(trace'[q])
         /\ RoutesAreDriven'
<1>1. /\ Underway /\ clock \in Times /\ position[r] \in Cells /\ Pickup[released] \in Cells
      /\ clock \in Nat
  BY DEF Underway, CourseInv, TypeOK, Times
<1>2. /\ Driven' = Driven \cup {r}
      /\ DOMAIN goals' = Driven' /\ DOMAIN trace' = Driven'
      /\ paths'[r] = p /\ goals'[r] = Pickup[released]
      /\ trace'[r] = StandAt(position[r], clock)
      /\ \A q \in Driven : q # r => /\ paths'[q] = paths[q] /\ goals'[q] = goals[q]
                                    /\ trace'[q] = trace[q]
  BY DEF Join, Driven
<1>3. /\ IsTimedPath(trace'[r]) /\ Goal(trace'[r]) = position[r]
      /\ trace'[r].start = clock /\ trace'[r].arrival = clock
      /\ trace'[r].at[clock] = position[r]
  BY <1>1, <1>2, StandingIsRoute
<1>4. PositionAt(p, clock) = position[r]
  BY <1>1, PositionOfPath
<1>5. /\ goals \in [Driven -> Cells]
      /\ \A q \in Movers : trace[q].arrival = clock /\ Goal(paths[q]) = goals[q]
  BY <1>1 DEF CourseInv, RoutesAreDriven
<1>6. goals' \in [Driven' -> Cells]
  <2>1. goals' = [q \in Driven' |-> goals'[q]]
    BY <1>2 DEF Join, Driven
  <2>2. \A q \in Driven' : goals'[q] \in Cells
    BY <1>1, <1>2, <1>5
  <2>. QED  BY <2>1, <2>2
<1>7. ASSUME NEW q \in Driven'
      PROVE  /\ IsTimedPath(trace'[q])
             /\ IsTimedPath(paths'[q])
             /\ IsWalk(paths'[q])
             /\ position'[q] = Here(q)'
             /\ paths'[q].start = trace'[q].start
             /\ \A t \in trace'[q].start .. trace'[q].arrival :
                  PositionAt(paths'[q], t) = trace'[q].at[t]
  <2>1. CASE q = r
    <3>1. \A t \in trace'[q].start .. trace'[q].arrival : t = clock
      BY <1>1, <1>3, <2>1
    <3>. QED  BY <1>2, <1>3, <1>4, <2>1, <3>1 DEF Here
  <2>2. CASE q # r
    <3>1. q \in Driven /\ paths'[q] = paths[q] /\ trace'[q] = trace[q]
      BY <1>2, <2>2
    <3>2. Here(q)' = Here(q)
      BY <3>1 DEF Here
    <3>. QED  BY <1>1, <3>1, <3>2, DrivenIsOnCourse
  <2>. QED  BY <2>1, <2>2
<1>8. ASSUME NEW q \in Movers'
      PROVE  trace'[q].arrival = clock /\ Goal(paths'[q]) = goals'[q]
  <2>1. CASE q = r
    BY <1>2, <1>3, <2>1
  <2>2. CASE q # r
    <3>1. q \in Movers
      BY <1>2, <2>2 DEF Movers, LiveRobots
    <3>. QED  BY <1>2, <1>5, <2>2, <3>1 DEF Movers, LiveRobots
  <2>. QED  BY <2>1, <2>2
<1>. QED  BY <1>2, <1>6, <1>7, <1>8 DEF RoutesAreDriven

LEMMA OffersKeepCourse ==
  ASSUME CourseInv, RecoverTask PROVE CourseInv'
<1>1. /\ mode = "reassigning" /\ mode' \in {"rerouting", "raised"} /\ released' = NoTask
      /\ Underway
      /\ UNCHANGED <<failures, drops, limit, clock, offline, stopped, position, battery,
                     blocked, failing, queue, future, result>>
  BY DEF RecoverTask, NobodyTakesIt, RaiseAfterCommit, OfferTo, scheduleVars, Underway
<1> DEFINE Typed == /\ status' \in [Robots -> {"IDLE", "ASSIGNED", "MOVING", "OFFLINE"}]
                    /\ holds' \in [Robots -> Tasks \cup {NoTask}]
                    /\ taskStatus' \in [Tasks -> {"PENDING", "ASSIGNED", "IN_PROGRESS",
                                                  "COMPLETED", "FAILED"}]
                    /\ assignedTo' \in [Tasks -> Robots \cup {NoRobot}]
                    /\ \A q \in Robots : status'[q] = "OFFLINE" => q \in offline
           Tracked == /\ Driven \subseteq Driven' /\ Driven' \subseteq Robots
                      /\ goals' \in [Driven' -> Cells] /\ DOMAIN trace' = Driven'
                      /\ \A q \in Driven' : IsTimedPath(paths'[q]) /\ IsTimedPath(trace'[q])
                      /\ RoutesAreDriven'
<1>2. /\ status \in [Robots -> {"IDLE", "ASSIGNED", "MOVING", "OFFLINE"}]
      /\ holds \in [Robots -> Tasks \cup {NoTask}]
      /\ taskStatus \in [Tasks -> {"PENDING", "ASSIGNED", "IN_PROGRESS", "COMPLETED",
                                   "FAILED"}]
      /\ assignedTo \in [Tasks -> Robots \cup {NoRobot}]
      /\ \A q \in Robots : status[q] = "OFFLINE" => q \in offline
      /\ safeStop \in BOOLEAN /\ Driven \subseteq Robots
  BY DEF CourseInv, TypeOK, OnlyFailedAreOffline
<1>3. ASSUME UNCHANGED <<paths, goals, trace>> PROVE Tracked
  <2>1. DOMAIN paths' = Driven /\ stopped \subseteq stopped'
        /\ \A r \in Driven : paths'[r] = paths[r]
    BY <1>1, <1>3 DEF Driven
  <2>2. Driven' = Driven /\ (\A r \in Driven : IsTimedPath(paths'[r])) /\ RoutesAreDriven'
    BY <1>1, <1>3, <2>1, RepairsKeepCourse
  <2>. QED  BY <1>1, <1>2, <1>3, <2>2 DEF CourseInv, RoutesAreDriven
<1>4. Typed /\ Tracked /\ safeStop' \in BOOLEAN
  <2>1. CASE NobodyTakesIt
    <3>1. Typed
      BY <1>2, <2>1 DEF NobodyTakesIt, taskVars
    <3>2. UNCHANGED <<paths, goals, trace>> /\ safeStop' \in BOOLEAN
      BY <2>1 DEF NobodyTakesIt
    <3>. QED  BY <1>3, <3>1, <3>2
  <2>2. CASE \E r \in Robots : Cheapest(r, released) /\ RaiseAfterCommit(r)
    <3>1. PICK r \in Robots : Cheapest(r, released) /\ RaiseAfterCommit(r)
      BY <2>2
    <3>2. CommitTo(r) /\ UNCHANGED <<paths, goals, trace, safeStop>>
      BY <3>1 DEF RaiseAfterCommit
    <3>3. Typed
      BY <3>1, <3>2, CommitsAreTyped
    <3>. QED  BY <1>2, <1>3, <3>2, <3>3
  <2>3. CASE \E r \in Robots : Cheapest(r, released) /\ OfferTo(r)
    <3>1. PICK r \in Robots : Cheapest(r, released) /\ OfferTo(r)
      BY <2>3
    <3>2. /\ released \in Tasks /\ Pickup[released] \in Cells /\ r \notin offline
          /\ position[r] \in Cells /\ clock \in Times
      BY <3>1, TakersAreSound DEF CourseInv, TypeOK
    <3>3. CASE UndoCommit(r)
      <4>1. Typed
        BY <1>2, <3>3 DEF UndoCommit
      <4>. QED  BY <1>3, <3>3, <4>1 DEF UndoCommit
    <3>4. CASE \E p \in Replans(FutureTable({r}), r, position[r], Pickup[released], clock,
                                blocked) :
                 CommitTo(r) /\ Join(r, p) /\ UNCHANGED safeStop
      <4>1. PICK p \in Replans(FutureTable({r}), r, position[r], Pickup[released], clock,
                               blocked) :
              CommitTo(r) /\ Join(r, p) /\ UNCHANGED safeStop
        BY <3>4
      <4> DEFINE from == position[r]  goal == Pickup[released]  tbl == FutureTable({r})
      <4>2. /\ from \in Cells /\ goal \in Cells /\ clock \in Times
            /\ p \in Replans(tbl, r, from, goal, clock, blocked)
        BY <3>2, <4>1
      <4> HIDE DEF from, goal, tbl
      <4>3. IsTimedPath(p) /\ IsWalk(p) /\ p.start = clock /\ p.at[clock] = from /\ Goal(p) = goal
        BY <4>2, ReplansAreRoutes
      <4>4. mode' = "rerouting"
        BY <3>1 DEF OfferTo
      <4>5. Tracked
        <5>1. /\ Driven' = Driven \cup {r}
              /\ goals' \in [Driven' -> Cells] /\ DOMAIN trace' = Driven'
              /\ \A q \in Driven' : IsTimedPath(paths'[q]) /\ IsTimedPath(trace'[q])
              /\ RoutesAreDriven'
          BY <1>1, <3>2, <4>1, <4>3, <4>4, JoiningKeepsCourse DEF from, goal
        <5>. QED  BY <1>2, <5>1
      <4>6. Typed
        BY <3>1, <4>1, CommitsAreTyped
      <4>. QED  BY <1>2, <4>1, <4>5, <4>6
    <3>. QED  BY <3>1, <3>3, <3>4 DEF OfferTo
  <2>. QED  BY <2>1, <2>2, <2>3 DEF RecoverTask
<1> HIDE DEF Typed, Tracked
<1>5. TypeOK'
  BY <1>1, <1>4 DEF CourseInv, TypeOK, Modes, Typed, Tracked
<1>6. OnlyFailedAreOffline' /\ RoutesAreDriven'
  BY <1>1, <1>4 DEF Typed, Tracked, OnlyFailedAreOffline
<1>. QED  BY <1>1, <1>5, <1>6 DEF CourseInv, BeforeTheStart, HandlingIsSound, ScheduleIsKnown

(* Where a failed robot is, it failed.                                     *)
LEMMA FailedCellIsItsPlace ==
  ASSUME CourseInv, Underway PROVE FailedCell = position[failing]
BY DrivenIsOnCourse DEF FailedCell

LEMMA ReroutesKeepCourse ==
  ASSUME CourseInv, RerouteOthers PROVE CourseInv'
<1>1. /\ mode = "rerouting" /\ Underway /\ failing' = NoRobot /\ failing \in offline
      /\ \/ CutOff = {} /\ mode' = "running" /\ UNCHANGED <<queue, future>>
         \/ CutOff # {} /\ BeginReplanning(CutOff)
      /\ UNCHANGED <<failures, drops, limit, clock, paths, goals, trace, offline, stopped,
                     position, battery, status, holds, taskStatus, assignedTo, blocked,
                     released, safeStop, result, enabled>>
  BY DEF RerouteOthers, Underway, CourseInv, HandlingIsSound, scheduleVars, planVars,
         worldVars
<1>2. CutOff \subseteq Movers
      /\ \A r \in CutOff : RouteTouchesCell(paths[r], position[failing], clock)
  BY <1>1, FailedCellIsItsPlace DEF CutOff
<1>3. /\ queue' \subseteq Driven /\ future' \in Tables
      /\ mode' \in {"running", "raised", "replanning"}
      /\ mode' = "replanning" => queue' = CutOff /\ CutOff # {}
  <2>1. CASE CutOff = {} /\ mode' = "running" /\ UNCHANGED <<queue, future>>
    BY <2>1 DEF CourseInv, TypeOK
  <2>2. CASE CutOff # {} /\ BeginReplanning(CutOff)
    BY <1>2, <2>2, BeginningKeepsCourse
  <2>. QED  BY <1>1, <2>1, <2>2
<1>4. Driven' = Driven /\ Movers' = Movers /\ DOMAIN paths' = Driven
  BY <1>1 DEF Driven, Movers, LiveRobots
<1>5. RoutesAreDriven'
  BY <1>1, <1>3, <1>4, RepairsKeepCourse
<1>6. TypeOK'
  <2>1. goals \in [Driven -> Cells] /\ DOMAIN trace = Driven
        /\ \A q \in Driven : IsTimedPath(trace[q])
    BY <1>1 DEF CourseInv, RoutesAreDriven
  <2>. QED  BY <1>1, <1>3, <1>4, <2>1 DEF CourseInv, TypeOK, Modes
<1>7. HandlingIsSound'
  BY <1>1, <1>2, <1>3, <1>4 DEF HandlingIsSound
<1>. QED  BY <1>1, <1>3, <1>5, <1>6, <1>7
          DEF CourseInv, BeforeTheStart, OnlyFailedAreOffline, ScheduleIsKnown

(* Somebody is on the way, so the horizon is not reached.                  *)
LEMMA TimeIsLeft ==
  ASSUME CourseInv, mode = "running", ~ AllDone
  PROVE  clock \in Nat /\ clock < Horizon /\ clock + 1 \in Times
<1>1. PICK r \in Movers : position[r] # goals[r]
  BY DEF AllDone
<1>2. Underway
  BY DEF Underway
<1>3. /\ IsTimedPath(paths[r]) /\ clock \in Nat /\ clock <= Horizon
      /\ position[r] = PositionAt(paths[r], clock) /\ Goal(paths[r]) = goals[r]
  BY <1>2, MoverIsOnCourse
<1>4. ~ (clock >= paths[r].arrival)
  BY <1>1, <1>3, PositionOfPath
<1>5. paths[r].arrival \in Nat /\ paths[r].arrival <= Horizon /\ Horizon \in Nat
  BY <1>3, PathNumbers
<1>. QED  BY <1>3, <1>4, <1>5 DEF Times

(* What a joint step does to the robots it moves.                          *)
LEMMA StepsFollowRoutes ==
  ASSUME CourseInv, CommitStep
  PROVE  /\ mode = "running" /\ mode' = "running" /\ Underway
         /\ clock \in Nat /\ clock < Horizon /\ clock' = clock + 1 /\ clock + 1 \in Times
         /\ clock < limit
         /\ Driven' = Driven /\ Movers' = Movers
         /\ UNCHANGED <<enabled, failures, drops, limit, paths, goals, offline, stopped,
                        holds, taskStatus, assignedTo, blocked, failing, released, queue,
                        future, safeStop, result>>
         /\ \A r \in Movers : /\ position[r] = From(r) /\ position'[r] = To(r)
                              /\ To(r) \in Cells \ blocked
                              /\ \A o \in offline : To(r) # position[o]
                              /\ trace'[r] = Extend(trace[r], To(r), clock + 1)
         /\ \A q, r \in Movers : q # r =>
              To(q) # To(r) /\ ~ (From(q) = To(r) /\ From(r) = To(q))
         /\ \A r \in Robots \ Movers : position'[r] = position[r]
         /\ \A r \in Driven \ Movers : trace'[r] = trace[r]
         /\ DOMAIN trace' = Driven /\ position' \in [Robots -> Cells]
<1> DEFINE moving == {r \in Movers : From(r) # To(r)}
<1>1. /\ mode = "running" /\ mode' = "running" /\ ~ AllDone /\ clock < limit
      /\ StepIsValid /\ clock' = clock + 1
      /\ position' = [r \in Robots |-> IF r \in moving THEN To(r) ELSE position[r]]
      /\ trace' = [r \in Driven |-> IF r \in Movers
                                    THEN Extend(trace[r], To(r), clock + 1)
                                    ELSE trace[r]]
      /\ UNCHANGED <<enabled, failures, drops, limit, paths, goals, offline, stopped,
                     holds, taskStatus, assignedTo, blocked, failing, released, queue,
                     future, safeStop, result>>
  BY DEF CommitStep, MayDrive, scheduleVars, handlingVars
<1>2. /\ clock \in Nat /\ clock < Horizon /\ clock + 1 \in Times /\ Underway
      /\ Driven' = Driven /\ Movers' = Movers
  BY <1>1, TimeIsLeft DEF Underway, Driven, Movers, LiveRobots
<1>3. ASSUME NEW r \in Movers
      PROVE  /\ position[r] = From(r) /\ To(r) \in Cells \ blocked
             /\ \A o \in offline : To(r) # position[o]
             /\ r \in Robots /\ r \in Driven
             /\ trace'[r] = Extend(trace[r], To(r), clock + 1)
             /\ position'[r] = To(r)
  <2>1. position[r] = From(r) /\ To(r) \in Cells \ blocked
        /\ \A o \in offline : To(r) # position[o]
    BY <1>1 DEF StepIsValid, Feasible
  <2>2. r \in Robots /\ r \in Driven
    BY <1>2, MoverIsOnCourse
  <2>3. trace'[r] = Extend(trace[r], To(r), clock + 1)
    BY <1>1, <2>2
  <2>4. position'[r] = To(r)
    BY <1>1, <2>1, <2>2
  <2>. QED  BY <2>1, <2>2, <2>3, <2>4
<1>4. \A q, r \in Movers : q # r =>
        To(q) # To(r) /\ ~ (From(q) = To(r) /\ From(r) = To(q))
  BY <1>1 DEF StepIsValid
<1>5. /\ \A r \in Robots \ Movers : position'[r] = position[r]
      /\ \A r \in Driven \ Movers : trace'[r] = trace[r]
      /\ DOMAIN trace' = Driven
  BY <1>1
<1>6. position' \in [Robots -> Cells]
  <2>1. position \in [Robots -> Cells]
    BY DEF CourseInv, TypeOK
  <2>. QED  BY <1>1, <1>3, <2>1
<1>. QED  BY <1>1, <1>2, <1>3, <1>4, <1>5, <1>6

LEMMA StepsKeepCourse ==
  ASSUME CourseInv, CommitStep PROVE CourseInv'
<1>1. /\ mode = "running" /\ mode' = "running" /\ Underway /\ Underway'
      /\ clock \in Nat /\ clock < Horizon /\ clock' = clock + 1 /\ clock + 1 \in Times
      /\ Driven' = Driven /\ Movers' = Movers
      /\ UNCHANGED <<enabled, failures, drops, limit, paths, goals, offline, stopped,
                     holds, taskStatus, assignedTo, blocked, failing, released, queue,
                     future, safeStop, result>>
      /\ \A r \in Movers : /\ position[r] = From(r) /\ position'[r] = To(r)
                           /\ To(r) \in Cells \ blocked
                           /\ trace'[r] = Extend(trace[r], To(r), clock + 1)
      /\ \A r \in Robots \ Movers : position'[r] = position[r]
      /\ \A r \in Driven \ Movers : trace'[r] = trace[r]
      /\ DOMAIN trace' = Driven /\ position' \in [Robots -> Cells]
  BY StepsFollowRoutes DEF Underway
<1>2. ASSUME NEW r \in Driven
      PROVE  /\ r \in Movers => trace'[r].arrival = clock'
             /\ IsTimedPath(trace'[r])
             /\ IsWalk(paths'[r])
             /\ position'[r] = Here(r)'
             /\ paths'[r].start = trace'[r].start
             /\ \A t \in trace'[r].start .. trace'[r].arrival :
                  PositionAt(paths'[r], t) = trace'[r].at[t]
  <2>1. /\ r \in Robots
        /\ IsTimedPath(paths[r]) /\ IsWalk(paths[r])
        /\ IsTimedPath(trace[r]) /\ trace[r].start = paths[r].start
        /\ position[r] = Here(r)
        /\ \A t \in trace[r].start .. trace[r].arrival :
             PositionAt(paths[r], t) = trace[r].at[t]
    BY <1>1, DrivenIsOnCourse
  <2>2. CASE r \in Movers
    <3>1. trace[r].arrival = clock
      BY <1>1, <2>2, MoverIsOnCourse
    <3>2. /\ IsTimedPath(trace'[r]) /\ trace'[r].start = trace[r].start
          /\ trace'[r].arrival = clock + 1 /\ trace'[r].at[clock+1] = To(r)
          /\ Goal(trace'[r]) = To(r)
          /\ \A t \in trace[r].start .. trace[r].arrival : trace'[r].at[t] = trace[r].at[t]
      <4>1. trace'[r] = Extend(trace[r], To(r), trace[r].arrival + 1) /\ To(r) \in Cells
        BY <1>1, <2>2, <3>1
      <4>2. trace[r].arrival + 1 \in Times
        BY <1>1, <3>1
      <4>. QED  BY <2>1, <3>1, <4>1, <4>2, ExtendIsRoute
    <3>3. \A t \in trace'[r].start .. trace'[r].arrival :
            t = clock + 1 \/ t \in trace[r].start .. trace[r].arrival
      <4>1. trace[r].start \in Nat
        BY <2>1, PathNumbers
      <4>. QED  BY <1>1, <3>1, <3>2, <4>1
    <3>4. PositionAt(paths[r], clock + 1) = To(r)
      BY DEF To
    <3>5. \A t \in trace'[r].start .. trace'[r].arrival :
            PositionAt(paths'[r], t) = trace'[r].at[t]
      BY <1>1, <2>1, <3>2, <3>3, <3>4
    <3>. QED  BY <1>1, <2>1, <2>2, <3>2, <3>5 DEF Here
  <2>3. CASE r \notin Movers
    <3>1. trace'[r] = trace[r] /\ position'[r] = position[r] /\ paths' = paths
      BY <1>1, <2>1, <2>3
    <3>2. Here(r)' = Here(r)
      BY <3>1 DEF Here
    <3>. QED  BY <2>1, <2>3, <3>1, <3>2
  <2>. QED  BY <2>2, <2>3
<1>3. /\ goals \in [Driven -> Cells]
      /\ \A r \in Movers : r \in Driven /\ Goal(paths[r]) = goals[r]
  BY <1>1 DEF CourseInv, RoutesAreDriven, Movers, LiveRobots
<1>4. RoutesAreDriven'
  BY <1>1, <1>2, <1>3 DEF RoutesAreDriven
<1>5. battery' \in [Robots -> Nat] /\ OnlyFailedAreOffline'
      /\ status' \in [Robots -> {"IDLE", "ASSIGNED", "MOVING", "OFFLINE"}]
  <2> DEFINE moving == {r \in Movers : From(r) # To(r)}
  <2>1. /\ battery' = [r \in Robots |-> IF r \in moving THEN battery[r] - Drain
                                        ELSE battery[r]]
        /\ status' = [r \in Robots |-> IF r \in moving THEN "MOVING" ELSE status[r]]
        /\ \A r \in moving : battery[r] >= Drain
    BY DEF CommitStep, StepIsValid, Feasible
  <2>2. /\ battery \in [Robots -> Nat] /\ Drain \in Nat
        /\ status \in [Robots -> {"IDLE", "ASSIGNED", "MOVING", "OFFLINE"}]
        /\ \A r \in Robots : status[r] = "OFFLINE" => r \in offline
    BY DEF CourseInv, TypeOK, OnlyFailedAreOffline
  <2> HIDE DEF moving
  <2>3. battery' \in [Robots -> Nat]
    BY <2>1, <2>2
  <2>4. status' \in [Robots -> {"IDLE", "ASSIGNED", "MOVING", "OFFLINE"}]
    BY <2>1, <2>2
  <2>. QED  BY <1>1, <2>1, <2>2, <2>3, <2>4 DEF OnlyFailedAreOffline
<1>6. TypeOK'
  BY <1>1, <1>2, <1>3, <1>5 DEF CourseInv, TypeOK, Modes
<1>. QED  BY <1>1, <1>4, <1>5, <1>6
          DEF CourseInv, BeforeTheStart, HandlingIsSound, ScheduleIsKnown

LEMMA StutteringKeepsCourse ==
  ASSUME CourseInv, UNCHANGED vars PROVE CourseInv'
<1>1. UNCHANGED <<enabled, failures, drops, limit, mode, clock, paths, goals, trace, offline,
                  stopped, position, battery, status, holds, taskStatus, assignedTo, blocked,
                  failing, released, queue, future, safeStop, result>>
  BY DEF vars, scheduleVars, planVars, worldVars, handlingVars
<1>2. Driven' = Driven /\ Movers' = Movers /\ Underway' = Underway
  BY <1>1 DEF Driven, Movers, LiveRobots, Underway
<1>3. TypeOK'
  BY <1>1, <1>2 DEF CourseInv, TypeOK
<1>4. RoutesAreDriven'
  BY <1>1, <1>2 DEF CourseInv, RoutesAreDriven, Here
<1>. QED  BY <1>1, <1>2, <1>3, <1>4
          DEF CourseInv, BeforeTheStart, HandlingIsSound, OnlyFailedAreOffline,
              ScheduleIsKnown

LEMMA NextCourse == CourseInv /\ [Next]_vars => CourseInv'
BY RefusalsKeepCourse, StartKeepsCourse, ObstaclesKeepCourse, FailuresKeepCourse,
   OffersKeepCourse, ReroutesKeepCourse, ReplanKeepsCourse, HaltKeepsCourse,
   StepsKeepCourse, FinaliseKeepsCourse, StutteringKeepsCourse
   DEF Next, Preflight, HandleEvent

(* Whatever is scheduled and however often a route is repaired, a robot is *)
(* where its route has it, what it drove is kept, and the route that it is *)
(* to drive ends at its goal (dynamic_replanner.py:3-12).                  *)
THEOREM RoutesStayOnCourse == Spec => []CourseInv
<1>1. SomeRun => CourseInv
  BY InitCourse
<1>2. CourseInv /\ [Next]_vars => CourseInv'
  BY NextCourse
<1>. QED  BY <1>1, <1>2, PTL DEF Spec

(* The types of the run and that routes are kept, as a run checks them.    *)
LEMMA CourseIsKept == CourseInv => TypeOK /\ OnCourse
<1> SUFFICES ASSUME CourseInv, mode \notin {"idle", "done"}, NEW r \in Driven
             PROVE  /\ position[r] = Here(r)
                    /\ r \in Movers => trace[r].arrival = clock
                    /\ paths[r].start = trace[r].start
                    /\ \A t \in trace[r].start .. trace[r].arrival :
                         PositionAt(paths[r], t) = trace[r].at[t]
  BY DEF OnCourse, CourseInv
<1>1. Underway
  BY DEF Underway
<1>. QED  BY <1>1, DrivenIsOnCourse, MoverIsOnCourse

-----------------------------------------------------------------------------
(* Robots and tasks.                                                       *)

LEMMA InitTasks == SomeRun => TaskInv
<1> SUFFICES ASSUME SomeRun PROVE TaskInv
  OBVIOUS
<1>1. PICK s \in Scenarios : SomeAssignment(s.owners, s.progress)
  BY DEF SomeRun
<1>2. /\ s.owners \subseteq Robots \cup {NoRobot}
      /\ s.progress \subseteq {"ASSIGNED", "IN_PROGRESS", "COMPLETED"}
  BY <1>1, ScenarioAssumption
<1>3. PICK given \in [Tasks -> s.owners] :
        /\ \A t, u \in Tasks : t # u /\ given[t] = given[u] => given[t] = NoRobot
        /\ assignedTo = given
        /\ \E made \in [Tasks -> s.progress] :
             taskStatus = [t \in Tasks |-> IF given[t] = NoRobot THEN "PENDING" ELSE made[t]]
        /\ holds = [r \in Robots |-> IF \E t \in Tasks : given[t] = r
                                     THEN CHOOSE t \in Tasks : given[t] = r
                                     ELSE NoTask]
  BY <1>1 DEF SomeAssignment
<1>4. PICK made \in [Tasks -> s.progress] :
        taskStatus = [t \in Tasks |-> IF given[t] = NoRobot THEN "PENDING" ELSE made[t]]
  BY <1>3
<1>5. mode = "idle" /\ offline = {}
  BY DEF SomeRun, Init
<1>6. ASSUME NEW t \in Tasks, given[t] # NoRobot
      PROVE  given[t] \in Robots /\ holds[given[t]] = t /\ taskStatus[t] # "PENDING"
  <2>1. given[t] \in Robots
    BY <1>2, <1>6
  <2>2. \A u \in Tasks : given[u] = given[t] => u = t
    BY <1>3, <1>6
  <2>3. holds[given[t]] = t
    BY <1>3, <2>1, <2>2
  <2>4. taskStatus[t] # "PENDING"
    BY <1>2, <1>4, <1>6
  <2>. QED  BY <2>1, <2>3, <2>4
<1>7. ASSUME NEW t \in Tasks, taskStatus[t] = "ASSIGNED"
      PROVE  given[t] # NoRobot
  BY <1>4, <1>7
<1>8. ASSUME NEW r \in Robots, holds[r] # NoTask
      PROVE  holds[r] \in Tasks /\ given[holds[r]] = r
  BY <1>3, <1>8
<1>9. ASSUME NEW r \in Robots, holds[r] # NoTask
      PROVE  assignedTo[holds[r]] = r /\ taskStatus[holds[r]] # "PENDING"
  <2>1. given[holds[r]] # NoRobot
    BY <1>8, <1>9
  <2>. QED  BY <1>3, <1>6, <1>8, <1>9, <2>1
<1>. QED  BY <1>3, <1>5, <1>6, <1>7, <1>9 DEF TaskInv

LEMMA FailuresKeepTasks ==
  ASSUME CourseInv, TaskInv, RecoverFailure PROVE TaskInv'
<1>1. PICK e \in failures :
        /\ offline' = offline \cup {e[2]}
        /\ FailWithoutRecovery(e[2]) \/ FailAndRelease(e[2])
  BY DEF RecoverFailure
<1> DEFINE f == e[2]
<1>2. f \in Robots /\ enabled' = enabled /\ mode = "running"
  BY <1>1 DEF RecoverFailure, CourseInv, ScheduleIsKnown
<1>3. /\ holds \in [Robots -> Tasks \cup {NoTask}]
      /\ taskStatus \in [Tasks -> {"PENDING", "ASSIGNED", "IN_PROGRESS", "COMPLETED",
                                   "FAILED"}]
      /\ assignedTo \in [Tasks -> Robots \cup {NoRobot}]
  BY DEF CourseInv, TypeOK
<1>4. CASE FailWithoutRecovery(f)
  BY <1>1, <1>2, <1>4 DEF FailWithoutRecovery, TaskInv
<1>5. CASE FailAndRelease(f)
  <2> DEFINE t == holds[f]
             before == IF t \in Tasks THEN taskStatus[t] ELSE "none"
             toPool == before = "ASSIGNED"
  <2>1. /\ holds' = [holds EXCEPT ![f] =
                       IF before \in {"ASSIGNED", "IN_PROGRESS"} THEN NoTask ELSE @]
        /\ taskStatus' = [k \in Tasks |->
                            IF k # t THEN taskStatus[k]
                            ELSE CASE toPool -> "PENDING"
                                   [] before = "IN_PROGRESS" -> "FAILED"
                                   [] OTHER -> before]
        /\ assignedTo' = [k \in Tasks |-> IF k = t /\ toPool THEN NoRobot
                                          ELSE assignedTo[k]]
        /\ released' = IF toPool THEN t ELSE NoTask
        /\ mode' = IF released' = NoTask THEN "rerouting" ELSE "reassigning"
    BY <1>5 DEF FailAndRelease, ReleaseTask
  <2>2. /\ t \in Tasks \cup {NoTask}
        /\ t \in Tasks => before = taskStatus[t]
        /\ toPool => t \in Tasks /\ t # NoTask
    BY <1>2, <1>3
  <2> HIDE DEF before, toPool
  <2>3. ASSUME NEW k \in Tasks, k # t
        PROVE  taskStatus'[k] = taskStatus[k] /\ assignedTo'[k] = assignedTo[k]
    BY <2>1, <2>3
  <2>4. ASSUME NEW r \in Robots, r # f PROVE holds'[r] = holds[r]
    BY <1>3, <2>1, <2>4
  <2>5. holds'[f] = IF before \in {"ASSIGNED", "IN_PROGRESS"} THEN NoTask ELSE t
    BY <1>2, <1>3, <2>1
  <2>6. t \in Tasks =>
          /\ toPool => taskStatus'[t] = "PENDING" /\ assignedTo'[t] = NoRobot
          /\ taskStatus'[t] # "ASSIGNED"
          /\ before \notin {"ASSIGNED", "IN_PROGRESS"} =>
               taskStatus'[t] = taskStatus[t] /\ assignedTo'[t] = assignedTo[t]
    <3>1. SUFFICES ASSUME t \in Tasks
                   PROVE  /\ toPool => taskStatus'[t] = "PENDING" /\ assignedTo'[t] = NoRobot
                          /\ taskStatus'[t] # "ASSIGNED"
                          /\ before \notin {"ASSIGNED", "IN_PROGRESS"} =>
                               taskStatus'[t] = taskStatus[t] /\ assignedTo'[t] = assignedTo[t]
      OBVIOUS
    <3>2. /\ taskStatus'[t] = CASE toPool -> "PENDING"
                                [] before = "IN_PROGRESS" -> "FAILED"
                                [] OTHER -> before
          /\ assignedTo'[t] = IF toPool THEN NoRobot ELSE assignedTo[t]
      BY <2>1, <3>1
    <3>. QED  BY <2>2, <3>1, <3>2 DEF toPool
  <2> HIDE DEF t
  <2>7. ASSUME NEW k \in Tasks, taskStatus'[k] = "ASSIGNED"
        PROVE  /\ assignedTo'[k] \in Robots
               /\ holds'[assignedTo'[k]] = k
               /\ enabled => assignedTo'[k] \notin offline'
    <3>1. k # t
      BY <2>6, <2>7
    <3>2. /\ taskStatus[k] = "ASSIGNED" /\ assignedTo'[k] = assignedTo[k]
          /\ assignedTo[k] \in Robots /\ holds[assignedTo[k]] = k
          /\ enabled => assignedTo[k] \notin offline
      BY <2>3, <2>7, <3>1 DEF TaskInv
    <3>3. assignedTo[k] # f
      BY <3>1, <3>2 DEF t
    <3>. QED  BY <1>1, <2>4, <3>2, <3>3
  <2>8. ASSUME NEW r \in Robots, holds'[r] # NoTask
        PROVE  assignedTo'[holds'[r]] = r /\ taskStatus'[holds'[r]] # "PENDING"
    <3>1. CASE r = f
      <4>1. /\ before \notin {"ASSIGNED", "IN_PROGRESS"} /\ holds'[f] = t /\ t # NoTask
        BY <2>5, <2>8, <3>1
      <4>2. t \in Tasks /\ taskStatus'[t] = taskStatus[t] /\ assignedTo'[t] = assignedTo[t]
        BY <2>2, <2>6, <4>1
      <4>3. assignedTo[t] = f /\ taskStatus[t] # "PENDING"
        BY <1>2, <4>1 DEF TaskInv, t
      <4>. QED  BY <3>1, <4>1, <4>2, <4>3
    <3>2. CASE r # f
      <4>1. holds'[r] = holds[r] /\ holds[r] # NoTask /\ holds[r] \in Tasks
        BY <1>3, <2>4, <2>8, <3>2
      <4>2. assignedTo[holds[r]] = r /\ taskStatus[holds[r]] # "PENDING"
        BY <4>1 DEF TaskInv
      <4>3. holds[r] # t
        <5>1. SUFFICES ASSUME holds[r] = t PROVE FALSE
          OBVIOUS
        <5>2. assignedTo[t] = f
          BY <1>2, <4>1, <5>1 DEF TaskInv, t
        <5>. QED  BY <3>2, <4>2, <5>1, <5>2
      <4>. QED  BY <2>3, <4>1, <4>2, <4>3
    <3>. QED  BY <3>1, <3>2
  <2>9. mode' = "reassigning" =>
          released' \in Tasks /\ taskStatus'[released'] = "PENDING"
            /\ assignedTo'[released'] = NoRobot
    BY <2>1, <2>2, <2>6
  <2>. QED  BY <1>2, <2>7, <2>8, <2>9 DEF TaskInv
<1>. QED  BY <1>1, <1>4, <1>5

LEMMA OffersKeepTasks ==
  ASSUME CourseInv, TaskInv, RecoverTask PROVE TaskInv'
<1>1. /\ mode = "reassigning" /\ mode' \in {"rerouting", "raised"}
      /\ enabled' = enabled /\ offline' = offline
      /\ released \in Tasks /\ taskStatus[released] = "PENDING"
      /\ assignedTo[released] = NoRobot
  BY DEF RecoverTask, NobodyTakesIt, RaiseAfterCommit, OfferTo, scheduleVars, TaskInv
<1>2. /\ holds \in [Robots -> Tasks \cup {NoTask}]
      /\ taskStatus \in [Tasks -> {"PENDING", "ASSIGNED", "IN_PROGRESS", "COMPLETED",
                                   "FAILED"}]
      /\ assignedTo \in [Tasks -> Robots \cup {NoRobot}]
  BY DEF CourseInv, TypeOK
<1>3. CASE UNCHANGED <<holds, taskStatus, assignedTo>>
  BY <1>1, <1>3 DEF TaskInv
<1>4. ASSUME NEW r \in Robots, Cheapest(r, released), CommitTo(r) PROVE TaskInv'
  <2>1. r \notin offline /\ holds[r] = NoTask
    BY <1>4, TakersAreSound
  <2>2. /\ holds'[r] = released /\ \A q \in Robots \ {r} : holds'[q] = holds[q]
        /\ taskStatus'[released] = "ASSIGNED" /\ assignedTo'[released] = r
        /\ \A k \in Tasks \ {released} :
             taskStatus'[k] = taskStatus[k] /\ assignedTo'[k] = assignedTo[k]
    BY <1>1, <1>2, <1>4 DEF CommitTo
  <2>3. ASSUME NEW k \in Tasks, taskStatus'[k] = "ASSIGNED"
        PROVE  /\ assignedTo'[k] \in Robots
               /\ holds'[assignedTo'[k]] = k
               /\ enabled => assignedTo'[k] \notin offline
    <3>1. CASE k = released
      BY <2>1, <2>2, <3>1
    <3>2. CASE k # released
      <4>1. /\ assignedTo'[k] = assignedTo[k] /\ assignedTo[k] \in Robots
            /\ holds[assignedTo[k]] = k /\ (enabled => assignedTo[k] \notin offline)
        BY <2>2, <2>3, <3>2 DEF TaskInv
      <4>2. assignedTo[k] # r
        BY <2>1, <4>1
      <4>. QED  BY <2>2, <4>1, <4>2
    <3>. QED  BY <3>1, <3>2
  <2>4. ASSUME NEW q \in Robots, holds'[q] # NoTask
        PROVE  assignedTo'[holds'[q]] = q /\ taskStatus'[holds'[q]] # "PENDING"
    <3>1. CASE q = r
      BY <2>2, <3>1
    <3>2. CASE q # r
      <4>1. holds'[q] = holds[q] /\ holds[q] \in Tasks
        BY <1>2, <2>2, <2>4, <3>2
      <4>2. assignedTo[holds[q]] = q /\ taskStatus[holds[q]] # "PENDING"
        BY <2>4, <4>1 DEF TaskInv
      <4>3. holds[q] # released
        BY <1>1, <4>2
      <4>. QED  BY <2>2, <4>1, <4>2, <4>3
    <3>. QED  BY <3>1, <3>2
  <2>. QED  BY <1>1, <2>3, <2>4 DEF TaskInv
<1>5. ASSUME NEW r \in Robots, Cheapest(r, released), UndoCommit(r)
      PROVE  UNCHANGED <<holds, taskStatus, assignedTo>>
  <2>1. holds[r] = NoTask
    BY <1>5, TakersAreSound
  <2>. QED  BY <1>2, <1>5, <2>1 DEF UndoCommit
<1>6. \/ UNCHANGED <<holds, taskStatus, assignedTo>>
      \/ \E r \in Robots : Cheapest(r, released) /\ (CommitTo(r) \/ UndoCommit(r))
  BY DEF RecoverTask, NobodyTakesIt, RaiseAfterCommit, OfferTo, taskVars
<1>. QED  BY <1>3, <1>4, <1>5, <1>6

LEMMA NextTasks == CourseInv /\ TaskInv /\ [Next]_vars => TaskInv'
<1> SUFFICES ASSUME CourseInv, TaskInv, [Next]_vars PROVE TaskInv'
  OBVIOUS
<1>1. CASE RecoverFailure
  BY <1>1, FailuresKeepTasks
<1>2. CASE RecoverTask
  BY <1>2, OffersKeepTasks
<1>3. CASE Preflight \/ RecoverObstacle \/ RerouteOthers \/ Replan \/ Halt \/ Finalise
  <2>1. mode' # "reassigning" /\ UNCHANGED <<enabled, holds, taskStatus, assignedTo, offline>>
    BY <1>3 DEF Preflight, NothingToDrive, RejectPlan, RejectFleet, Refuse, Start,
                RecoverObstacle, RefuseObstacle, DropBesideRoutes, DropWithoutRecovery,
                DropOnRoutes, BeginReplanning, RerouteOthers, Replan, Halt, Finalise,
                scheduleVars, worldVars, planVars
  <2>. QED  BY <2>1 DEF TaskInv
<1>4. CASE CommitStep
  <2>1. mode' # "reassigning" /\ UNCHANGED <<enabled, holds, taskStatus, assignedTo, offline>>
    BY <1>4, StepsFollowRoutes
  <2>. QED  BY <2>1 DEF TaskInv
<1>5. CASE UNCHANGED vars
  BY <1>5 DEF vars, scheduleVars, worldVars, planVars, handlingVars, TaskInv
<1>. QED  BY <1>1, <1>2, <1>3, <1>4, <1>5 DEF Next, HandleEvent

(* Through release, offer, commit and undo, a robot and a task that point  *)
(* at each other agree, and with recovery on a task stays assigned to no   *)
(* robot that failed (recovery_manager.py:22-24, 397-455).                 *)
THEOREM TasksStayServed == Spec => []TasksAreServed
<1>1. SomeRun => CourseInv /\ TaskInv
  BY InitCourse, InitTasks
<1>2. CourseInv /\ TaskInv /\ [Next]_vars => (CourseInv /\ TaskInv)'
  BY NextCourse, NextTasks
<1>3. TaskInv => TasksAreServed
  BY DEF TaskInv, TasksAreServed
<1>. QED  BY <1>1, <1>2, <1>3, PTL DEF Spec

-----------------------------------------------------------------------------
(* Who is moved, and whose route changes.                                  *)

LEMMA OnlyMoversMove ==
  ASSUME CourseInv, [Next]_vars PROVE KeepsClearOfFailed
<1>1. CASE CommitStep
  <2>1. /\ \A r \in Movers : position'[r] = To(r) /\ \A o \in offline : To(r) # position[o]
        /\ \A r \in Robots \ Movers : position'[r] = position[r]
    BY <1>1, StepsFollowRoutes
  <2>. QED  BY <2>1 DEF KeepsClearOfFailed, Movers, LiveRobots
<1>2. CASE Preflight \/ HandleEvent \/ Halt \/ Finalise \/ UNCHANGED vars
  <2>1. position' = position
    BY <1>2 DEF Preflight, NothingToDrive, RejectPlan, RejectFleet, Refuse, Start,
                HandleEvent, RecoverObstacle, RecoverFailure, RecoverTask, RerouteOthers,
                Replan, Halt, Finalise, worldVars, vars
  <2>. QED  BY <2>1 DEF KeepsClearOfFailed
<1>. QED  BY <1>1, <1>2 DEF Next

LEMMA OnlyTheAffectedAreRerouted ==
  ASSUME CourseInv, TaskInv, [Next]_vars PROVE OthersKeepTheirRoutes
<1> SUFFICES ASSUME NEW r \in Driven, paths'[r] # paths[r]
             PROVE  \/ r \in offline'
                    \/ assignedTo' # assignedTo
                    \/ \E c \in blocked' \cup {position[o] : o \in offline} :
                         RouteTouchesCell(paths[r], c, clock)
  BY DEF OthersKeepTheirRoutes
<1>1. CASE RecoverObstacle
  <2>1. PICK c : RefuseObstacle(c) \/ DropBesideRoutes(c) \/ DropWithoutRecovery(c)
                   \/ DropOnRoutes(c)
    BY <1>1 DEF RecoverObstacle
  <2>2. DropWithoutRecovery(c)
    BY <2>1 DEF RefuseObstacle, DropBesideRoutes, DropOnRoutes
  <2>3. r \in HitBy(c) /\ c \in blocked'
    BY <2>2 DEF DropWithoutRecovery
  <2>. QED  BY <2>3 DEF HitBy
<1>2. CASE RecoverFailure
  <2>1. PICK e \in failures : /\ offline' = offline \cup {e[2]}
                              /\ paths' = [q \in Driven |-> IF q = e[2] THEN trace[q]
                                                            ELSE paths[q]]
    BY <1>2 DEF RecoverFailure
  <2>. QED  BY <2>1
<1>3. CASE RecoverTask
  <2>1. PICK q \in Robots : Cheapest(q, released) /\ CommitTo(q)
    BY <1>3 DEF RecoverTask, NobodyTakesIt, RaiseAfterCommit, OfferTo, UndoCommit
  <2>2. released \in Tasks /\ assignedTo[released] = NoRobot
        /\ assignedTo \in [Tasks -> Robots \cup {NoRobot}]
    BY <1>3 DEF RecoverTask, TaskInv, CourseInv, TypeOK
  <2>3. assignedTo'[released] = q
    BY <2>1, <2>2 DEF CommitTo
  <2>. QED  BY <2>2, <2>3
<1>4. CASE Replan
  <2>1. PICK q \in queue :
          LET routes == Replans(future, q, Here(q), goals[q], clock, blocked) IN
          \/ routes # {} /\ Repair(q, routes)
          \/ routes = {} /\ StopSafely(q)
    BY <1>4 DEF Replan
  <2>2. r = q
    BY <2>1 DEF Repair, StopSafely, Driven
  <2>3. mode = "replanning" /\ blocked' = blocked
    BY <1>4 DEF Replan
  <2>. QED  BY <2>2, <2>3 DEF CourseInv, HandlingIsSound
<1>5. CASE Preflight \/ RerouteOthers \/ Halt \/ CommitStep \/ Finalise \/ UNCHANGED vars
  BY <1>5 DEF Preflight, NothingToDrive, RejectPlan, RejectFleet, Refuse, Start,
              RerouteOthers, Halt, CommitStep, Finalise, planVars, vars
<1>. QED  BY <1>1, <1>2, <1>3, <1>4, <1>5 DEF Next, HandleEvent

(* No step moves a robot that failed or stopped, nor one onto it, and only *)
(* the robots in the way of an event, or that take a task over, get new    *)
(* routes: "unaffected robots are never touched"                           *)
(* (recovery_manager.py:13-21).                                            *)
THEOREM OthersAreLeftAlone == Spec => OnlyTheAffectedMove
<1>1. SomeRun => CourseInv /\ TaskInv
  BY InitCourse, InitTasks
<1>2. CourseInv /\ TaskInv /\ [Next]_vars => (CourseInv /\ TaskInv)'
  BY NextCourse, NextTasks
<1>3. CourseInv /\ TaskInv /\ [Next]_vars => [KeepsClearOfFailed /\ OthersKeepTheirRoutes]_vars
  BY OnlyMoversMove, OnlyTheAffectedAreRerouted
<1>. QED  BY <1>1, <1>2, <1>3, PTL DEF Spec, OnlyTheAffectedMove

-----------------------------------------------------------------------------
(* Routes that stay, and the table a replan is made against.               *)

LEMMA GoalIsReached ==
  ASSUME NEW p, IsTimedPath(p)
  PROVE  p.arrival \in p.start .. p.arrival /\ p.at[p.arrival] = Goal(p)
BY PathNumbers DEF Goal

(* A route whose remaining steps are off a cell, of a robot that is not on *)
(* it, never leads over it: also not when it is over and the robot stands  *)
(* at its goal.                                                            *)
LEMMA UntouchedAvoids ==
  ASSUME CourseInv, Underway, NEW r \in Movers, NEW c,
         ~ RouteTouchesCell(paths[r], c, clock), position[r] # c,
         NEW t \in clock .. Horizon
  PROVE  Remaining(r, t) # c
<1>1. /\ IsTimedPath(paths[r]) /\ IsTimedPath(trace[r])
      /\ trace[r].start = paths[r].start /\ trace[r].arrival = clock
      /\ clock \in Nat /\ position[r] = PositionAt(paths[r], clock)
  BY MoverIsOnCourse
<1>2. /\ paths[r].start <= clock /\ t \in Nat /\ clock <= t
      /\ paths[r].start \in Nat /\ paths[r].arrival \in Nat
  BY <1>1, PathNumbers
<1>3. CASE t <= paths[r].arrival
  <2>1. t \in paths[r].start .. paths[r].arrival /\ t >= clock
    BY <1>1, <1>2, <1>3
  <2>2. PositionAt(paths[r], t) = paths[r].at[t]
    BY <1>1, <1>2, <2>1, PositionOfPath
  <2>. QED  BY <2>1, <2>2 DEF RouteTouchesCell, Remaining
<1>4. CASE t > paths[r].arrival
  <2>1. PositionAt(paths[r], t) = Goal(paths[r])
    BY <1>1, <1>2, <1>4, PositionOfPath
  <2>2. CASE clock >= paths[r].arrival
    <3>1. PositionAt(paths[r], clock) = Goal(paths[r])
      BY <1>1, <2>2, PositionOfPath
    <3>. QED  BY <1>1, <2>1, <3>1 DEF Remaining
  <2>3. CASE clock < paths[r].arrival
    <3>1. paths[r].arrival \in paths[r].start .. paths[r].arrival
          /\ paths[r].at[paths[r].arrival] = Goal(paths[r])
      BY <1>1, GoalIsReached
    <3>. QED  BY <1>1, <1>2, <2>1, <2>3, <3>1 DEF RouteTouchesCell, Remaining
  <2>. QED  BY <1>1, <1>2, <2>2, <2>3
<1>. QED  BY <1>2, <1>3, <1>4

(* A robot on a cell its route does not touch any more has arrived.        *)
LEMMA UntouchedStay ==
  ASSUME CourseInv, Underway, NEW r \in Movers,
         ~ RouteTouchesCell(paths[r], position[r], clock), NEW t \in clock .. Horizon
  PROVE  Remaining(r, t) = position[r]
<1>1. /\ IsTimedPath(paths[r]) /\ IsTimedPath(trace[r])
      /\ trace[r].start = paths[r].start /\ trace[r].arrival = clock
      /\ clock \in Nat /\ position[r] = PositionAt(paths[r], clock)
  BY MoverIsOnCourse
<1>2. /\ paths[r].start <= clock /\ t \in Nat /\ clock <= t
      /\ paths[r].start \in Nat /\ paths[r].arrival \in Nat
  BY <1>1, PathNumbers
<1>3. ~ (clock <= paths[r].arrival)
  <2>1. SUFFICES ASSUME clock <= paths[r].arrival PROVE FALSE
    OBVIOUS
  <2>2. clock \in paths[r].start .. paths[r].arrival /\ clock >= clock
    BY <1>1, <1>2, <2>1
  <2>3. PositionAt(paths[r], clock) = paths[r].at[clock]
    BY <1>1, <2>2, PositionOfPath
  <2>. QED  BY <1>1, <2>2, <2>3 DEF RouteTouchesCell
<1>4. PositionAt(paths[r], t) = Goal(paths[r]) /\ PositionAt(paths[r], clock) = Goal(paths[r])
  BY <1>1, <1>2, <1>3, PositionOfPath
<1>. QED  BY <1>1, <1>4 DEF Remaining

LEMMA TouchedCellsAreMet ==
  ASSUME NEW r, IsTimedPath(paths[r]), NEW c, clock \in Nat,
         RouteTouchesCell(paths[r], c, clock)
  PROVE  \E t \in clock .. Horizon : Remaining(r, t) = c
<1>1. PICK t \in paths[r].start .. paths[r].arrival : t >= clock /\ paths[r].at[t] = c
  BY DEF RouteTouchesCell
<1>2. t \in Nat /\ t \in clock .. Horizon
  BY <1>1, PathNumbers
<1>3. PositionAt(paths[r], t) = paths[r].at[t]
  BY <1>2, PositionOfPath
<1>. QED  BY <1>1, <1>2, <1>3 DEF Remaining

LEMMA ClearAreKept ==
  ASSUME CourseInv, NEW exclude, NEW r \in LiveRobots, r \notin exclude, ClearRoute(r)
  PROVE  r \in Kept(exclude)
<1>1. r \in Driven /\ r \notin offline /\ IsTimedPath(paths[r]) /\ clock \in Nat
  BY DEF LiveRobots, CourseInv, TypeOK, Times
<1>2. ASSUME NEW o \in offline, RouteTouchesCell(paths[r], position[o], clock) PROVE FALSE
  <2>1. PICK t \in clock .. Horizon : Remaining(r, t) = position[o]
    BY <1>1, <1>2, TouchedCellsAreMet
  <2>. QED  BY <2>1 DEF ClearRoute
<1>. QED  BY <1>1, <1>2 DEF Kept

LEMMA NoTableClash ==
  ASSUME CourseInv, FailedAlone, NEW exclude,
         \A r \in Kept(exclude) :
           ClearRoute(r) /\ \A q \in Kept(exclude) \ {r} : ClearOfEachOther(q, r)
  PROVE  ~ TableClash(exclude)
<1>1. /\ clock \in Nat /\ offline \subseteq Robots /\ DOMAIN Pinned = offline
      /\ \A o \in offline : Pinned[o] = position[o]
  BY DEF CourseInv, TypeOK, Times, Pinned
<1>2. \A t \in clock .. Horizon : \A q, r \in Kept(exclude) :
        q # r => PositionAt(paths[q], t) # PositionAt(paths[r], t)
  BY DEF ClearOfEachOther, Remaining
<1>3. \A t \in clock .. Horizon : \A r \in Kept(exclude) : \A o \in DOMAIN Pinned :
        PositionAt(paths[r], t) # Pinned[o]
  BY <1>1 DEF ClearRoute, Remaining
<1>4. \A o, u \in DOMAIN Pinned : o # u => Pinned[o] # Pinned[u]
  <2>1. SUFFICES ASSUME NEW o \in offline, NEW u \in offline, o # u
                 PROVE  position[o] # position[u]
    BY <1>1
  <2>. QED  BY <1>1, <2>1 DEF FailedAlone
<1>. QED  BY <1>1, <1>2, <1>3, <1>4, NoClash DEF TableClash

LEMMA EdgesOfMoves ==
  ASSUME NEW p, IsTimedPath(p), NEW t \in Nat, t >= p.start,
         PositionAt(p, t) # PositionAt(p, t + 1)
  PROVE  <<PositionAt(p, t), PositionAt(p, t + 1), t>> \in PathEdges(p)
<1>1. p.start \in Nat /\ p.arrival \in Nat /\ t + 1 \in Nat
  BY PathNumbers
<1>2. ~ (t >= p.arrival)
  <2>1. t >= p.arrival => t + 1 >= p.arrival
    BY <1>1
  <2>. QED  BY <1>1, <2>1, PositionOfPath
<1>3. /\ t \in p.start .. p.arrival - 1 /\ t \in p.start .. p.arrival
      /\ t + 1 \in p.start .. p.arrival
  BY <1>1, <1>2
<1>4. PositionAt(p, t) = p.at[t] /\ PositionAt(p, t + 1) = p.at[t+1]
  BY <1>1, <1>3, PositionOfPath
<1>. QED  BY <1>3, <1>4 DEF PathEdges

LEMMA TableHoldsKept ==
  ASSUME CourseInv, Underway, NEW exclude
  PROVE  /\ Pins(FutureTable(exclude))
         /\ \A r \in Kept(exclude) : r \in Movers => Holds(FutureTable(exclude), r)
<1> DEFINE tbl == FutureTable(exclude)
<1>1. clock \in Nat /\ DOMAIN Pinned = offline
      /\ \A o \in offline : Pinned[o] = position[o]
  BY DEF CourseInv, TypeOK, Times, Pinned
<1>2. tbl = FutureReservations(paths, Kept(exclude), Pinned, clock)
  BY DEF FutureTable
<1> HIDE DEF tbl
<1>3. /\ \A r \in Kept(exclude), t \in clock .. Horizon :
           <<PositionAt(paths[r], t), t, r>> \in tbl.vertices
      /\ \A r \in Kept(exclude) : \A k \in LaterEdges(paths[r], clock) :
           <<k[1], k[2], k[3], r>> \in tbl.edges
      /\ \A o \in DOMAIN Pinned, t \in clock .. Horizon :
           <<Pinned[o], t, o>> \in tbl.vertices
  BY <1>1, <1>2, FutureTableHolds
<1>4. Pins(tbl)
  BY <1>1, <1>3 DEF Pins
<1>5. ASSUME NEW r \in Kept(exclude), r \in Movers PROVE Holds(tbl, r)
  <2>1. ASSUME NEW t \in clock .. Horizon - 1, Remaining(r, t) # Remaining(r, t + 1)
        PROVE  <<Remaining(r, t), Remaining(r, t + 1), t, r>> \in tbl.edges
    <3>1. /\ IsTimedPath(paths[r]) /\ IsTimedPath(trace[r])
          /\ trace[r].start = paths[r].start /\ trace[r].arrival = clock
      BY <1>5, MoverIsOnCourse
    <3>2. t \in Nat /\ t >= paths[r].start /\ t >= clock
      BY <1>1, <3>1, PathNumbers
    <3> DEFINE k == <<PositionAt(paths[r], t), PositionAt(paths[r], t + 1), t>>
    <3>3. k \in PathEdges(paths[r])
      BY <2>1, <3>1, <3>2, EdgesOfMoves DEF Remaining
    <3>4. k \in LaterEdges(paths[r], clock)
      BY <3>2, <3>3 DEF LaterEdges
    <3>5. <<k[1], k[2], k[3], r>> \in tbl.edges
      <4> HIDE DEF k
      <4>. QED  BY <1>3, <3>4
    <3>. QED  BY <3>5 DEF Remaining
  <2>. QED  BY <1>3, <2>1 DEF Holds, Remaining
<1>. QED  BY <1>4, <1>5 DEF tbl

(* What a replan against such a table returns.                             *)
LEMMA ReplanIsClear ==
  ASSUME CourseInv, NEW tbl, Pins(tbl), NEW r, r \notin offline,
         NEW from \in Cells, NEW goal \in Cells,
         NEW p \in Replans(tbl, r, from, goal, clock, blocked)
  PROVE  /\ \A t \in clock .. Horizon :
              /\ PositionAt(p, t) \notin blocked
              /\ \A o \in offline : PositionAt(p, t) # position[o]
         /\ \A q \in Robots \ {r} : Holds(tbl, q) =>
              /\ \A t \in clock .. Horizon : Remaining(q, t) # PositionAt(p, t)
              /\ \A t \in clock .. Horizon - 1 :
                   ~ (Remaining(q, t) = PositionAt(p, t + 1)
                        /\ PositionAt(p, t) = Remaining(q, t + 1))
<1>1. clock \in Times /\ clock \in Nat /\ offline \subseteq Robots
  BY DEF CourseInv, TypeOK, Times
<1>2. ASSUME NEW t \in clock .. Horizon
      PROVE  /\ PositionAt(p, t) \in Cells \ blocked
             /\ IsVertexFree(tbl, PositionAt(p, t), t, r)
             /\ t < Horizon /\ PositionAt(p, t) # PositionAt(p, t + 1) =>
                  ~ IsSwapConflict(tbl, PositionAt(p, t), PositionAt(p, t + 1), t, r)
  BY <1>1, ReplansKeepClear
<1>3. ASSUME NEW t \in clock .. Horizon, NEW o \in offline
      PROVE  PositionAt(p, t) # position[o]
  BY <1>1, <1>2 DEF Pins, IsVertexFree
<1>4. ASSUME NEW q \in Robots \ {r}, Holds(tbl, q), NEW t \in clock .. Horizon
      PROVE  Remaining(q, t) # PositionAt(p, t)
  BY <1>2, <1>4 DEF Holds, IsVertexFree
<1>5. ASSUME NEW q \in Robots \ {r}, Holds(tbl, q), NEW t \in clock .. Horizon - 1,
             Remaining(q, t) = PositionAt(p, t + 1), PositionAt(p, t) = Remaining(q, t + 1)
      PROVE  FALSE
  <2>1. t \in clock .. Horizon /\ t < Horizon
    BY <1>1
  <2>2. Remaining(q, t) # PositionAt(p, t)
    BY <1>4, <1>5, <2>1
  <2>3. <<Remaining(q, t), Remaining(q, t + 1), t, q>> \in tbl.edges
    BY <1>5, <2>2 DEF Holds
  <2>4. ~ IsSwapConflict(tbl, PositionAt(p, t), PositionAt(p, t + 1), t, r)
    BY <1>2, <1>5, <2>1, <2>2
  <2>. QED  BY <1>5, <2>3, <2>4 DEF IsSwapConflict
<1>. QED  BY <1>2, <1>3, <1>4, <1>5

-----------------------------------------------------------------------------
(* The routes that stay are safe.                                          *)

SafeRoutes == (FailedAlone => SettledRoutesAreSafe) /\ SharersStay

LEMMA SettledAreLive ==
  ASSUME CourseInv
  PROVE  /\ Settled \subseteq LiveRobots /\ LiveRobots \subseteq Robots
         /\ LiveRobots \subseteq Driven /\ LiveRobots \cap offline = {}
         /\ stopped = {} => LiveRobots = Movers
         /\ mode = "running" => Settled = LiveRobots
BY DEF Settled, LiveRobots, Movers, CourseInv, TypeOK

(* Events leave the routes that stay safe when these keep off what is new. *)
LEMMA RoutesStaySafe ==
  ASSUME UNCHANGED <<clock, position>>, SafeRoutes, offline \subseteq offline',
         \A r \in Settled' : r \in Settled /\ paths'[r] = paths[r],
         \A r \in Settled', t \in clock .. Horizon : Remaining(r, t) \notin blocked' \ blocked,
         FailedAlone' =>
           \A r \in Settled', o \in offline' \ offline, t \in clock .. Horizon :
             Remaining(r, t) # position[o],
         \A r \in Settled', o \in offline' \ offline, t \in clock .. Horizon :
           position[r] = position[o] => Remaining(r, t) = position[r]
  PROVE  SafeRoutes'
<1>1. ASSUME FailedAlone'
      PROVE  SettledRoutesAreSafe'
  <2>1. FailedAlone
    BY <1>1 DEF FailedAlone
  <2>2. SUFFICES ASSUME NEW r \in Settled'
                 PROVE  ClearRoute(r)' /\ \A q \in Settled' \ {r} : ClearOfEachOther(q, r)'
    BY DEF SettledRoutesAreSafe
  <2>3. ClearRoute(r)'
    <3>1. ClearRoute(r)
      BY <2>1, <2>2 DEF SafeRoutes, SettledRoutesAreSafe
    <3>2. ASSUME NEW t \in clock .. Horizon
          PROVE  Remaining(r, t) \notin blocked' /\ \A o \in offline' : Remaining(r, t) # position[o]
      BY <1>1, <2>2, <3>1 DEF ClearRoute
    <3>. QED  BY <2>2, <3>2 DEF ClearRoute, Remaining
  <2>4. ASSUME NEW q \in Settled' \ {r} PROVE ClearOfEachOther(q, r)'
    <3>1. ClearOfEachOther(q, r)
      BY <2>1, <2>2, <2>4 DEF SafeRoutes, SettledRoutesAreSafe
    <3>. QED  BY <2>2, <2>4, <3>1 DEF ClearOfEachOther, Remaining
  <2>. QED  BY <2>3, <2>4
<1>2. SharersStay'
  <2>1. SUFFICES ASSUME NEW r \in Settled', NEW o \in offline', position[r] = position[o],
                        NEW t \in clock .. Horizon
                 PROVE  Remaining(r, t) = position[r]
    BY DEF SharersStay, Remaining
  <2>. QED  BY <2>1 DEF SafeRoutes, SharersStay
<1>. QED  BY <1>1, <1>2 DEF SafeRoutes

(* The new route of one robot is against a table that pins the failed      *)
(* robots and holds the routes that stay.                                  *)
LEMMA OneMoreRouteIsSafe ==
  ASSUME CourseInv, UNCHANGED <<clock, position, offline, blocked>>, SafeRoutes,
         NEW r \in Robots, r \notin offline, NEW tbl, Pins(tbl),
         FailedAlone => \A q \in Settled \ {r} : Holds(tbl, q),
         NEW goal \in Cells,
         NEW p \in Replans(tbl, r, position[r], goal, clock, blocked),
         \A t \in Nat : t >= clock => PositionAt(paths'[r], t) = PositionAt(p, t),
         \A q \in Settled' \ {r} : q \in Settled /\ paths'[q] = paths[q]
  PROVE  SafeRoutes'
<1> DEFINE from == position[r]
<1>0. /\ clock \in Times /\ clock \in Nat /\ from \in Cells /\ Settled \subseteq Robots
      /\ clock \in clock .. Horizon
  BY SettledAreLive DEF CourseInv, TypeOK, Times
<1>1. p \in Replans(tbl, r, from, goal, clock, blocked)
  OBVIOUS
<1> HIDE DEF from
<1>2. IsTimedPath(p) /\ p.start = clock /\ p.at[clock] = from
  BY <1>0, <1>1, ReplansAreRoutes
<1>3. PositionAt(p, clock) = from
  BY <1>0, <1>2, PositionOfPath
<1>4. /\ \A t \in clock .. Horizon :
           /\ PositionAt(p, t) \notin blocked
           /\ \A o \in offline : PositionAt(p, t) # position[o]
      /\ \A q \in Robots \ {r} : Holds(tbl, q) =>
           /\ \A t \in clock .. Horizon : Remaining(q, t) # PositionAt(p, t)
           /\ \A t \in clock .. Horizon - 1 :
                ~ (Remaining(q, t) = PositionAt(p, t + 1)
                     /\ PositionAt(p, t) = Remaining(q, t + 1))
  BY <1>0, <1>1, ReplanIsClear
<1>5. /\ \A t \in clock .. Horizon : PositionAt(paths'[r], t) = PositionAt(p, t)
      /\ \A t \in clock .. Horizon - 1 : PositionAt(paths'[r], t + 1) = PositionAt(p, t + 1)
                                         /\ t \in clock .. Horizon
  BY <1>0
<1>6. ASSUME FailedAlone'
      PROVE  SettledRoutesAreSafe'
  <2>1. FailedAlone
    BY <1>6 DEF FailedAlone
  <2>2. ClearRoute(r)'
    BY <1>4, <1>5 DEF ClearRoute, Remaining
  <2>3. ASSUME NEW q \in Settled' \ {r}
        PROVE  ClearRoute(q)' /\ ClearOfEachOther(q, r)' /\ ClearOfEachOther(r, q)'
    <3>1. q \in Settled /\ paths'[q] = paths[q] /\ q \in Robots \ {r} /\ Holds(tbl, q)
      BY <1>0, <2>1, <2>3
    <3>2. ClearRoute(q)
      BY <2>1, <3>1 DEF SafeRoutes, SettledRoutesAreSafe
    <3>3. ClearRoute(q)'
      BY <3>1, <3>2 DEF ClearRoute, Remaining
    <3>4. /\ \A t \in clock .. Horizon : Remaining(q, t) # PositionAt(p, t)
          /\ \A t \in clock .. Horizon - 1 :
               ~ (Remaining(q, t) = PositionAt(p, t + 1)
                    /\ PositionAt(p, t) = Remaining(q, t + 1))
      BY <1>4, <3>1
    <3>5. ClearOfEachOther(q, r)' /\ ClearOfEachOther(r, q)'
      BY <1>5, <3>1, <3>4 DEF ClearOfEachOther, Remaining
    <3>. QED  BY <3>3, <3>5
  <2>4. ASSUME NEW q \in Settled' \ {r}, NEW u \in Settled' \ {r}, q # u
        PROVE  ClearOfEachOther(q, u)'
    <3>1. q \in Settled /\ paths'[q] = paths[q] /\ u \in Settled /\ paths'[u] = paths[u]
      BY <2>4
    <3>2. ClearOfEachOther(q, u)
      BY <2>1, <2>4, <3>1 DEF SafeRoutes, SettledRoutesAreSafe
    <3>. QED  BY <3>1, <3>2 DEF ClearOfEachOther, Remaining
  <2>. QED  BY <2>2, <2>3, <2>4 DEF SettledRoutesAreSafe
<1>7. SharersStay'
  <2>1. SUFFICES ASSUME NEW q \in Settled', NEW o \in offline, position[q] = position[o],
                        NEW t \in clock .. Horizon
                 PROVE  PositionAt(paths'[q], t) = position[q]
    BY DEF SharersStay, Remaining
  <2>2. CASE q = r
    BY <1>0, <1>3, <1>4, <2>1, <2>2 DEF from
  <2>3. CASE q # r
    BY <2>1, <2>3 DEF SafeRoutes, SharersStay, Remaining
  <2>. QED  BY <2>2, <2>3
<1>. QED  BY <1>6, <1>7 DEF SafeRoutes

LEMMA SoundPlansAreApart ==
  ASSUME CourseInv, ~ HasProblems(paths, {}), NEW q \in Driven, NEW r \in Driven, q # r
  PROVE  ClearOfEachOther(q, r)
<1>1. /\ \A u \in DOMAIN paths : IsTimedPath(paths[u])
      /\ ~ VertexConflict(paths) /\ ~ EdgeConflict(paths)
      /\ q \in DOMAIN paths /\ r \in DOMAIN paths /\ clock \in Nat
  BY DEF CourseInv, TypeOK, Driven, HasProblems, Times
<1>2. ASSUME NEW t \in Nat
      PROVE  /\ Remaining(q, t) # Remaining(r, t)
             /\ ~ (Remaining(q, t) = Remaining(r, t + 1) /\ Remaining(r, t) = Remaining(q, t + 1))
  <2>1. PositionAt(paths[q], t) # PositionAt(paths[r], t)
    BY <1>1, ReplayFindsMeetings
  <2>2. ~ /\ PositionAt(paths[q], t) = PositionAt(paths[r], t + 1)
          /\ PositionAt(paths[r], t) = PositionAt(paths[q], t + 1)
    BY <1>1, ReplayFindsSwaps
  <2>. QED  BY <2>1, <2>2 DEF Remaining
<1>3. (\A t \in clock .. Horizon : t \in Nat) /\ (\A t \in clock .. Horizon - 1 : t \in Nat)
  BY <1>1
<1>. QED  BY <1>2, <1>3 DEF ClearOfEachOther

LEMMA PlansBeginSafe ==
  ASSUME CourseInv, Start PROVE SafeRoutes'
<1>1. /\ mode = "idle" /\ mode' = "running" /\ ~ HasProblems(paths, {})
      /\ UNCHANGED <<paths, clock, offline, stopped, blocked>>
      /\ offline = {} /\ blocked = {}
  BY DEF Start, CourseInv, BeforeTheStart
<1>2. SettledRoutesAreSafe'
  <2>1. SUFFICES ASSUME NEW r \in Settled', NEW q \in Settled' \ {r}
                 PROVE  ClearOfEachOther(q, r)'
    BY <1>1 DEF SettledRoutesAreSafe, ClearRoute
  <2>2. q \in Driven /\ r \in Driven
    BY <1>1 DEF Settled, LiveRobots, Driven
  <2>3. ClearOfEachOther(q, r)
    BY <1>1, <2>1, <2>2, SoundPlansAreApart
  <2>. QED  BY <1>1, <2>3 DEF ClearOfEachOther, Remaining
<1>3. SharersStay'
  BY <1>1 DEF SharersStay
<1>. QED  BY <1>2, <1>3 DEF SafeRoutes

(* With no robot stopped yet, the table for the robots an event is in the  *)
(* way of can be built, and holds the routes of the others.                *)
LEMMA BeginningIsSafe ==
  ASSUME CourseInv, Underway, stopped = {}, SafeRoutes,
         NEW affected, BeginReplanning(affected),
         UNCHANGED <<clock, position, offline, paths>>,
         \A r \in Kept(affected) : r \in Settled,
         mode' = "replanning" => \A r \in Settled' : r \in Settled /\ r \notin affected
  PROVE  /\ mode' = "raised" => ~ FailedAlone'
         /\ TableIsCurrent'
<1>1. Settled \subseteq LiveRobots /\ Settled \subseteq Movers
  BY SettledAreLive
<1>2. ASSUME mode' = "raised", FailedAlone' PROVE FALSE
  <2>1. TableClash(affected) /\ FailedAlone
    BY <1>2 DEF BeginReplanning, FailedAlone
  <2>2. \A r \in Kept(affected) :
          ClearRoute(r) /\ \A q \in Kept(affected) \ {r} : ClearOfEachOther(q, r)
    BY <2>1 DEF SafeRoutes, SettledRoutesAreSafe
  <2>. QED  BY <2>1, <2>2, NoTableClash
<1>3. ASSUME mode' = "replanning"
      PROVE  Pins(future)' /\ (FailedAlone' => \A r \in Settled' : Holds(future, r)')
  <2>1. future' = FutureTable(affected)
    BY <1>3 DEF BeginReplanning
  <2>2. /\ Pins(FutureTable(affected))
        /\ \A r \in Kept(affected) : r \in Movers => Holds(FutureTable(affected), r)
    BY TableHoldsKept
  <2> DEFINE tbl == FutureTable(affected)
  <2> HIDE DEF tbl
  <2>3. future' = tbl /\ Pins(tbl)
        /\ \A r \in Kept(affected) : r \in Movers => Holds(tbl, r)
    BY <2>1, <2>2 DEF tbl
  <2>4. Pins(future)'
    BY <2>3 DEF Pins
  <2>5. ASSUME FailedAlone', NEW r \in Settled' PROVE Holds(future, r)'
    <3>1. FailedAlone
      BY <2>5 DEF FailedAlone
    <3>2. r \in LiveRobots /\ r \in Movers /\ r \notin affected /\ ClearRoute(r)
      BY <1>1, <1>3, <2>5, <3>1 DEF SafeRoutes, SettledRoutesAreSafe
    <3>3. r \in Kept(affected)
      BY <3>2, ClearAreKept
    <3>4. Holds(tbl, r)
      BY <2>3, <3>2, <3>3
    <3>. QED  BY <2>3, <3>4 DEF Holds, Remaining
  <2>. QED  BY <2>4, <2>5
<1>. QED  BY <1>2, <1>3 DEF TableIsCurrent

(* What there is to show of a step.                                        *)
LEMMA SafeSteps ==
  ASSUME enabled' = enabled, stopped \subseteq stopped',
         enabled /\ stopped = {} /\ stopped' = {} =>
           /\ Handling' => SafeRoutes' /\ TableIsCurrent'
           /\ mode' = "raised" => ~ FailedAlone'
           /\ mode' = "halted" => ~ FailedAlone' \/ \E r \in Movers' : battery'[r] < Drain
  PROVE  SafeInv'
BY DEF SafeInv, SafeRoutes, RecoveredRunsGoOn

LEMMA ObstaclesAreSafe ==
  ASSUME CourseInv, SafeInv, RecoverObstacle PROVE SafeInv'
<1>1. PICK e \in drops :
        \/ RefuseObstacle(e[2]) \/ DropBesideRoutes(e[2])
        \/ DropWithoutRecovery(e[2]) \/ DropOnRoutes(e[2])
  BY DEF RecoverObstacle
<1> DEFINE c == e[2]
<1>2. /\ mode = "running" /\ Underway
      /\ UNCHANGED <<enabled, clock, position, offline>>
  BY DEF RecoverObstacle, worldVars, Underway
<1> HIDE DEF c
<1>3. RefuseObstacle(c) \/ DropBesideRoutes(c) \/ DropWithoutRecovery(c) \/ DropOnRoutes(c)
  BY <1>1 DEF c
<1>4. stopped \subseteq stopped'
  BY <1>3 DEF RefuseObstacle, DropBesideRoutes, DropWithoutRecovery, DropOnRoutes
<1>5. ASSUME enabled, stopped = {}, stopped' = {}
      PROVE  /\ Handling' => SafeRoutes' /\ TableIsCurrent'
             /\ mode' = "raised" => ~ FailedAlone'
             /\ mode' # "halted"
  <2>1. /\ SafeRoutes /\ Settled = LiveRobots /\ Settled = Movers
        /\ LiveRobots \subseteq Driven /\ LiveRobots \subseteq Robots
    BY <1>2, <1>5, SettledAreLive DEF SafeInv, SafeRoutes, Handling
  <2>2. /\ ~ DropWithoutRecovery(c) /\ paths' = paths
        /\ blocked' \in {blocked, blocked \cup {c}}
        /\ blocked' # blocked => ~ Occupied(c)
    BY <1>3, <1>5 DEF RefuseObstacle, DropBesideRoutes, DropWithoutRecovery, DropOnRoutes
  <2>3. LiveRobots' = LiveRobots /\ Settled' \subseteq Settled
    BY <1>2, <2>1, <2>2 DEF Settled, LiveRobots, Driven
  <2>4. ASSUME NEW r \in Settled', r \notin HitBy(c), NEW t \in clock .. Horizon
        PROVE  Remaining(r, t) \notin blocked' \ blocked
    <3>1. SUFFICES ASSUME blocked' # blocked PROVE Remaining(r, t) # c
      BY <2>2
    <3>2. r \in Movers /\ r \in Robots /\ ~ RouteTouchesCell(paths[r], c, clock)
      BY <2>1, <2>3, <2>4 DEF HitBy
    <3>3. position[r] # c
      BY <2>2, <3>1, <3>2 DEF Occupied
    <3>. QED  BY <1>2, <3>2, <3>3, UntouchedAvoids
  <2>5. (\A r \in Settled' : r \notin HitBy(c)) => SafeRoutes'
    BY <1>2, <2>1, <2>2, <2>3, <2>4, RoutesStaySafe
  <2>6. CASE RefuseObstacle(c)
    <3>1. mode' = "running" /\ blocked' = blocked
      BY <1>2, <2>6 DEF RefuseObstacle
    <3>2. SafeRoutes'
      BY <1>2, <2>1, <2>2, <2>3, <3>1, RoutesStaySafe
    <3>. QED  BY <3>1, <3>2 DEF TableIsCurrent
  <2>7. CASE DropBesideRoutes(c)
    <3>1. mode' = "running" /\ HitBy(c) = {}
      BY <1>2, <2>7 DEF DropBesideRoutes
    <3>. QED  BY <2>5, <3>1 DEF TableIsCurrent
  <2>8. CASE DropOnRoutes(c)
    <3>1. BeginReplanning(HitBy(c)) /\ mode' \in {"raised", "replanning"}
      BY <2>8 DEF DropOnRoutes, BeginReplanning
    <3>2. CASE mode' = "raised"
      <4>1. \A r \in Kept(HitBy(c)) : r \in Settled
        BY <2>1 DEF Kept, LiveRobots
      <4>2. ~ FailedAlone'
        BY <1>2, <1>5, <2>1, <2>2, <3>1, <3>2, <4>1, BeginningIsSafe
      <4>. QED  BY <3>2, <4>2 DEF Handling
    <3>3. CASE mode' = "replanning"
      <4>1. \A r \in Settled' : r \notin HitBy(c)
        BY <3>1, <3>3 DEF BeginReplanning, Settled
      <4>2. \A r \in Kept(HitBy(c)) : r \in Settled
        BY <2>1 DEF Kept, LiveRobots
      <4>3. TableIsCurrent'
        BY <1>2, <1>5, <2>1, <2>2, <2>3, <3>1, <4>1, <4>2, BeginningIsSafe
      <4>. QED  BY <2>5, <3>3, <4>1, <4>3
    <3>. QED  BY <3>1, <3>2, <3>3
  <2>. QED  BY <1>3, <2>2, <2>6, <2>7, <2>8
<1>. QED  BY <1>2, <1>4, <1>5, SafeSteps

LEMMA FailuresAreSafe ==
  ASSUME CourseInv, SafeInv, RecoverFailure PROVE SafeInv'
<1>1. PICK e \in failures :
        /\ offline' = offline \cup {e[2]}
        /\ paths' = [r \in Driven |-> IF r = e[2] THEN trace[r] ELSE paths[r]]
        /\ FailWithoutRecovery(e[2]) \/ FailAndRelease(e[2])
  BY DEF RecoverFailure
<1> DEFINE f == e[2]
<1>2. /\ mode = "running" /\ Underway /\ f \in Robots
      /\ UNCHANGED <<enabled, clock, position, blocked, stopped>>
  BY DEF RecoverFailure, Underway, CourseInv, ScheduleIsKnown
<1>3. /\ offline' = offline \cup {f}
      /\ paths' = [r \in Driven |-> IF r = f THEN trace[r] ELSE paths[r]]
      /\ FailWithoutRecovery(f) \/ FailAndRelease(f)
  BY <1>1
<1> HIDE DEF f
<1>4. ASSUME enabled, stopped = {}
      PROVE  /\ SafeRoutes' /\ TableIsCurrent'
             /\ mode' \notin {"raised", "halted"}
  <2>1. /\ SafeRoutes /\ Settled = LiveRobots /\ Settled = Movers
        /\ LiveRobots \subseteq Driven /\ LiveRobots \subseteq Robots
    BY <1>2, <1>4, SettledAreLive DEF SafeInv, SafeRoutes, Handling
  <2>2. mode' \in {"rerouting", "reassigning"} /\ failing' = f
    BY <1>3, <1>4 DEF FailWithoutRecovery, FailAndRelease
  <2>3. ASSUME NEW r \in Settled'
        PROVE  /\ r \in Movers /\ r \in Settled /\ r \in Robots /\ r # f
               /\ paths'[r] = paths[r]
               /\ ~ RouteTouchesCell(paths[r], position[f], clock)
    <3>1. r \in LiveRobots /\ r # f /\ r \in Driven
      BY <1>3, <2>1 DEF Settled, LiveRobots, Driven
    <3>2. paths'[r] = paths[r]
      BY <1>3, <3>1
    <3>3. ~ RouteTouchesCell(paths'[r], position'[f], clock')
      BY <2>2 DEF Settled
    <3>. QED  BY <1>2, <2>1, <3>1, <3>2, <3>3
  <2>4. ASSUME FailedAlone', NEW r \in Settled', NEW t \in clock .. Horizon
        PROVE  Remaining(r, t) # position[f]
    <3>1. position[r] # position[f]
      <4>1. f \in offline' /\ r \in Robots \ {f}
        BY <1>3, <2>3
      <4>. QED  BY <1>2, <2>4, <4>1 DEF FailedAlone
    <3>. QED  BY <1>2, <2>3, <3>1, UntouchedAvoids
  <2>5. ASSUME NEW r \in Settled', NEW t \in clock .. Horizon, position[r] = position[f]
        PROVE  Remaining(r, t) = position[r]
    BY <1>2, <2>3, <2>5, UntouchedStay
  <2>6. \A o \in offline' \ offline : o = f
    BY <1>3
  <2>7. SafeRoutes'
    BY <1>2, <1>3, <2>1, <2>3, <2>4, <2>5, <2>6, RoutesStaySafe
  <2>. QED  BY <2>2, <2>7 DEF TableIsCurrent
<1>. QED  BY <1>2, <1>4, SafeSteps

(* Nobody's route changes but the newcomer's.                              *)
LEMMA OffersAreSafe ==
  ASSUME CourseInv, SafeInv, RecoverTask PROVE SafeInv'
<1>1. /\ mode = "reassigning" /\ mode' \in {"rerouting", "raised"} /\ Underway
      /\ failing \in offline
      /\ UNCHANGED <<enabled, clock, position, offline, stopped, blocked, failing>>
  BY DEF RecoverTask, NobodyTakesIt, RaiseAfterCommit, OfferTo, scheduleVars, Underway,
         CourseInv, HandlingIsSound
<1>2. ASSUME enabled, stopped = {}
      PROVE  /\ mode' = "rerouting" => SafeRoutes'
             /\ mode' = "raised" => ~ FailedAlone'
  <2>1. /\ SafeRoutes /\ Settled \subseteq LiveRobots /\ LiveRobots = Movers
        /\ LiveRobots \subseteq Driven /\ LiveRobots \subseteq Robots
    BY <1>1, <1>2, SettledAreLive DEF SafeInv, SafeRoutes, Handling
  <2>2. \A r \in Robots : \A q \in Kept({r}) : q \in Settled
    BY <1>1 DEF Kept, Settled, LiveRobots
  <2>3. ASSUME mode' = "rerouting", UNCHANGED paths PROVE SafeRoutes'
    <3>1. \A q \in Settled' : q \in Settled /\ paths'[q] = paths[q]
      BY <1>1, <2>3 DEF Settled, LiveRobots, Driven
    <3>. QED  BY <1>1, <2>1, <3>1, RoutesStaySafe
  <2>4. ASSUME NEW r \in Robots, RaiseAfterCommit(r), FailedAlone' PROVE FALSE
    <3>1. TableClash({r}) /\ FailedAlone
      BY <1>1, <2>4 DEF RaiseAfterCommit, FailedAlone
    <3>2. \A q \in Kept({r}) :
            ClearRoute(q) /\ \A u \in Kept({r}) \ {q} : ClearOfEachOther(u, q)
      BY <2>1, <2>2, <3>1 DEF SafeRoutes, SettledRoutesAreSafe
    <3>. QED  BY <3>1, <3>2, NoTableClash
  <2>5. ASSUME NEW r \in Robots, Cheapest(r, released), mode' = "rerouting",
               NEW p \in Replans(FutureTable({r}), r, position[r], Pickup[released], clock,
                                 blocked),
               Join(r, p)
        PROVE  SafeRoutes'
    <3> DEFINE tbl == FutureTable({r})  goal == Pickup[released]
    <3>1. r \notin offline /\ goal \in Cells
      BY <2>5, TakersAreSound
    <3>2. Pins(tbl) /\ \A q \in Kept({r}) : q \in Movers => Holds(tbl, q)
      BY <1>1, TableHoldsKept
    <3>3. p \in Replans(tbl, r, position[r], goal, clock, blocked)
      OBVIOUS
    <3> HIDE DEF tbl, goal
    <3>4. FailedAlone => \A q \in Settled \ {r} : Holds(tbl, q)
      <4>1. SUFFICES ASSUME FailedAlone, NEW q \in Settled \ {r} PROVE Holds(tbl, q)
        OBVIOUS
      <4>2. q \in LiveRobots /\ q \notin {r} /\ ClearRoute(q) /\ q \in Movers
        BY <2>1, <4>1 DEF SafeRoutes, SettledRoutesAreSafe
      <4>3. q \in Kept({r})
        BY <4>2, ClearAreKept
      <4>. QED  BY <3>2, <4>2, <4>3
    <3>5. paths'[r] = p /\ \A q \in Driven \ {r} : paths'[q] = paths[q]
      BY <2>5 DEF Join
    <3>6. \A q \in Settled' \ {r} : q \in Settled /\ paths'[q] = paths[q]
      <4>1. SUFFICES ASSUME NEW q \in Settled' \ {r}
                     PROVE  q \in Settled /\ paths'[q] = paths[q]
        OBVIOUS
      <4>2. q \in Driven \ {r} /\ q \notin offline
        BY <1>1, <2>5 DEF Settled, LiveRobots, Driven, Join
      <4>3. paths'[q] = paths[q]
        BY <3>5, <4>2
      <4>. QED  BY <1>1, <2>5, <4>2, <4>3 DEF Settled, LiveRobots
    <3>7. \A t \in Nat : t >= clock => PositionAt(paths'[r], t) = PositionAt(p, t)
      BY <3>5
    <3>. QED  BY <1>1, <2>1, <3>1, <3>2, <3>3, <3>4, <3>6, <3>7, OneMoreRouteIsSafe
  <2>6. CASE NobodyTakesIt
    BY <2>3, <2>6 DEF NobodyTakesIt
  <2>7. CASE \E r \in Robots : Cheapest(r, released) /\ RaiseAfterCommit(r)
    BY <2>4, <2>7 DEF RaiseAfterCommit
  <2>8. CASE \E r \in Robots : Cheapest(r, released) /\ OfferTo(r)
    BY <2>3, <2>5, <2>8 DEF OfferTo, UndoCommit
  <2>. QED  BY <2>6, <2>7, <2>8 DEF RecoverTask
<1>3. Handling' => mode' = "rerouting" /\ TableIsCurrent'
  BY <1>1 DEF Handling, TableIsCurrent
<1>. QED  BY <1>1, <1>2, <1>3, SafeSteps

LEMMA ReroutesAreSafe ==
  ASSUME CourseInv, SafeInv, RerouteOthers PROVE SafeInv'
<1>1. /\ mode = "rerouting" /\ Underway /\ failing \in offline
      /\ \/ CutOff = {} /\ mode' = "running" /\ UNCHANGED <<queue, future>>
         \/ CutOff # {} /\ BeginReplanning(CutOff)
      /\ UNCHANGED <<enabled, clock, paths, position, offline, stopped, blocked>>
  BY DEF RerouteOthers, Underway, CourseInv, HandlingIsSound, scheduleVars, planVars,
         worldVars
<1>2. ASSUME enabled, stopped = {}
      PROVE  /\ Handling' => SafeRoutes' /\ TableIsCurrent'
             /\ mode' = "raised" => ~ FailedAlone'
             /\ mode' # "halted"
  <2>1. /\ SafeRoutes /\ LiveRobots = Movers /\ LiveRobots' = LiveRobots
        /\ FailedCell = position[failing]
    BY <1>1, <1>2, SettledAreLive, FailedCellIsItsPlace
       DEF SafeInv, SafeRoutes, Handling, LiveRobots, Driven
  <2>2. Settled = LiveRobots \ CutOff
    BY <1>1, <2>1 DEF Settled, CutOff
  <2>3. ASSUME Handling'
        PROVE  \A r \in Settled' : r \in Settled /\ r \notin CutOff
    <3>1. CASE CutOff = {}
      BY <2>1, <2>2, <3>1 DEF Settled
    <3>2. CASE CutOff # {} /\ BeginReplanning(CutOff)
      <4>1. mode' = "replanning" /\ queue' = CutOff
        BY <2>3, <3>2 DEF BeginReplanning, Handling
      <4>. QED  BY <2>1, <2>2, <4>1 DEF Settled
    <3>. QED  BY <1>1, <3>1, <3>2
  <2>4. Handling' => SafeRoutes'
    BY <1>1, <2>1, <2>3, RoutesStaySafe
  <2>5. CASE CutOff = {} /\ mode' = "running"
    BY <2>4, <2>5 DEF TableIsCurrent
  <2>6. CASE CutOff # {} /\ BeginReplanning(CutOff)
    <3>1. \A r \in Kept(CutOff) : r \in Settled
      BY <2>2 DEF Kept, LiveRobots
    <3>2. mode' = "replanning" => Handling'
      BY DEF Handling
    <3>3. (mode' = "raised" => ~ FailedAlone') /\ TableIsCurrent'
      BY <1>1, <1>2, <2>1, <2>3, <2>6, <3>1, <3>2, BeginningIsSafe
    <3>4. mode' # "halted"
      BY <2>6 DEF BeginReplanning
    <3>. QED  BY <2>4, <3>3, <3>4
  <2>. QED  BY <1>1, <2>5, <2>6
<1>. QED  BY <1>1, <1>2, SafeSteps

LEMMA ReplansAreSafe ==
  ASSUME CourseInv, SafeInv, Replan PROVE SafeInv'
<1>1. PICK r \in queue :
        /\ LET routes == Replans(future, r, Here(r), goals[r], clock, blocked) IN
           \/ routes # {} /\ Repair(r, routes)
           \/ routes = {} /\ StopSafely(r)
        /\ queue' = queue \ {r}
        /\ mode' = IF queue' = {} THEN "running" ELSE mode
  BY DEF Replan
<1>2. /\ mode = "replanning" /\ mode' \in {"running", "replanning"}
      /\ mode' = "running" => queue' = {}
      /\ UNCHANGED <<enabled, clock, offline, position, blocked>>
  BY <1>1 DEF Replan, worldVars, scheduleVars
<1>3. /\ Underway /\ r \in Movers /\ r \in Driven /\ r \in Robots /\ r \notin offline
      /\ position[r] = Here(r) /\ goals[r] \in Cells /\ Here(r) \in Cells
      /\ clock \in Times /\ clock \in Nat
  <2>1. Underway /\ r \in Movers
    BY <1>2 DEF Underway, CourseInv, HandlingIsSound
  <2>. QED  BY <2>1, MoverIsOnCourse DEF CourseInv, TypeOK
<1>4. ASSUME enabled, stopped = {}, stopped' = {}
      PROVE  SafeRoutes' /\ TableIsCurrent'
  <2>1. SafeRoutes /\ TableIsCurrent /\ Settled \subseteq Robots /\ Settled \subseteq Movers
    BY <1>2, <1>4, SettledAreLive DEF SafeInv, SafeRoutes, Handling
  <2>2. ~ StopSafely(r)
    BY <1>4 DEF StopSafely
  <2> DEFINE goal == goals[r]
  <2>3. PICK p \in Replans(future, r, position[r], goal, clock, blocked) :
          /\ paths' = [paths EXCEPT ![r] = Splice(trace[r], p)]
          /\ future' = ReserveTimedPath(future, r, p)
    BY <1>1, <1>3, <2>2 DEF Repair
  <2> HIDE DEF goal
  <2>4. IsTimedPath(p) /\ IsWalk(p) /\ p.start = clock /\ p.at[clock] = Here(r)
    <3> DEFINE from == position[r]
    <3>1. from \in Cells /\ goal \in Cells /\ clock \in Times
          /\ p \in Replans(future, r, from, goal, clock, blocked)
      BY <1>3 DEF goal
    <3> HIDE DEF from
    <3>2. IsTimedPath(p) /\ IsWalk(p) /\ p.start = clock /\ p.at[clock] = from
      BY <3>1, ReplansAreRoutes
    <3>. QED  BY <1>3, <3>2 DEF from
  <2>5. paths'[r] = Splice(trace[r], p) /\ \A q \in Driven \ {r} : paths'[q] = paths[q]
        /\ DOMAIN paths' = Driven
    BY <1>3, <2>3 DEF Driven
  <2>6. \A t \in Nat : t >= clock => PositionAt(paths'[r], t) = PositionAt(p, t)
    BY <1>3, <2>4, <2>5, SpliceKeepsCourse
  <2>7. \A q \in Settled' \ {r} : q \in Settled /\ paths'[q] = paths[q]
    <3>1. SUFFICES ASSUME NEW q \in Settled' \ {r}
                   PROVE  q \in Settled /\ paths'[q] = paths[q]
      OBVIOUS
    <3>4. Driven' = Driven
      BY <2>3 DEF Driven
    <3>0. LiveRobots' = LiveRobots
      BY <1>2, <3>4 DEF LiveRobots
    <3>5. q \in LiveRobots' /\ (mode' = "replanning" => q \notin queue')
      BY DEF Settled
    <3>2. q \in LiveRobots /\ q \notin queue'
      BY <1>2, <3>0, <3>5
    <3>3. q \notin queue /\ q \in Driven \ {r}
      BY <1>1, <3>2 DEF LiveRobots
    <3>. QED  BY <1>2, <2>5, <3>2, <3>3 DEF Settled
  <2>8. Pins(future) /\ (FailedAlone => \A q \in Settled : Holds(future, q))
    BY <1>2, <2>1 DEF TableIsCurrent
  <2>9. SafeRoutes'
    <3>1. goal \in Cells
      BY <1>3 DEF goal
    <3>. QED  BY <1>2, <1>3, <2>1, <2>3, <2>6, <2>7, <2>8, <3>1, OneMoreRouteIsSafe
  <2>10. TableIsCurrent'
    <3>1. /\ future.vertices \subseteq future'.vertices
          /\ future.edges \subseteq future'.edges
          /\ \A k \in PathVertices(p) : <<k[1], k[2], r>> \in future'.vertices
          /\ \A k \in PathEdges(p) : <<k[1], k[2], k[3], r>> \in future'.edges
      BY <2>3 DEF ReserveTimedPath
    <3>2. Pins(future)'
      BY <1>2, <2>8, <3>1 DEF Pins
    <3>3. ASSUME NEW q \in Settled' \ {r}, FailedAlone' PROVE Holds(future, q)'
      <4>1. Holds(future, q) /\ paths'[q] = paths[q]
        BY <1>2, <2>7, <2>8, <3>3 DEF FailedAlone
      <4>. QED  BY <1>2, <3>1, <4>1 DEF Holds, Remaining
    <3>4. Holds(future, r)'
      <4>1. ASSUME NEW t \in clock .. Horizon
            PROVE  <<PositionAt(paths'[r], t), t, r>> \in future'.vertices
        <5> DEFINE k == <<PositionAt(p, t), t>>
        <5>1. k \in PathVertices(p) /\ t \in Nat /\ t >= clock
          BY <1>3, <2>4 DEF PathVertices
        <5>2. <<k[1], k[2], r>> \in future'.vertices
          <6> HIDE DEF k
          <6>. QED  BY <3>1, <5>1
        <5>. QED  BY <2>6, <5>1, <5>2
      <4>2. ASSUME NEW t \in clock .. Horizon - 1,
                   PositionAt(paths'[r], t) # PositionAt(paths'[r], t + 1)
            PROVE  <<PositionAt(paths'[r], t), PositionAt(paths'[r], t + 1), t, r>>
                     \in future'.edges
        <5> DEFINE k == <<PositionAt(p, t), PositionAt(p, t + 1), t>>
        <5>1. t \in Nat /\ t + 1 \in Nat /\ t >= clock /\ t + 1 >= clock
          BY <1>3
        <5>2. /\ PositionAt(paths'[r], t) = PositionAt(p, t)
              /\ PositionAt(paths'[r], t + 1) = PositionAt(p, t + 1)
          BY <2>6, <5>1
        <5>3. k \in PathEdges(p)
          BY <2>4, <4>2, <5>1, <5>2, EdgesOfMoves
        <5>4. <<k[1], k[2], k[3], r>> \in future'.edges
          <6> HIDE DEF k
          <6>. QED  BY <3>1, <5>3
        <5>. QED  BY <5>2, <5>4
      <4>. QED  BY <1>2, <4>1, <4>2 DEF Holds, Remaining
    <3>. QED  BY <3>2, <3>3, <3>4 DEF TableIsCurrent
  <2>. QED  BY <2>9, <2>10
<1>5. stopped \subseteq stopped'
  BY <1>1 DEF Repair, StopSafely
<1>. QED  BY <1>2, <1>4, <1>5, SafeSteps

(* Where every route is safe and no battery runs low, the check of a joint *)
(* step passes.                                                            *)
LEMMA SafeStepsPass ==
  ASSUME CourseInv, mode = "running", ~ AllDone,
         \A r \in Movers : /\ ClearRoute(r) /\ ~ (battery[r] < Drain)
                           /\ \A q \in Movers \ {r} : ClearOfEachOther(q, r)
  PROVE  StepIsValid
<1>1. Underway
  BY DEF Underway
<1>2. clock \in Nat /\ clock < Horizon
  BY TimeIsLeft
<1>3. clock \in clock .. Horizon /\ clock + 1 \in clock .. Horizon
      /\ clock \in clock .. Horizon - 1
  BY <1>2
<1>4. ASSUME NEW r \in Movers
      PROVE  Feasible(r) /\ \A o \in offline : To(r) # position[o]
  <2>1. /\ IsTimedPath(paths[r]) /\ IsWalk(paths[r]) /\ r \in Robots /\ r \notin offline
        /\ position[r] = From(r)
    BY <1>1, MoverIsOnCourse DEF From
  <2>2. To(r) \in Cells
    BY <1>2, <2>1, PositionOfPath DEF To
  <2>3. From(r) = To(r) \/ AdjacentTo(From(r), To(r))
    BY <1>2, <2>1, WalkSteps DEF From, To
  <2>4. To(r) \notin blocked /\ \A o \in offline : To(r) # position[o]
    BY <1>3 DEF ClearRoute, Remaining, To
  <2>5. status[r] # "OFFLINE"
    BY <2>1 DEF CourseInv, OnlyFailedAreOffline
  <2>6. battery[r] >= Drain
    <3>1. battery[r] \in Nat /\ ~ (battery[r] < Drain)
      BY <2>1 DEF CourseInv, TypeOK
    <3>. QED  BY <3>1
  <2>. QED  BY <2>1, <2>2, <2>3, <2>4, <2>5, <2>6 DEF Feasible
<1>5. ASSUME NEW q \in Movers, NEW r \in Movers, q # r
      PROVE  To(q) # To(r) /\ ~ (From(q) = To(r) /\ From(r) = To(q))
  <2>1. ClearOfEachOther(q, r)
    BY <1>5
  <2>. QED  BY <1>3, <2>1 DEF ClearOfEachOther, Remaining, From, To
<1>. QED  BY <1>4, <1>5 DEF StepIsValid

LEMMA HaltsAreSafe ==
  ASSUME CourseInv, SafeInv, Halt PROVE SafeInv'
<1>1. /\ mode = "running" /\ mode' = "halted" /\ ~ AllDone /\ ~ StepIsValid /\ Underway
      /\ UNCHANGED <<enabled, clock, paths, position, offline, stopped, battery>>
  BY DEF Halt, MayDrive, scheduleVars, planVars, worldVars, Underway
<1>2. ASSUME enabled, stopped = {}, FailedAlone', \A r \in Movers' : ~ (battery'[r] < Drain)
      PROVE  FALSE
  <2>1. SafeRoutes /\ FailedAlone /\ Movers' = Movers
    BY <1>1, <1>2 DEF SafeInv, SafeRoutes, Handling, FailedAlone, Movers, LiveRobots, Driven
  <2>2. SettledRoutesAreSafe /\ Settled = Movers
    BY <1>1, <1>2, <2>1, SettledAreLive DEF SafeRoutes
  <2>3. \A r \in Movers : /\ ClearRoute(r) /\ ~ (battery[r] < Drain)
                          /\ \A q \in Movers \ {r} : ClearOfEachOther(q, r)
    BY <1>1, <1>2, <2>1, <2>2 DEF SettledRoutesAreSafe
  <2>. QED  BY <1>1, <2>3, SafeStepsPass
<1>3. ~ Handling' /\ mode' # "raised"
  BY <1>1 DEF Handling
<1>. QED  BY <1>1, <1>2, <1>3, SafeSteps

LEMMA StepsAreSafe ==
  ASSUME CourseInv, SafeInv, CommitStep PROVE SafeInv'
<1>1. /\ mode = "running" /\ mode' = "running" /\ Underway
      /\ clock \in Nat /\ clock < Horizon /\ clock' = clock + 1
      /\ Driven' = Driven /\ Movers' = Movers
      /\ UNCHANGED <<enabled, paths, offline, stopped, blocked, queue, failing>>
      /\ \A r \in Movers : /\ position'[r] = To(r)
                           /\ \A o \in offline : To(r) # position[o]
      /\ \A r \in Robots \ Movers : position'[r] = position[r]
  BY StepsFollowRoutes
<1>2. ASSUME enabled, stopped = {}
      PROVE  SafeRoutes'
  <2>1. /\ SafeRoutes /\ Settled = LiveRobots /\ Settled = Movers /\ LiveRobots \subseteq Robots
        /\ LiveRobots \cap offline = {} /\ offline \subseteq Robots
    BY <1>1, <1>2, SettledAreLive DEF SafeInv, SafeRoutes, Handling, CourseInv, TypeOK
  <2>2. Settled' = Settled
    BY <1>1, <2>1 DEF Settled, LiveRobots
  <2>3. /\ \A o \in offline : position'[o] = position[o]
        /\ \A t \in clock' .. Horizon : t \in clock .. Horizon
        /\ \A t \in clock' .. Horizon - 1 : t \in clock .. Horizon - 1
        /\ clock + 1 \in clock .. Horizon
    BY <1>1, <2>1
  <2>4. FailedAlone' => FailedAlone
    <3>1. SUFFICES ASSUME FailedAlone', NEW o \in offline, NEW q \in Robots \ {o},
                          position[q] = position[o]
                   PROVE  FALSE
      BY DEF FailedAlone
    <3>2. position'[q] # position'[o]
      BY <1>1, <3>1 DEF FailedAlone
    <3>3. CASE q \in Movers
      <4>1. To(q) = position[q]
        BY <2>1, <2>3, <3>1, <3>3 DEF SafeRoutes, SharersStay, Remaining, To
      <4>. QED  BY <1>1, <3>1, <3>3, <4>1
    <3>4. CASE q \notin Movers
      BY <1>1, <2>3, <3>1, <3>2, <3>4
    <3>. QED  BY <3>3, <3>4
  <2>5. ASSUME FailedAlone' PROVE SettledRoutesAreSafe'
    <3>1. SettledRoutesAreSafe
      BY <2>1, <2>4, <2>5 DEF SafeRoutes
    <3>2. \A r \in Settled' : ClearRoute(r)'
      BY <1>1, <2>2, <2>3, <3>1 DEF SettledRoutesAreSafe, ClearRoute, Remaining
    <3>3. \A r \in Settled' : \A q \in Settled' \ {r} : ClearOfEachOther(q, r)'
      <4>1. SUFFICES ASSUME NEW r \in Settled, NEW q \in Settled \ {r}
                     PROVE  ClearOfEachOther(q, r)'
        BY <2>2
      <4>2. ClearOfEachOther(q, r)
        BY <3>1 DEF SettledRoutesAreSafe
      <4>3. \A t \in clock' .. Horizon : PositionAt(paths'[q], t) # PositionAt(paths'[r], t)
        BY <1>1, <2>3, <4>2 DEF ClearOfEachOther, Remaining
      <4>4. \A t \in clock' .. Horizon - 1 :
              ~ (PositionAt(paths'[q], t) = PositionAt(paths'[r], t + 1)
                   /\ PositionAt(paths'[r], t) = PositionAt(paths'[q], t + 1))
        BY <1>1, <2>3, <4>2 DEF ClearOfEachOther, Remaining
      <4>. QED  BY <4>3, <4>4 DEF ClearOfEachOther, Remaining
    <3>. QED  BY <3>2, <3>3 DEF SettledRoutesAreSafe
  <2>6. SharersStay'
    BY <1>1, <2>1, <2>2, <2>3 DEF SharersStay
  <2>. QED  BY <2>5, <2>6 DEF SafeRoutes
<1>. QED  BY <1>1, <1>2, SafeSteps DEF TableIsCurrent

LEMMA InitSafe == SomeRun => SafeInv
BY DEF SomeRun, Init, SafeInv, Handling, RecoveredRunsGoOn

LEMMA NextSafe == CourseInv /\ SafeInv /\ [Next]_vars => SafeInv'
<1> SUFFICES ASSUME CourseInv, SafeInv, [Next]_vars PROVE SafeInv'
  OBVIOUS
<1>1. CASE Start
  <2>1. SafeRoutes' /\ mode' = "running" /\ UNCHANGED <<enabled, stopped>>
    BY <1>1, PlansBeginSafe DEF Start, scheduleVars
  <2>. QED  BY <2>1, SafeSteps DEF TableIsCurrent
<1>2. CASE NothingToDrive \/ RejectPlan \/ RejectFleet \/ Finalise
  <2>1. mode' = "done"
    BY <1>2 DEF NothingToDrive, RejectPlan, RejectFleet, Refuse, Finalise
  <2>. QED  BY <2>1 DEF SafeInv, Handling, RecoveredRunsGoOn
<1>3. CASE UNCHANGED vars
  <2>1. UNCHANGED <<enabled, mode, clock, paths, offline, stopped, position, battery,
                    blocked, failing, queue, future>>
    BY <1>3 DEF vars, scheduleVars, planVars, worldVars, handlingVars
  <2>2. /\ Settled' = Settled /\ Movers' = Movers
        /\ FailedAlone' = FailedAlone /\ Handling' = Handling
    BY <2>1 DEF Settled, Movers, LiveRobots, Driven, FailedAlone, Handling
  <2>3. /\ SettledRoutesAreSafe => SettledRoutesAreSafe'
        /\ SharersStay => SharersStay'
    BY <2>1, <2>2 DEF SettledRoutesAreSafe, ClearRoute, ClearOfEachOther, Remaining,
                      SharersStay
  <2>4. TableIsCurrent => TableIsCurrent'
    BY <2>1, <2>2 DEF TableIsCurrent, Pins, Holds, Remaining
  <2>5. RecoveredRunsGoOn'
    BY <2>1, <2>2 DEF SafeInv, RecoveredRunsGoOn
  <2>. QED  BY <2>1, <2>2, <2>3, <2>4, <2>5 DEF SafeInv
<1>. QED  BY <1>1, <1>2, <1>3, ObstaclesAreSafe, FailuresAreSafe, OffersAreSafe,
             ReroutesAreSafe, ReplansAreSafe, HaltsAreSafe, StepsAreSafe
          DEF Next, Preflight, HandleEvent

LEMMA SafeContinuation == CourseInv /\ SafeInv => ContinuationIsSafe
<1> SUFFICES ASSUME CourseInv, SafeInv, mode = "running", enabled, stopped = {}, FailedAlone
             PROVE  \A r \in LiveRobots :
                      /\ \A t \in clock .. Horizon :
                           /\ Remaining(r, t) \notin blocked
                           /\ \A o \in offline : Remaining(r, t) # position[o]
                      /\ \A q \in LiveRobots \ {r} :
                           /\ \A t \in clock .. Horizon : Remaining(q, t) # Remaining(r, t)
                           /\ \A t \in clock .. Horizon - 1 :
                                ~ /\ Remaining(q, t) = Remaining(r, t + 1)
                                  /\ Remaining(r, t) = Remaining(q, t + 1)
  BY DEF ContinuationIsSafe
<1>1. Settled = LiveRobots /\ SettledRoutesAreSafe
  BY SettledAreLive DEF SafeInv, Handling
<1>. QED  BY <1>1 DEF SettledRoutesAreSafe, ClearRoute, ClearOfEachOther

(* As long as no robot had to stop, and none failed on a cell it shared,   *)
(* the routes still to be driven meet neither each other, nor an obstacle, *)
(* nor a failed robot, through the horizon; and such a run is neither      *)
(* halted by a check nor left by an exception, unless a battery runs low   *)
(* (recovery_manager.py:30-32, 551-579, 666-676).                          *)
THEOREM RepairsAreSafe == Spec => []RecoveryIsSafe
<1>1. SomeRun => CourseInv /\ SafeInv
  BY InitCourse, InitSafe
<1>2. CourseInv /\ SafeInv /\ [Next]_vars => (CourseInv /\ SafeInv)'
  BY NextCourse, NextSafe
<1>3. CourseInv /\ SafeInv => RecoveryIsSafe
  BY CourseIsKept, SafeContinuation DEF RecoveryIsSafe, SafeInv
<1>. QED  BY <1>1, <1>2, <1>3, PTL DEF Spec

-----------------------------------------------------------------------------
(* The verdict.                                                            *)

LEMMA NextHonest ==
  ASSUME CourseInv, VerdictInv, [Next]_vars
  PROVE  (result' # "none" => mode' = "done") /\ SuccessIsHonest'
<1>1. CASE Finalise
  <2>1. /\ mode \in {"running", "halted"} /\ mode' = "done" /\ Underway
        /\ UNCHANGED <<paths, goals, trace, offline, position, clock>>
        /\ result' = "ok" => AllReached /\ ~ HasProblems(trace, blocked)
    BY <1>1 DEF Finalise, planVars, worldVars, Underway
  <2>0. DOMAIN trace = Driven /\ \A r \in Driven : IsTimedPath(trace[r])
    BY <2>1 DEF CourseInv, RoutesAreDriven
  <2>5. clock \in Nat
    BY DEF CourseInv, TypeOK, Times
  <2>2. /\ DOMAIN trace = Driven /\ \A r \in DOMAIN trace : IsTimedPath(trace[r])
        /\ clock \in Nat
    BY <2>0, <2>5
  <2>3. ASSUME result' = "ok"
        PROVE  /\ \A r \in Driven \ offline : position[r] = goals[r]
               /\ \A q, r \in Driven : q # r =>
                    /\ \A t \in 0 .. clock : PositionAt(trace[q], t) # PositionAt(trace[r], t)
                    /\ \A t \in 0 .. clock - 1 :
                         ~ /\ PositionAt(trace[q], t) = PositionAt(trace[r], t + 1)
                           /\ PositionAt(trace[r], t) = PositionAt(trace[q], t + 1)
    <3>1. ~ VertexConflict(trace) /\ ~ EdgeConflict(trace)
      BY <2>1, <2>3 DEF HasProblems
    <3>2. \A r \in Driven \ offline : position[r] = goals[r]
      BY <2>1, <2>3 DEF AllReached, LiveRobots
    <3>3. ASSUME NEW q \in Driven, NEW r \in Driven, q # r, NEW t \in Nat
          PROVE  /\ PositionAt(trace[q], t) # PositionAt(trace[r], t)
                 /\ ~ /\ PositionAt(trace[q], t) = PositionAt(trace[r], t + 1)
                      /\ PositionAt(trace[r], t) = PositionAt(trace[q], t + 1)
      BY <2>2, <3>1, <3>3, ReplayFindsMeetings, ReplayFindsSwaps
    <3>4. (\A t \in 0 .. clock : t \in Nat) /\ (\A t \in 0 .. clock - 1 : t \in Nat)
      BY <2>2
    <3>. QED  BY <3>2, <3>3, <3>4
  <2>4. Driven' = Driven
    BY <2>1 DEF Driven
  <2>. QED  BY <2>1, <2>3, <2>4 DEF SuccessIsHonest
<1>2. CASE NothingToDrive \/ RejectPlan \/ RejectFleet
  <2>1. /\ mode' = "done" /\ paths' = paths
        /\ result' = "ok" => Driven = {}
    BY <1>2 DEF NothingToDrive, RejectPlan, RejectFleet, Refuse, planVars
  <2>. QED  BY <2>1 DEF SuccessIsHonest, Driven
<1>3. CASE Start \/ HandleEvent \/ Halt \/ CommitStep
  <2>1. mode # "done" /\ result' = result
    BY <1>3 DEF Start, HandleEvent, RecoverObstacle, RecoverFailure, RecoverTask,
                RerouteOthers, Replan, Halt, CommitStep, MayDrive
  <2>. QED  BY <2>1 DEF VerdictInv, SuccessIsHonest
<1>4. CASE UNCHANGED vars
  <2>1. UNCHANGED <<mode, result, paths, goals, trace, offline, position, clock>>
    BY <1>4 DEF vars, planVars, worldVars
  <2>2. Driven' = Driven
    BY <2>1 DEF Driven
  <2>. QED  BY <2>1, <2>2 DEF VerdictInv, SuccessIsHonest
<1>. QED  BY <1>1, <1>2, <1>3, <1>4 DEF Next, Preflight

(* What was driven of a route is what the route says.                      *)
LEMMA TraceIsPrefix ==
  ASSUME CourseInv, Underway, NEW r \in Movers, NEW t \in Nat, t <= clock
  PROVE  PositionAt(trace[r], t) = PositionAt(paths[r], t)
<1>1. /\ r \in Driven /\ IsTimedPath(paths[r]) /\ IsTimedPath(trace[r])
      /\ trace[r].start = paths[r].start /\ trace[r].arrival = clock
  BY MoverIsOnCourse
<1>2. trace[r].start \in Nat /\ clock \in Nat /\ trace[r].start <= clock
  BY <1>1, PathNumbers
<1>3. \A u \in trace[r].start .. clock : PositionAt(trace[r], u) = PositionAt(paths[r], u)
  BY <1>1, DrivenIsOnCourse
<1>4. CASE t >= trace[r].start
  BY <1>2, <1>3, <1>4
<1>5. CASE t < trace[r].start
  <2> DEFINE s == trace[r].start
  <2>1. /\ PositionAt(trace[r], t) = trace[r].at[s] /\ PositionAt(paths[r], t) = paths[r].at[s]
        /\ PositionAt(trace[r], s) = trace[r].at[s] /\ PositionAt(paths[r], s) = paths[r].at[s]
    BY <1>1, <1>2, <1>5, PositionOfPath
  <2>2. PositionAt(trace[r], s) = PositionAt(paths[r], s)
    BY <1>2, <1>3
  <2>. QED  BY <2>1, <2>2
<1>. QED  BY <1>2, <1>4, <1>5

(* A plan driven as it is leaves a trace without problems.                 *)
LEMMA SoundPlansLeaveSoundTraces ==
  ASSUME CourseInv, Underway, offline = {}, stopped = {}, ~ HasProblems(paths, {})
  PROVE  ~ HasProblems(trace, {})
<1>1. /\ Movers = Driven /\ DOMAIN trace = Driven /\ DOMAIN paths = Driven /\ clock \in Nat
      /\ \A r \in Driven : IsTimedPath(paths[r])
  BY DEF Movers, LiveRobots, Driven, CourseInv, TypeOK, RoutesAreDriven, Times
<1>2. ASSUME NEW r \in Driven
      PROVE  IsTimedPath(trace[r]) /\ IsWalk(trace[r]) /\ trace[r].arrival = clock
  BY <1>1, MoverIsOnCourse
<1>3. ASSUME NEW r \in Driven, PathProblem(trace[r], {}) PROVE FALSE
  <2>1. /\ trace[r].start \in Nat /\ trace[r].arrival \in Nat
        /\ \A t \in trace[r].start .. trace[r].arrival : trace[r].at[t] \in Cells
    BY <1>2, PathNumbers
  <2>2. ASSUME NEW t \in trace[r].start .. trace[r].arrival - 1
        PROVE  ManhattanDistance(trace[r].at[t], trace[r].at[t+1]) \in {0, 1}
    <3>1. t \in trace[r].start .. trace[r].arrival /\ t + 1 \in trace[r].start .. trace[r].arrival
      BY <2>1
    <3>2. trace[r].at[t] \in Cells /\ trace[r].at[t+1] \in Cells
      BY <2>1, <3>1
    <3>3. trace[r].at[t] = trace[r].at[t+1] \/ AdjacentTo(trace[r].at[t], trace[r].at[t+1])
      BY <1>2 DEF IsWalk
    <3>. QED  BY <3>2, <3>3, DistanceIsNat DEF AdjacentTo
  <2>. QED  BY <1>3, <2>1, <2>2 DEF PathProblem
<1>4. ASSUME NEW q \in Driven, NEW r \in Driven, q # r, NEW t \in Nat, t <= clock
      PROVE  PositionAt(trace[q], t) # PositionAt(trace[r], t)
  <2>1. ~ VertexConflict(paths)
    BY DEF HasProblems
  <2>2. PositionAt(paths[q], t) # PositionAt(paths[r], t)
    BY <1>1, <1>4, <2>1, ReplayFindsMeetings
  <2>. QED  BY <1>1, <1>4, <2>2, TraceIsPrefix
<1>5. ASSUME NEW q \in Driven, NEW r \in Driven, q # r, NEW t \in Nat, t + 1 <= clock
      PROVE  ~ /\ PositionAt(trace[q], t) = PositionAt(trace[r], t + 1)
               /\ PositionAt(trace[r], t) = PositionAt(trace[q], t + 1)
  <2>1. ~ VertexConflict(paths) /\ ~ EdgeConflict(paths)
    BY DEF HasProblems
  <2>2. ~ /\ PositionAt(paths[q], t) = PositionAt(paths[r], t + 1)
          /\ PositionAt(paths[r], t) = PositionAt(paths[q], t + 1)
    BY <1>1, <1>5, <2>1, ReplayFindsSwaps
  <2>3. /\ PositionAt(trace[q], t) = PositionAt(paths[q], t)
        /\ PositionAt(trace[q], t + 1) = PositionAt(paths[q], t + 1)
        /\ PositionAt(trace[r], t) = PositionAt(paths[r], t)
        /\ PositionAt(trace[r], t + 1) = PositionAt(paths[r], t + 1)
    <3>1. t + 1 \in Nat /\ t <= clock
      BY <1>1, <1>5
    <3>. QED  BY <1>1, <1>5, <3>1, TraceIsPrefix
  <2>. QED  BY <2>2, <2>3
<1>6. /\ \A t \in ReplayTimes(trace) : t \in Nat /\ t <= clock
      /\ \A t : WithinMakespan(trace, t) => t <= clock
  BY <1>1, <1>2 DEF ReplayTimes, WithinMakespan, Times
<1>7. ~ VertexConflict(trace)
  BY <1>1, <1>4, <1>6 DEF VertexConflict
<1>8. ~ EdgeConflict(trace)
  <2>1. SUFFICES ASSUME NEW t \in ReplayTimes(trace), NEW q \in Driven, NEW r \in Driven,
                        WithinMakespan(trace, t + 1),
                        PositionAt(trace[q], t) # PositionAt(trace[q], t + 1),
                        PositionAt(trace[r], t) = PositionAt(trace[q], t + 1),
                        PositionAt(trace[r], t + 1) = PositionAt(trace[q], t)
                 PROVE  FALSE
    BY <1>1 DEF EdgeConflict
  <2>2. q # r /\ t \in Nat /\ t + 1 <= clock
    BY <1>6, <2>1
  <2>. QED  BY <1>5, <2>1, <2>2
<1>9. ~ GoalOccupied(trace)
  <2>1. SUFFICES ASSUME NEW t \in ReplayTimes(trace), NEW q \in Driven, NEW r \in Driven,
                        q # r, t >= trace[q].arrival,
                        PositionAt(trace[r], t) = Goal(trace[q])
                 PROVE  FALSE
    BY <1>1 DEF GoalOccupied
  <2>2. t \in Nat /\ t <= clock
    BY <1>6
  <2>3. PositionAt(trace[q], t) = Goal(trace[q])
    BY <1>2, <2>1, <2>2, PositionOfPath
  <2>. QED  BY <1>4, <2>1, <2>2, <2>3
<1>. QED  BY <1>1, <1>3, <1>7, <1>8, <1>9 DEF HasProblems

LEMMA QuietSteps ==
  ASSUME CourseInv, VerdictInv, [Next]_vars, offline' = {}, blocked' = {}
  PROVE  /\ mode' \in {"idle", "running", "halted", "done"}
         /\ stopped' = {} /\ ~ safeStop'
         /\ mode' # "idle" /\ Underway' =>
              /\ ~ HasProblems(paths', {})
              /\ mode' = "halted" => \E r \in Driven' : battery'[r] < Drain
         /\ UndisturbedRunsArrive'
<1>1. offline = {} /\ blocked = {}
  BY DEF Next, Preflight, HandleEvent, NothingToDrive, RejectPlan, RejectFleet, Refuse, Start,
         RecoverObstacle, RefuseObstacle, DropBesideRoutes, DropWithoutRecovery, DropOnRoutes,
         RecoverFailure, RecoverTask, RerouteOthers, Replan, Halt, CommitStep, Finalise,
         planVars, vars
<1>2. /\ mode \in {"idle", "running", "halted", "done"}
      /\ stopped = {} /\ ~ safeStop
      /\ mode # "idle" /\ Underway =>
           /\ ~ HasProblems(paths, {})
           /\ mode = "halted" => \E r \in Driven : battery[r] < Drain
      /\ UndisturbedRunsArrive
  BY <1>1 DEF VerdictInv, QuietInv
<1>3. CASE NothingToDrive \/ RejectPlan \/ RejectFleet
  <2>1. /\ mode' = "done" /\ result' \in {"ok", "plan_rejected", "fleet_not_ready"}
        /\ result' = "ok" => Driven = {}
        /\ UNCHANGED <<paths, stopped, safeStop>>
    BY <1>3 DEF NothingToDrive, RejectPlan, RejectFleet, Refuse, planVars
  <2>2. ~ Underway'
    BY <2>1 DEF Underway, Driven
  <2>. QED  BY <1>2, <2>1, <2>2 DEF UndisturbedRunsArrive
<1>4. CASE Start
  <2>1. mode' = "running" /\ UNCHANGED <<paths, stopped, safeStop>> /\ ~ HasProblems(paths, {})
    BY <1>4 DEF Start
  <2>. QED  BY <1>2, <2>1 DEF UndisturbedRunsArrive
<1>5. CASE RecoverObstacle
  <2>1. PICK c : RefuseObstacle(c) \/ DropBesideRoutes(c) \/ DropWithoutRecovery(c)
                   \/ DropOnRoutes(c)
    BY <1>5 DEF RecoverObstacle
  <2>2. RefuseObstacle(c)
    BY <2>1 DEF DropBesideRoutes, DropWithoutRecovery, DropOnRoutes
  <2>3. mode = "running" /\ mode' = "running" /\ UNCHANGED <<paths, stopped, safeStop>>
    BY <1>5, <2>2 DEF RecoverObstacle, RefuseObstacle
  <2>. QED  BY <1>2, <2>3 DEF UndisturbedRunsArrive, Underway
<1>6. CASE RecoverFailure
  BY <1>6 DEF RecoverFailure
<1>7. CASE RecoverTask \/ RerouteOthers \/ Replan
  BY <1>2, <1>7 DEF RecoverTask, RerouteOthers, Replan
<1>8. CASE Halt
  <2>1. /\ mode = "running" /\ mode' = "halted" /\ ~ AllDone /\ ~ StepIsValid
        /\ Underway /\ UNCHANGED <<paths, stopped, safeStop, battery>>
    BY <1>8 DEF Halt, MayDrive, planVars, worldVars, Underway
  <2>2. Movers = Driven /\ Driven' = Driven
    BY <1>1, <1>2, <2>1 DEF Movers, LiveRobots, Driven
  <2>3. \E r \in Driven : battery[r] < Drain
    <3>1. SUFFICES ASSUME \A r \in Driven : ~ (battery[r] < Drain) PROVE FALSE
      OBVIOUS
    <3>2. \A r \in Movers : ClearRoute(r)
      BY <1>1 DEF ClearRoute
    <3>3. \A r \in Movers : \A q \in Movers \ {r} : ClearOfEachOther(q, r)
      BY <1>2, <2>1, <2>2, SoundPlansAreApart
    <3>. QED  BY <2>1, <2>2, <3>1, <3>2, <3>3, SafeStepsPass
  <2>. QED  BY <1>2, <2>1, <2>2, <2>3 DEF UndisturbedRunsArrive
<1>9. CASE CommitStep
  <2>1. /\ mode = "running" /\ mode' = "running" /\ Underway
        /\ UNCHANGED <<paths, stopped, safeStop>>
    BY <1>9, StepsFollowRoutes
  <2>. QED  BY <1>2, <2>1 DEF UndisturbedRunsArrive
<1>10. CASE Finalise
  <2>1. /\ \/ mode = "halted"
           \/ mode = "running" /\ (AllDone \/ clock >= limit)
        /\ mode' = "done" /\ Underway
        /\ UNCHANGED <<paths, stopped, safeStop, battery, limit, Driven>>
        /\ result' = IF AnySafeStop THEN "safe_stop"
                     ELSE IF AllReached /\ ~ HasProblems(trace, blocked) THEN "ok"
                     ELSE "failed"
    BY <1>10 DEF Finalise, planVars, worldVars, scheduleVars, Underway, Driven
  <2>2. Movers = Driven /\ LiveRobots = Driven
    BY <1>1, <1>2 DEF Movers, LiveRobots
  <2>3. ASSUME \A r \in Driven : battery[r] >= Drain /\ paths[r].arrival <= limit
        PROVE  result' = "ok"
    <3>1. mode = "running"
      <4>1. SUFFICES ASSUME mode = "halted" PROVE FALSE
        BY <2>1
      <4>2. PICK r \in Driven : battery[r] < Drain
        BY <1>2, <2>1, <4>1
      <4>3. battery[r] \in Nat /\ battery[r] >= Drain
        BY <2>3 DEF CourseInv, TypeOK
      <4>. QED  BY <4>2, <4>3
    <3>2. ~ AnySafeStop
      BY <1>2, <3>1 DEF AnySafeStop
    <3>3. ~ HasProblems(trace, blocked)
      BY <1>1, <1>2, <2>1, <3>1, SoundPlansLeaveSoundTraces
    <3>4. AllReached
      <4>1. CASE AllDone
        BY <2>2, <4>1 DEF AllDone, AllReached
      <4>2. CASE clock >= limit
        <5>1. SUFFICES ASSUME NEW r \in Driven PROVE position[r] = goals[r]
          BY <2>2 DEF AllReached
        <5>2. /\ IsTimedPath(paths[r]) /\ clock \in Nat
              /\ position[r] = PositionAt(paths[r], clock) /\ Goal(paths[r]) = goals[r]
          BY <2>1, <2>2, MoverIsOnCourse
        <5>3. clock >= paths[r].arrival
          <6>1. paths[r].arrival \in Nat /\ limit \in Nat /\ paths[r].arrival <= limit
            BY <2>3, <5>2, PathNumbers DEF CourseInv, ScheduleIsKnown
          <6>. QED  BY <4>2, <5>2, <6>1
        <5>. QED  BY <5>2, <5>3, PositionOfPath
      <4>. QED  BY <2>1, <3>1, <4>1, <4>2
    <3>. QED  BY <2>1, <3>2, <3>3, <3>4
  <2>4. UndisturbedRunsArrive'
    BY <2>1, <2>3 DEF UndisturbedRunsArrive
  <2>5. ~ HasProblems(paths', {})
    BY <1>2, <2>1
  <2>. QED  BY <1>2, <2>1, <2>4, <2>5
<1>11. CASE UNCHANGED vars
  <2>1. UNCHANGED <<mode, result, paths, battery, limit, offline, blocked, stopped, safeStop>>
    BY <1>11 DEF vars, planVars, worldVars, scheduleVars
  <2>2. Driven' = Driven /\ Underway' = Underway
    BY <2>1 DEF Driven, Underway
  <2>3. UndisturbedRunsArrive'
    BY <1>2, <2>1, <2>2 DEF UndisturbedRunsArrive
  <2>. QED  BY <1>2, <2>1, <2>2, <2>3
<1>. QED  BY <1>3, <1>4, <1>5, <1>6, <1>7, <1>8, <1>9, <1>10, <1>11
          DEF Next, Preflight, HandleEvent

LEMMA InitVerdict == SomeRun => VerdictInv
BY DEF SomeRun, Init, VerdictInv, SuccessIsHonest, QuietInv, UndisturbedRunsArrive, Underway

LEMMA NextVerdict == CourseInv /\ VerdictInv /\ [Next]_vars => VerdictInv'
BY NextHonest, QuietSteps DEF VerdictInv, QuietInv

(* A run that says "ok" has every robot that did not fail at its goal, and *)
(* a trace without a collision; and one nothing happened to, whose         *)
(* batteries last and whose routes end within its limit, says so           *)
(* (recovery_manager.py:787-797, test_recovery_manager.py:44).             *)
THEOREM TheVerdictIsRight == Spec => []VerdictIsRight
<1>1. SomeRun => CourseInv /\ VerdictInv
  BY InitCourse, InitVerdict
<1>2. CourseInv /\ VerdictInv /\ [Next]_vars => (CourseInv /\ VerdictInv)'
  BY NextCourse, NextVerdict
<1>3. VerdictInv => VerdictIsRight
  <2>. SUFFICES ASSUME VerdictInv PROVE VerdictIsRight
    OBVIOUS
  <2>1. UndisturbedRunsArrive
    BY DEF VerdictInv, QuietInv, UndisturbedRunsArrive
  <2>. QED  BY <2>1 DEF VerdictInv, VerdictIsRight
<1>. QED  BY <1>1, <1>2, <1>3, PTL DEF Spec
=============================================================================
