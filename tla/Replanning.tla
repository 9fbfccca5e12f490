----------------------------- MODULE Replanning -----------------------------
(***************************************************************************)
(* Repairing one robot's timed route from where it is now                  *)
(* (robotics/recovery/dynamic_replanner.py), and the reservations of the   *)
(* routes that stay (build_future_reservations).                           *)
(*                                                                         *)
(* DynamicReplanner.replan is SpaceTimePlanner.plan from a later start     *)
(* time.  CoordinatorProperties!SearchIsExact is what is used of it here:  *)
(* it finds a route that arrives as early as any does, or there is none.   *)
(***************************************************************************)
EXTENDS ConflictCheck

(* Only the explicit steps are looked at, not the hold after the arrival.  *)
RouteTouchesCell(p, c, now) ==
  \E t \in p.start .. p.arrival : t >= now /\ p.at[t] = c

(* What a robot drove, then its repaired route from the joint cell on.     *)
Splice(history, future) ==
  [start   |-> history.start,
   arrival |-> future.arrival,
   at      |-> [t \in history.start .. future.arrival |->
                  IF t < future.start THEN history.at[t] ELSE future.at[t]]]

(* A robot that stands at c from now on, as a route of one step.           *)
StandAt(c, now) == [start |-> now, arrival |-> now, at |-> [t \in {now} |-> c]]

Extend(history, c, t) ==
  [start |-> history.start, arrival |-> t,
   at    |-> [u \in history.start .. t |-> IF u = t THEN c ELSE history.at[u]]]

-----------------------------------------------------------------------------
(* build_future_reservations over the paths P of the robots kept, then     *)
(* block_cell for every robot in pinned, a map from robot to cell.         *)

LaterVertices(p, now) == {<<PositionAt(p, t), t>> : t \in now .. Horizon}

LaterEdges(p, now) == {k \in PathEdges(p) : k[3] >= now}

FutureVertices(P, kept, pinned, now) ==
  UNION ({{<<k[1], k[2], r>> : k \in LaterVertices(P[r], now)} : r \in kept}
         \cup {{<<pinned[o], t, o>> : t \in now .. Horizon} : o \in DOMAIN pinned})

(* reserve_vertex raises when another robot holds the key.                 *)
HeldTwice(vertices) ==
  \E v, w \in vertices : v[1] = w[1] /\ v[2] = w[2] /\ v[3] # w[3]

FutureReservations(P, kept, pinned, now) ==
  [vertices |-> FutureVertices(P, kept, pinned, now),
   edges    |-> UNION {{<<k[1], k[2], k[3], r>> : k \in LaterEdges(P[r], now)} :
                       r \in kept}]

-----------------------------------------------------------------------------
(* The routes a replan may return.                                         *)

MayStep(tbl, r, c, d, t, obstacles) ==
  /\ d = c \/ AdjacentTo(c, d)
  /\ d \in Cells \ obstacles
  /\ IsMoveAllowed(tbl, c, d, t, r)

(* The cells robot r can be on after n steps.                              *)
Spread(tbl, r, from, now, obstacles) ==
  LET cells[n \in 0 .. Horizon - now] ==
        IF n = 0 THEN {from}
        ELSE UNION {{d \in Cells : MayStep(tbl, r, c, d, now + n - 1, obstacles)} :
                    c \in cells[n-1]}
  IN  cells

MayPark(tbl, r, c, t) == \A u \in t .. Horizon : IsVertexFree(tbl, c, u, r)

(* Arrivals at which the goal can be reached and held to the horizon.      *)
ArrivalTimes(tbl, r, from, goal, now, obstacles) ==
  IF /\ now <= Horizon
     /\ {from, goal} \subseteq Cells \ obstacles
     /\ IsVertexFree(tbl, from, now, r)
  THEN LET reach == Spread(tbl, r, from, now, obstacles) IN
       {t \in now .. Horizon : goal \in reach[t - now] /\ MayPark(tbl, r, goal, t)}
  ELSE {}

(* The walks from a cell that bring robot r to its goal at a given time;   *)
(* a cell too far from the goal for the time left is not worth a visit.    *)
WalksArriving(tbl, r, from, goal, now, arrival, obstacles) ==
  LET Near(t) == {d \in Cells : ManhattanDistance(d, goal) <= arrival - t}
      walk[t \in now .. arrival] ==
        IF t = now THEN {[u \in {now} |-> from]}
        ELSE UNION {{[u \in now .. t |-> IF u = t THEN d ELSE w[u]] :
                       d \in {e \in Near(t) : MayStep(tbl, r, w[t-1], e, t - 1, obstacles)}} :
                    w \in walk[t-1]}
  IN  walk[arrival]

(* Empty when the replan fails; otherwise which of the earliest routes     *)
(* A-star returns is a matter of the order of its ties.                    *)
Replans(tbl, r, from, goal, now, obstacles) ==
  LET times == ArrivalTimes(tbl, r, from, goal, now, obstacles)
      earliest == {t \in times : \A u \in times : t <= u} IN
  UNION {{[start |-> now, arrival |-> t, at |-> w] :
            w \in WalksArriving(tbl, r, from, goal, now, t, obstacles)} :
         t \in earliest}
=============================================================================
