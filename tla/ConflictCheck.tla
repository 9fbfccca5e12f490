--------------------------- MODULE ConflictCheck ----------------------------
(***************************************************************************)
(* The independent check of a set of timed paths                           *)
(* (robotics/coordination/conflicts.py): it replays the paths against each *)
(* other and knows nothing of reservations or priorities.  P is the dict   *)
(* {robot_id: TimedPath} of successful paths.                              *)
(***************************************************************************)
EXTENDS ReservationTable

(* TimedPath.arrival_time of the last robot bounds every loop over time.   *)
WithinMakespan(P, t) == \E r \in DOMAIN P : t <= P[r].arrival

ReplayTimes(P) ==
  {t \in Times : WithinMakespan(P, t) /\ \E r \in DOMAIN P : P[r].start <= t}

(* Bounds, obstacles (unless check_obstacles is False: pass none) and the  *)
(* length of every transition.                                             *)
PathProblem(p, obstacles) ==
  \/ \E t \in p.start .. p.arrival : p.at[t] \notin Cells \ obstacles
  \/ \E t \in p.start .. p.arrival - 1 :
       ManhattanDistance(p.at[t], p.at[t+1]) \notin {0, 1}

VertexConflict(P) ==
  \E t \in ReplayTimes(P), q, r \in DOMAIN P :
    q # r /\ PositionAt(P[q], t) = PositionAt(P[r], t)

(* Seeded fault: the last transition is not replayed.                    *)
EdgeConflictStopsEarly(P) ==
  \E t \in ReplayTimes(P), q, r \in DOMAIN P :
    /\ WithinMakespan(P, t + 2)
    /\ PositionAt(P[q], t) # PositionAt(P[q], t + 1)
    /\ PositionAt(P[r], t) = PositionAt(P[q], t + 1)
    /\ PositionAt(P[r], t + 1) = PositionAt(P[q], t)

EdgeConflict(P) ==
  \E t \in ReplayTimes(P), q, r \in DOMAIN P :
    /\ WithinMakespan(P, t + 1)
    /\ PositionAt(P[q], t) # PositionAt(P[q], t + 1)
    /\ PositionAt(P[r], t) = PositionAt(P[q], t + 1)
    /\ PositionAt(P[r], t + 1) = PositionAt(P[q], t)

(* Once a robot parks on its goal, does anyone drive through it?           *)
GoalOccupied(P) ==
  \E t \in ReplayTimes(P), q, r \in DOMAIN P :
    q # r /\ t >= P[q].arrival /\ PositionAt(P[r], t) = Goal(P[q])

HasProblems(P, obstacles) ==
  \/ \E r \in DOMAIN P : PathProblem(P[r], obstacles)
  \/ VertexConflict(P)
  \/ EdgeConflict(P)
  \/ GoalOccupied(P)
=============================================================================
