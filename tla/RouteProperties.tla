--------------------------- MODULE RouteProperties ---------------------------
(* What RouteExecutor promises of a route that was planned earlier.        *)
EXTENDS RouteExecutor

Others == robots \ {driver}

(* "final_position: where the robot actually ended up", "executed_steps:   *)
(* moves actually performed", "completed_path: cells the robot actually    *)
(* occupied" (execution_result.py:37-46), whatever happened between the    *)
(* planning and the execution, and although a success reports the goal     *)
(* without measuring: the report is about the robot in the simulator.  A   *)
(* run that stops does so where the route cannot be driven on.             *)
ReportIsHonest ==
  stage = "done" /\ report.outcome # "raised" =>
    /\ report.final = position[driver]
    /\ Last(report.completed) = position[driver]
    /\ report.executed = Len(report.completed) - 1
    /\ report.outcome \in {"rejected", "preflight"} => report.executed = 0
    /\ report.outcome \in {"stopped", "completed"} =>
         /\ IsPrefix(report.completed, route.cells)
         /\ battery[driver] = batteryBefore - report.executed * Drain
    /\ report.outcome = "completed" => report.completed = route.cells
    /\ report.outcome = "stopped" =>
         LET next == route.cells[Len(report.completed) + 1] IN
         \/ next \notin Cells
         \/ \E r \in Others : position[r] = next
         \/ next \in Range(static) \cup Range(dynamic)
         \/ battery[driver] < Drain

(* A stale plan cannot cause two robots to overlap                         *)
(* (planning/__init__.py:38-39), nor drive one into an obstacle that was   *)
(* put on its way after the planner had looked: every cell the executor    *)
(* drove through was free at that moment, so it is free still.             *)
StalePlansDoNoHarm ==
  /\ \A q, r \in robots : q # r => position[q] # position[r]
  /\ \A i \in 2 .. Len(completedPath) :
       /\ completedPath[i] \in Cells \ (Range(static) \cup Range(dynamic))
       /\ \A r \in Others : position[r] # completedPath[i]

(* What the planner found is driven to the end when nothing was changed,   *)
(* no robot and no wall the grid has forgotten stands on the way, and the  *)
(* battery holds the moves there are, down to the last of it (robot.py,    *)
(* has_battery_for_move).                                                  *)
UndisturbedRoutesArrive ==
  stage = "done" /\ changes = 0 /\ route.kind = "found" =>
    LET moves == Len(route.cells) - 1 IN
    \/ report.outcome = "completed"
    \/ \E r \in Others : position[r] \in Range(route.cells)
    \/ \E c \in Range(static) \ gridBlocked : c \in Range(route.cells)
    \/ batteryBefore < moves * Drain
=============================================================================
