---------------------------- MODULE RouteExecutor ----------------------------
(***************************************************************************)
(* One robot driven along one route (robotics/execution/route_executor.py):*)
(* a planner answers, the world goes on, and only then is the route handed *)
(* to the executor, which takes the cells one by one through the           *)
(* simulator's move_robot and stops at the first refusal.  The executor    *)
(* runs in one call, so nothing else happens between its steps.            *)
(***************************************************************************)
EXTENDS Simulator, SequencesExt

CONSTANTS
  driver,       \* the robot the route is for
  HandMade,     \* lists of cells a caller may pass instead of a PathResult
  Charges,      \* battery levels the fleet may start with
  MaxChanges    \* bound: calls between planning and execution

ASSUME RouteAssumption ==
  /\ driver \in Robots
  /\ HandMade \subseteq Seq(Int \X Int)
  /\ Charges \subseteq 0 .. FullBattery
  /\ MaxChanges \in Nat

VARIABLES
  stage,          \* "asked", "planned", "driving", "done"
  route,          \* what is passed to execute()
  left,           \* the cells of path[1:] still to be driven
  completedPath,
  batteryBefore,
  report,         \* the ExecutionResult, or the exception
  changes         \* calls since the route was made

routeVars == <<stage, route, left, completedPath, batteryBefore, report, changes>>

(* A PathResult that succeeded or did not, or a hand-made list of cells.   *)
RouteOf(kind, cells) == [kind |-> kind, cells |-> cells]

(* What execute() gives back: an ExecutionResult, or SimulationError.      *)
Report(outcome, from, goal, final, executed, completed) ==
  [outcome |-> outcome, start |-> from, goal |-> goal, final |-> final,
   executed |-> executed, completed |-> completed]

NoReport == Report("none", Nowhere, Nowhere, Nowhere, 0, << >>)

WorldStands == UNCHANGED <<floorVars, robotVars, taskVars, commitVars>>

-----------------------------------------------------------------------------
(* Before the execution.                                                   *)

(* The cells one move nearer to the start, then a shortest walk: any one,  *)
(* for planners break ties their own way (module GridSearch).              *)
IsShortestWalk(p, steps) ==
  /\ \A i \in DOMAIN p : p[i] \in DOMAIN steps /\ steps[p[i]] = i - 1
  /\ \A i \in 1 .. Len(p) - 1 : AdjacentTo(p[i], p[i+1])

ShortestWalks(from, goal) ==
  LET steps == StepsFrom(from, {c \in Cells : ~ IsTraversable(c)}) IN
  {p \in [1 .. steps[goal] + 1 -> DOMAIN steps] :
     p[Len(p)] = goal /\ IsShortestWalk(p, steps)}

(* Planners see obstacles, and no robots.                                  *)
PlanRoute(goal) ==
  LET from == position[driver]
      blocked == {c \in Cells : ~ IsTraversable(c)}
  IN  IF from \notin blocked /\ SpatiallyReachable(from, goal, blocked)
      THEN \E p \in ShortestWalks(from, goal) : route' = RouteOf("found", p)
      ELSE route' = RouteOf("not_found", << >>)

MakeRoute ==
  /\ stage = "asked"
  /\ \/ \E goal \in Cells : PlanRoute(goal)
     \/ \E p \in HandMade : route' = RouteOf("cells", p)
  /\ stage' = "planned"
  /\ WorldStands
  /\ UNCHANGED <<left, completedPath, batteryBefore, report, changes>>

(* Anything the simulator and its warehouse let others do before the route *)
(* is executed.                                                            *)
Change ==
  /\ stage = "planned" /\ changes < MaxChanges
  /\ \/ ObstacleStep /\ UNCHANGED robotVars
     \/ RobotStep /\ UNCHANGED floorVars
     \/ /\ \E c \in Cells, type \in LocationTypes : MarkLocation(c, type)
        /\ UNCHANGED robotVars
  /\ changes' = changes + 1
  /\ UNCHANGED <<taskVars, commitVars, stage, route, left, completedPath,
                 batteryBefore, report>>

-----------------------------------------------------------------------------
(* execute().                                                              *)

Finish(r) == stage' = "done" /\ report' = r

(* Nothing was driven, and the robot is reported where it stands.          *)
Decline(outcome, from, goal) ==
  /\ Finish(Report(outcome, from, goal, position[driver], 0, <<position[driver]>>))
  /\ WorldStands
  /\ UNCHANGED <<route, left, completedPath, batteryBefore, changes>>

(* get_robot raises for an id that left the fleet.                         *)
UnknownRobot ==
  /\ stage = "planned" /\ driver \notin robots
  /\ Finish([NoReport EXCEPT !.outcome = "raised"])
  /\ WorldStands
  /\ UNCHANGED <<route, left, completedPath, batteryBefore, changes>>

(* _resolve_path: each cell one step from the last, and none twice.        *)
IsDrivable(cells) ==
  /\ \A i \in 1 .. Len(cells) - 1 : AdjacentTo(cells[i], cells[i+1])
  /\ IsInjective(cells)

IsResolved(r) == r.kind # "not_found" /\ r.cells # << >> /\ IsDrivable(r.cells)

Reject ==
  /\ stage = "planned" /\ driver \in robots
  /\ ~ IsResolved(route)
  /\ Decline("rejected", position[driver], position[driver])

(* Seeded fault: the robot's place is not compared with the route's start. *)
IsOnlineSomewhere == status[driver] # "OFFLINE"

(* _preflight.                                                             *)
PreflightPasses ==
  /\ status[driver] # "OFFLINE"
  /\ route.cells[1] = position[driver]

FailPreflight ==
  /\ stage = "planned" /\ driver \in robots
  /\ IsResolved(route) /\ ~ PreflightPasses
  /\ Decline("preflight", route.cells[1], Last(route.cells))

(* A route of one cell is completed here: there is nothing to drive.       *)
SetOut ==
  /\ stage = "planned" /\ driver \in robots
  /\ IsResolved(route) /\ PreflightPasses
  /\ stage' = "driving"
  /\ left' = Tail(route.cells)
  /\ completedPath' = <<route.cells[1]>>
  /\ batteryBefore' = battery[driver]
  /\ WorldStands
  /\ UNCHANGED <<route, report, changes>>

DriveStep ==
  /\ stage = "driving" /\ left # << >>
  /\ MoveRobot(driver, Head(left))
  /\ left' = Tail(left)
  /\ completedPath' = Append(completedPath, position'[driver])
  /\ UNCHANGED <<floorVars, commitVars, stage, route, batteryBefore, report, changes>>

Driven == completedPath

StopAtRefusal ==
  /\ stage = "driving" /\ left # << >>
  /\ ~ ValidateMove(driver, Head(left))
  /\ Finish(Report("stopped", route.cells[1], Last(route.cells), position[driver],
                   Len(Driven) - 1, Driven))
  /\ WorldStands
  /\ UNCHANGED <<route, left, completedPath, batteryBefore, changes>>

(* The final position of a success is not measured: it is the goal.        *)
ArriveAtGoal ==
  /\ stage = "driving" /\ left = << >>
  /\ LET goal == Last(route.cells) IN
     Finish(Report("completed", route.cells[1], goal, goal,
                   Len(completedPath) - 1, completedPath))
  /\ WorldStands
  /\ UNCHANGED <<route, left, completedPath, batteryBefore, changes>>

Execute ==
  \/ UnknownRobot \/ Reject \/ FailPreflight \/ SetOut
  \/ DriveStep \/ StopAtRefusal \/ ArriveAtGoal

-----------------------------------------------------------------------------
(* The fleet is on the floor, with any charge.  A wall may be there, and   *)
(* the grid may have forgotten it: a second obstacle was put on its cell   *)
(* and removed again (module Warehouse).                                   *)
RouteInit ==
  /\ role = FloorPlan
  /\ static \in {NoObstacles} \cup
       {With(NoObstacles, o, c) : o \in ObstacleIds,
                                  c \in {d \in Cells : FloorPlan[d] = "aisle"}}
  /\ gridBlocked \in {Range(static), {}}
  /\ dynamic = NoObstacles
  /\ robots = Robots
  /\ position \in {p \in [Robots -> Cells \ Range(static)] : IsInjective(p)}
  /\ status = [r \in Robots |-> "IDLE"]
  /\ \E b \in Charges : battery = [r \in Robots |-> b]
  /\ holds = [r \in Robots |-> NoTask]
  /\ tasks = {} /\ taskStatus = [t \in Tasks |-> "PENDING"]
  /\ assignedTo = [t \in Tasks |-> NoRobot]
  /\ plan = {} /\ toApply = {} /\ raised = FALSE
  /\ stage = "asked"
  /\ route = RouteOf("not_found", << >>)
  /\ left = << >> /\ completedPath = << >>
  /\ batteryBefore = 0 /\ changes = 0
  /\ report = NoReport

RouteNext == MakeRoute \/ Change \/ Execute

RouteSpec == RouteInit /\ [][RouteNext]_<<vars, routeVars>>
=============================================================================
