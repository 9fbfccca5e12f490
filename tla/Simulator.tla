----------------------------- MODULE Simulator ------------------------------
(***************************************************************************)
(* The registries of WarehouseSimulator (robotics/simulation/simulator.py):*)
(* robots on the floor, tasks with their lifecycle (robotics/tasks/task.py)*)
(* and the two pointers of an assignment, one in the robot and one in the  *)
(* task; plans proposed by an allocator at one moment and committed at a   *)
(* later one (robotics/allocation/commit.py).  A call that raises changes  *)
(* nothing but a diagnostic text, so it is no action.                      *)
(***************************************************************************)
EXTENDS Warehouse

CONSTANTS
  Robots, Tasks,
  NoRobot, NoTask,    \* None in the two pointers
  CanCarry,           \* pairs <<robot, task>> within the payload capacity
  FloorPlan,          \* the role of every cell, marked before robots come
  Endpoints,          \* task -> the set of its pickup and drop-off cells
  FullBattery, Drain

ASSUME SimulatorAssumption ==
  /\ NoRobot \notin Robots
  /\ NoTask \notin Tasks
  /\ CanCarry \subseteq Robots \X Tasks
  /\ Endpoints \in [Tasks -> SUBSET Cells]
  /\ FullBattery \in Nat /\ Drain \in Nat
  /\ FloorPlan \in [Cells -> LocationTypes]

VARIABLES
  robots,      \* ids registered in _robots
  position, status, battery,
  holds,       \* Robot.assigned_task_id
  tasks,       \* ids registered in _tasks
  taskStatus,
  assignedTo,  \* Task.assigned_robot_id
  plan,        \* the assignments of an AllocationResult not yet committed
  toApply,     \* assignments commit_allocation has still to apply
  raised       \* commit_allocation was left by an exception

robotVars == <<robots, position, status, battery, holds>>
taskVars == <<tasks, taskStatus, assignedTo>>
commitVars == <<plan, toApply, raised>>
vars == <<floorVars, robotVars, taskVars, commitVars>>

RobotStatuses == {"IDLE", "ASSIGNED", "MOVING", "CHARGING", "OFFLINE"}
Nowhere == <<0, 0>>   \* the position of ids that are not registered
TaskStatuses == {"PENDING", "ASSIGNED", "IN_PROGRESS", "COMPLETED", "FAILED"}

(* Everything is called from one thread: commit_allocation ends before     *)
(* anything else begins.                                                   *)
Ready == toApply = {} /\ ~ raised

-----------------------------------------------------------------------------
(* Robots.                                                                 *)

(* Seeded fault: a broken robot takes no space.                          *)
IsOccupiedByWorking(c) ==
  \E r \in robots : position[r] = c /\ status[r] # "OFFLINE"

IsOccupied(c) == \E r \in robots : position[r] = c

AddRobot(r, c) ==
  /\ r \notin robots
  /\ IsTraversable(c)
  /\ ~ IsOccupied(c)
  /\ robots' = robots \cup {r}
  /\ position' = [position EXCEPT ![r] = c]
  /\ status' = [status EXCEPT ![r] = "IDLE"]
  /\ battery' = [battery EXCEPT ![r] = FullBattery]
  /\ holds' = [holds EXCEPT ![r] = NoTask]
  /\ UNCHANGED taskVars

(* Seeded fault: the task is left with the robot that is gone.           *)
RemoveRobotOnly(r) ==
  /\ r \in robots
  /\ robots' = robots \ {r}
  /\ position' = [position EXCEPT ![r] = Nowhere]
  /\ status' = [status EXCEPT ![r] = "IDLE"]
  /\ battery' = [battery EXCEPT ![r] = FullBattery]
  /\ holds' = [holds EXCEPT ![r] = NoTask]
  /\ UNCHANGED taskVars

(* Its open task goes back to PENDING, or fails if work had begun.  The    *)
(* robot leaves the fleet with everything it knew.                         *)
RemoveRobot(r) ==
  /\ r \in robots
  /\ robots' = robots \ {r}
  /\ LET t == holds[r] IN
     IF t \in tasks /\ taskStatus[t] \notin {"COMPLETED", "FAILED"}
     THEN IF taskStatus[t] = "IN_PROGRESS"
          THEN /\ taskStatus' = [taskStatus EXCEPT ![t] = "FAILED"]
               /\ UNCHANGED assignedTo
          ELSE /\ taskStatus[t] = "ASSIGNED"   \* else unassign() raises
               /\ taskStatus' = [taskStatus EXCEPT ![t] = "PENDING"]
               /\ assignedTo' = [assignedTo EXCEPT ![t] = NoRobot]
     ELSE UNCHANGED <<taskStatus, assignedTo>>
  /\ position' = [position EXCEPT ![r] = Nowhere]
  /\ status' = [status EXCEPT ![r] = "IDLE"]
  /\ battery' = [battery EXCEPT ![r] = FullBattery]
  /\ holds' = [holds EXCEPT ![r] = NoTask]
  /\ UNCHANGED tasks

(* Seeded fault: a move is not refused for its cost.                     *)
MoveRobotOnEmpty(r, c) ==
  /\ r \in robots
  /\ status[r] # "OFFLINE"
  /\ c \in Cells
  /\ AdjacentTo(position[r], c)
  /\ ~ IsBlockedByStatic(c) /\ ~ IsBlockedByDynamic(c) /\ ~ IsOccupied(c)
  /\ position' = [position EXCEPT ![r] = c]
  /\ battery' = [battery EXCEPT ![r] = @ - Drain]
  /\ status' = [status EXCEPT ![r] = "MOVING"]
  /\ UNCHANGED <<robots, holds, taskVars>>

(* Seeded fault: the last of the charge is kept.                         *)
ValidateMoveWithAReserve(r, c) ==
  /\ r \in robots
  /\ status[r] # "OFFLINE"
  /\ c \in Cells
  /\ AdjacentTo(position[r], c)
  /\ ~ IsBlockedByStatic(c) /\ ~ IsBlockedByDynamic(c) /\ ~ IsOccupied(c)
  /\ battery[r] > Drain

(* validate_move in its seven checks.                                      *)
ValidateMove(r, c) ==
  /\ r \in robots
  /\ status[r] # "OFFLINE"
  /\ c \in Cells
  /\ AdjacentTo(position[r], c)
  /\ ~ IsBlockedByStatic(c)
  /\ ~ IsBlockedByDynamic(c)
  /\ ~ IsOccupied(c)
  /\ battery[r] >= Drain

(* Robot.move_to, if the move is valid.                                    *)
MoveRobot(r, c) ==
  /\ ValidateMove(r, c)
  /\ position' = [position EXCEPT ![r] = c]
  /\ battery' = [battery EXCEPT ![r] = @ - Drain]
  /\ status' = [status EXCEPT ![r] = "MOVING"]
  /\ UNCHANGED <<robots, holds, taskVars>>

ChargeRobot(r) ==
  /\ r \in robots
  /\ role[position[r]] = "charging"
  /\ status' = [status EXCEPT ![r] = "CHARGING"]
  /\ battery' = [battery EXCEPT ![r] = FullBattery]
  /\ UNCHANGED <<robots, position, holds, taskVars>>

(* Robot.set_status(OFFLINE) polices nothing and leaves the task attached. *)
TakeOffline(r) ==
  /\ r \in robots
  /\ status' = [status EXCEPT ![r] = "OFFLINE"]
  /\ UNCHANGED <<robots, position, battery, holds, taskVars>>

-----------------------------------------------------------------------------
(* Tasks.                                                                  *)

AddTask(t) ==
  /\ t \notin tasks
  /\ \A c \in Endpoints[t] : ~ IsBlockedByStatic(c)
  /\ tasks' = tasks \cup {t}
  /\ UNCHANGED <<robotVars, taskStatus, assignedTo>>

IsAvailable(r) == status[r] = "IDLE" /\ holds[r] = NoTask

MayAssign(r, t) ==
  /\ t \in tasks /\ r \in robots
  /\ taskStatus[t] = "PENDING"
  /\ IsAvailable(r)
  /\ <<r, t>> \in CanCarry

(* assign_task_manually: first the robot, then the task.                   *)
Assign(r, t) ==
  /\ holds' = [holds EXCEPT ![r] = t]
  /\ status' = [status EXCEPT ![r] = "ASSIGNED"]
  /\ taskStatus' = [taskStatus EXCEPT ![t] = "ASSIGNED"]
  /\ assignedTo' = [assignedTo EXCEPT ![t] = r]
  /\ UNCHANGED <<robots, position, battery, tasks>>

AssignTaskManually(r, t) == MayAssign(r, t) /\ Assign(r, t)

(* Task.start, Task.complete and Task.fail: the task's side only.          *)
ChangeTask(t, from, to) ==
  /\ t \in tasks
  /\ taskStatus[t] \in from
  /\ taskStatus' = [taskStatus EXCEPT ![t] = to]
  /\ UNCHANGED <<robotVars, tasks, assignedTo>>

StartTask(t) == ChangeTask(t, {"ASSIGNED"}, "IN_PROGRESS")
CompleteTask(t) == ChangeTask(t, {"IN_PROGRESS"}, "COMPLETED")
FailTask(t) == ChangeTask(t, {"PENDING", "ASSIGNED", "IN_PROGRESS"}, "FAILED")

-----------------------------------------------------------------------------
(* Allocation: propose now, commit later.                                  *)

(* An allocator pairs available robots with pending tasks, each at most    *)
(* once; which of the possible plans it takes is a matter of cost.         *)
IsMatching(p) ==
  \A a, b \in p : a # b => a[1] # b[1] /\ a[2] # b[2]

Propose ==
  /\ Ready /\ plan = {}
  /\ \E p \in SUBSET {a \in Robots \X Tasks : MayAssign(a[1], a[2])} :
       p # {} /\ IsMatching(p) /\ plan' = p
  /\ UNCHANGED <<floorVars, robotVars, taskVars, toApply, raised>>

(* The dry run: all of them can be applied, or none of them is.            *)
DryRunPasses == \A a \in plan : MayAssign(a[1], a[2])

BeginCommit ==
  /\ Ready /\ plan # {}
  /\ toApply' = IF DryRunPasses THEN plan ELSE {}
  /\ plan' = {}
  /\ UNCHANGED <<floorVars, robotVars, taskVars, raised>>

(* One assign_task_manually of the commit loop; it checks for itself.      *)
ApplyOne ==
  /\ ~ raised
  /\ \E a \in toApply :
       IF MayAssign(a[1], a[2])
       THEN Assign(a[1], a[2]) /\ toApply' = toApply \ {a} /\ UNCHANGED raised
       ELSE raised' = TRUE /\ UNCHANGED <<toApply, robotVars, taskVars>>
  /\ UNCHANGED <<floorVars, plan>>

-----------------------------------------------------------------------------
Init ==
  /\ role = FloorPlan
  /\ static = NoObstacles
  /\ dynamic = NoObstacles
  /\ gridBlocked = {}
  /\ robots = {}
  /\ position = [r \in Robots |-> Nowhere]
  /\ status = [r \in Robots |-> "IDLE"]
  /\ battery = [r \in Robots |-> FullBattery]
  /\ holds = [r \in Robots |-> NoTask]
  /\ tasks = {}
  /\ taskStatus = [t \in Tasks |-> "PENDING"]
  /\ assignedTo = [t \in Tasks |-> NoRobot]
  /\ plan = {}
  /\ toApply = {}
  /\ raised = FALSE

(* WarehouseSimulator.add_dynamic_obstacle: not on a robot.                *)
DropObstacle(o, c) == ~ IsOccupied(c) /\ AddDynamicObstacle(o, c)

(* Warehouse.add_static_obstacle knows nothing of robots.                  *)
ObstacleStep ==
  \/ \E o \in ObstacleIds, c \in Cells :
       AddStaticObstacle(o, c) \/ DropObstacle(o, c)
  \/ \E o \in ObstacleIds : RemoveStaticObstacle(o) \/ RemoveDynamicObstacle(o)

RobotStep ==
  \E r \in Robots :
    \/ \E c \in Cells : AddRobot(r, c) \/ MoveRobot(r, c)
    \/ RemoveRobot(r) \/ ChargeRobot(r) \/ TakeOffline(r)

TaskStep ==
  \E t \in Tasks :
    \/ AddTask(t) \/ StartTask(t) \/ CompleteTask(t) \/ FailTask(t)
    \/ \E r \in Robots : AssignTaskManually(r, t)

Next ==
  \/ Ready /\ ObstacleStep /\ UNCHANGED <<robotVars, taskVars, commitVars>>
  \/ Ready /\ RobotStep /\ UNCHANGED <<floorVars, commitVars>>
  \/ Ready /\ TaskStep /\ UNCHANGED <<floorVars, commitVars>>
  \/ Propose
  \/ BeginCommit
  \/ ApplyOne

Spec == Init /\ [][Next]_vars
=============================================================================
