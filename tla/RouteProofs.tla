----------------------------- MODULE RouteProofs -----------------------------
(***************************************************************************)
(* For every floor plan, fleet, set of tasks and route, what holds of the  *)
(* floor, of the simulator that moves robots over it, and of the executor  *)
(* that drives one of them along a route planned earlier: three modules,   *)
(* each using what is proved of the one before.                            *)
(***************************************************************************)
EXTENDS RouteProperties, SimulatorProperties, GridSearch, GridProofs, TLAPS

-----------------------------------------------------------------------------
(***************************************************************************)
(* For every floor plan, every set of roles and any number of obstacles:   *)
(* the role of a cell, the two registries of obstacles and the blocked     *)
(* cells of the grid stay in step.  FloorInv is inductive: that a wall has *)
(* an owner survives the removal of a wall because the grid forgets the    *)
(* cell, whoever else stands on it.                                        *)
(***************************************************************************)

USE WarehouseAssumption, DimensionAssumption

FloorInv == FloorTypeOK /\ FloorIsConsistent

LEMMA MarkingKeeps ==
  ASSUME FloorInv, NEW c \in Cells, NEW type \in LocationTypes, MarkLocation(c, type)
  PROVE  FloorInv'
<1> USE DEF FloorInv, MarkLocation, IsBlockedByStatic
<1>1. FloorTypeOK'
  BY SMT DEF FloorTypeOK
<1>2. FunctionalCellsAreReachable'
  <2> SUFFICES ASSUME NEW d \in Cells, role'[d] \in Functional
               PROVE  ~ IsBlockedByStatic(d)'
    BY DEF FunctionalCellsAreReachable
  <2>1. CASE d = c
    BY <2>1 DEF FloorTypeOK
  <2>2. CASE d # c
    BY <2>2 DEF FloorTypeOK, FloorIsConsistent, FunctionalCellsAreReachable
  <2> QED BY <2>1, <2>2
<1>3. NoPhantomWalls'
  BY DEF FloorIsConsistent, NoPhantomWalls
<1> QED BY <1>1, <1>2, <1>3 DEF FloorIsConsistent

LEMMA BuildingKeeps ==
  ASSUME FloorInv, NEW o \in ObstacleIds, NEW c \in Cells, AddStaticObstacle(o, c)
  PROVE  FloorInv'
<1> USE DEF FloorInv, AddStaticObstacle, With, IsBlockedByStatic, IdIsUnused
<1>1. FloorTypeOK'
  BY SMT DEF FloorTypeOK
<1>2. FunctionalCellsAreReachable'
  BY DEF FloorIsConsistent, FunctionalCellsAreReachable
<1>3. NoPhantomWalls'
  BY DEF FloorIsConsistent, NoPhantomWalls
<1> QED BY <1>1, <1>2, <1>3 DEF FloorIsConsistent

(* The grid forgets the cell; the cells it still blocks have other owners. *)
LEMMA ClearingKeeps ==
  ASSUME FloorInv, NEW o \in ObstacleIds, RemoveStaticObstacle(o)
  PROVE  FloorInv'
<1> USE DEF FloorInv, RemoveStaticObstacle, Restrict, IsBlockedByStatic
<1>1. FloorTypeOK'
  BY SMT DEF FloorTypeOK
<1>2. FunctionalCellsAreReachable'
  BY DEF FloorIsConsistent, FunctionalCellsAreReachable
<1>3. NoPhantomWalls'
  <2> SUFFICES ASSUME NEW c \in gridBlocked' PROVE IsBlockedByStatic(c)'
    BY DEF NoPhantomWalls
  <2>1. PICK x \in DOMAIN static : static[x] = c
    BY DEF FloorIsConsistent, NoPhantomWalls
  <2>2. x # o
    BY <2>1
  <2> QED BY <2>1, <2>2
<1> QED BY <1>1, <1>2, <1>3 DEF FloorIsConsistent

(* Dynamic obstacles are in no layer but their own.                        *)
LEMMA DynamicObstaclesKeep ==
  ASSUME FloorInv, NEW o \in ObstacleIds,
         \/ RemoveDynamicObstacle(o)
         \/ \E c \in Cells : AddDynamicObstacle(o, c)
  PROVE  FloorInv'
<1>1. FloorTypeOK'
  BY SMT DEF FloorInv, FloorTypeOK, RemoveDynamicObstacle, AddDynamicObstacle, With,
             Restrict
<1>2. UNCHANGED <<role, static, gridBlocked>>
  BY DEF RemoveDynamicObstacle, AddDynamicObstacle
<1> QED BY <1>1, <1>2 DEF FloorInv, FloorIsConsistent, FunctionalCellsAreReachable,
                          NoPhantomWalls, IsBlockedByStatic

LEMMA FloorInvStep == FloorInv /\ [ChangeFloor]_floorVars => FloorInv'
<1> SUFFICES ASSUME FloorInv, [ChangeFloor]_floorVars PROVE FloorInv'
  OBVIOUS
<1>1. CASE ChangeFloor
  BY <1>1, MarkingKeeps, BuildingKeeps, ClearingKeeps, DynamicObstaclesKeep
     DEF ChangeFloor
<1>2. CASE UNCHANGED floorVars
  BY <1>2 DEF FloorInv, FloorTypeOK, FloorIsConsistent, FunctionalCellsAreReachable,
              NoPhantomWalls, IsBlockedByStatic, floorVars
<1> QED BY <1>1, <1>2

(* Whatever is built, marked and removed in whatever order: no cell with a *)
(* function is walled in, and no wall outlives its obstacles               *)
(* (warehouse.py:126-130, 206-232).                                        *)
THEOREM FloorsStayConsistent == FloorSpec => []FloorIsConsistent
<1>1. FloorInit => FloorInv
  BY SMT DEF FloorInit, FloorInv, FloorTypeOK, FloorIsConsistent, NoObstacles,
             FunctionalCellsAreReachable, NoPhantomWalls, IsBlockedByStatic
<1>2. FloorInv => FloorIsConsistent
  BY DEF FloorInv
<1> QED BY <1>1, <1>2, FloorInvStep, PTL DEF FloorSpec
-----------------------------------------------------------------------------
(***************************************************************************)
(* For every floor, fleet and set of tasks: the simulator's registries     *)
(* keep their types, the two pointers of an assignment agree, and a commit *)
(* never stops half way.  SInv is inductive; its last part carries the     *)
(* result of the dry run through the commit loop.                          *)
(***************************************************************************)

USE SimulatorAssumption

-----------------------------------------------------------------------------
(* The floor.                                                              *)

LEMMA OriginIsACell == Nowhere \in Cells
  BY SMT DEF Nowhere, Cells

LEMMA FloorStep ==
  ASSUME FloorTypeOK, ObstacleStep
  PROVE  FloorTypeOK'
<1>1. ASSUME NEW o \in ObstacleIds, NEW c \in Cells, AddStaticObstacle(o, c)
      PROVE  FloorTypeOK'
  BY <1>1, SMT DEF FloorTypeOK, AddStaticObstacle, With
<1>2. ASSUME NEW o \in ObstacleIds, NEW c \in Cells, AddDynamicObstacle(o, c)
      PROVE  FloorTypeOK'
  BY <1>2, SMT DEF FloorTypeOK, AddDynamicObstacle, With
<1>3. ASSUME NEW o \in ObstacleIds, RemoveStaticObstacle(o)
      PROVE  FloorTypeOK'
  BY <1>3, SMT DEF FloorTypeOK, RemoveStaticObstacle, Restrict
<1>4. ASSUME NEW o \in ObstacleIds, RemoveDynamicObstacle(o)
      PROVE  FloorTypeOK'
  BY <1>4, SMT DEF FloorTypeOK, RemoveDynamicObstacle, Restrict
<1> QED BY <1>1, <1>2, <1>3, <1>4 DEF ObstacleStep, DropObstacle

-----------------------------------------------------------------------------
(* Robots and tasks.                                                       *)

RegistryTypeOK ==
  /\ robots \in SUBSET Robots
  /\ position \in [Robots -> Cells]
  /\ status \in [Robots -> RobotStatuses]
  /\ battery \in [Robots -> 0 .. FullBattery]
  /\ holds \in [Robots -> tasks \cup {NoTask}]
  /\ tasks \in SUBSET Tasks
  /\ taskStatus \in [Tasks -> TaskStatuses]
  /\ assignedTo \in [Tasks -> Robots \cup {NoRobot}]

LEMMA RobotStepKeeps ==
  ASSUME RegistryTypeOK, PointersAgree, RobotStep
  PROVE  RegistryTypeOK' /\ PointersAgree'
<1> USE DEF RegistryTypeOK, PointersAgree, InWork, RobotStatuses, TaskStatuses
<1>1. ASSUME NEW r \in Robots, NEW c \in Cells, AddRobot(r, c)
      PROVE  RegistryTypeOK' /\ PointersAgree'
  BY <1>1, SMT DEF AddRobot, taskVars
<1>2. ASSUME NEW r \in Robots, NEW c \in Cells, MoveRobot(r, c)
      PROVE  RegistryTypeOK' /\ PointersAgree'
  BY <1>2, SMT DEF MoveRobot, ValidateMove, taskVars
<1>3. ASSUME NEW r \in Robots, ChargeRobot(r)
      PROVE  RegistryTypeOK' /\ PointersAgree'
  BY <1>3, SMT DEF ChargeRobot, taskVars
<1>4. ASSUME NEW r \in Robots, TakeOffline(r)
      PROVE  RegistryTypeOK' /\ PointersAgree'
  BY <1>4, SMT DEF TakeOffline, taskVars
<1>5. ASSUME NEW r \in Robots, RemoveRobot(r)
      PROVE  RegistryTypeOK' /\ PointersAgree'
  <2>1. RegistryTypeOK'
    BY <1>5, OriginIsACell, SMT DEF RemoveRobot
  <2>2. PointersAgree'
    BY <1>5, SMT DEF RemoveRobot
  <2> QED BY <2>1, <2>2
<1> QED BY <1>1, <1>2, <1>3, <1>4, <1>5 DEF RobotStep

LEMMA AssignKeeps ==
  ASSUME RegistryTypeOK, PointersAgree,
         NEW r \in Robots, NEW t \in Tasks, MayAssign(r, t), Assign(r, t)
  PROVE  RegistryTypeOK' /\ PointersAgree'
  BY SMT DEF RegistryTypeOK, PointersAgree, InWork, RobotStatuses, TaskStatuses,
             MayAssign, IsAvailable, Assign

LEMMA TaskStepKeeps ==
  ASSUME RegistryTypeOK, PointersAgree, TaskStep
  PROVE  RegistryTypeOK' /\ PointersAgree'
<1>1. ASSUME NEW t \in Tasks, AddTask(t)
      PROVE  RegistryTypeOK' /\ PointersAgree'
  BY <1>1, SMT DEF RegistryTypeOK, PointersAgree, InWork, AddTask, robotVars
<1>2. ASSUME NEW t \in Tasks, StartTask(t) \/ CompleteTask(t) \/ FailTask(t)
      PROVE  RegistryTypeOK' /\ PointersAgree'
  BY <1>2, SMT DEF RegistryTypeOK, PointersAgree, InWork, TaskStatuses, StartTask,
                   CompleteTask, FailTask, ChangeTask, robotVars
<1>3. ASSUME NEW t \in Tasks, NEW r \in Robots, AssignTaskManually(r, t)
      PROVE  RegistryTypeOK' /\ PointersAgree'
  BY <1>3, AssignKeeps DEF AssignTaskManually
<1> QED BY <1>1, <1>2, <1>3 DEF TaskStep

LEMMA CellsStayApart ==
  ASSUME RegistryTypeOK, OneCellEach, [Next]_vars
  PROVE  OneCellEach'
<1>1. ASSUME NEW r \in Robots, NEW c \in Cells, AddRobot(r, c) \/ MoveRobot(r, c)
      PROVE  OneCellEach'
  BY <1>1, SMT DEF OneCellEach, RegistryTypeOK, AddRobot, MoveRobot, ValidateMove, IsOccupied
<1>2. ASSUME NEW r \in Robots, RemoveRobot(r)
      PROVE  OneCellEach'
  BY <1>2, SMT DEF OneCellEach, RegistryTypeOK, RemoveRobot
<1>3. CASE UNCHANGED <<robots, position>>
  BY <1>3 DEF OneCellEach
<1>4. ASSUME TaskStep PROVE UNCHANGED <<robots, position>>
  BY <1>4 DEF TaskStep, AddTask, StartTask, CompleteTask, FailTask, ChangeTask,
              AssignTaskManually, Assign, robotVars
<1>5. ASSUME ApplyOne PROVE UNCHANGED <<robots, position>>
  BY <1>5 DEF ApplyOne, Assign, robotVars
<1> QED BY <1>1, <1>2, <1>3, <1>4, <1>5
        DEF Next, RobotStep, ChargeRobot, TakeOffline, Propose, BeginCommit, vars, robotVars

-----------------------------------------------------------------------------
(* The invariant.                                                          *)

LEMMA TypeOKSplits ==
  TypeOK <=> /\ FloorTypeOK
             /\ RegistryTypeOK
             /\ plan \in SUBSET (Robots \X Tasks)
             /\ toApply \in SUBSET (Robots \X Tasks)
             /\ raised \in BOOLEAN
  BY DEF TypeOK, RegistryTypeOK

LEMMA SInvInit == Init => SInv
<1> SUFFICES ASSUME Init PROVE SInv
  OBVIOUS
<1>1. FloorTypeOK
  BY SMT DEF Init, FloorTypeOK, NoObstacles
<1>2. RegistryTypeOK
  BY OriginIsACell, SMT DEF Init, RegistryTypeOK, RobotStatuses, TaskStatuses
<1>3. PointersAgree
  BY SMT DEF Init, PointersAgree, InWork
<1>4. RestCanBeApplied /\ CommitsAreWhole /\ plan = {} /\ toApply = {} /\ raised = FALSE
  BY DEF Init, RestCanBeApplied, IsMatching, CommitsAreWhole
<1> QED BY <1>1, <1>2, <1>3, <1>4, TypeOKSplits DEF SInv

LEMMA SInvStep == SInv /\ [Next]_vars => SInv'
<1> SUFFICES ASSUME SInv, [Next]_vars PROVE SInv'
  OBVIOUS
<1>0. FloorTypeOK /\ RegistryTypeOK /\ PointersAgree /\ RestCanBeApplied
      /\ CommitsAreWhole /\ plan \in SUBSET (Robots \X Tasks)
      /\ toApply \in SUBSET (Robots \X Tasks) /\ raised \in BOOLEAN
  BY TypeOKSplits DEF SInv
<1>1. CASE Ready /\ ObstacleStep /\ UNCHANGED <<robotVars, taskVars, commitVars>>
  <2>1. FloorTypeOK'
    BY <1>0, <1>1, FloorStep
  <2>2. RegistryTypeOK' /\ PointersAgree'
    BY <1>0, <1>1 DEF RegistryTypeOK, PointersAgree, InWork, robotVars, taskVars
  <2>3. RestCanBeApplied' /\ CommitsAreWhole'
    BY <1>0, <1>1 DEF Ready, RestCanBeApplied, IsMatching, CommitsAreWhole, commitVars
  <2> QED BY <1>0, <1>1, <2>1, <2>2, <2>3 DEF SInv, TypeOK, RegistryTypeOK, commitVars
<1>2. CASE Ready /\ (RobotStep \/ TaskStep) /\ UNCHANGED <<floorVars, commitVars>>
  <2>1. FloorTypeOK'
    BY <1>0, <1>2 DEF FloorTypeOK, floorVars
  <2>2. RegistryTypeOK' /\ PointersAgree'
    BY <1>0, <1>2, RobotStepKeeps, TaskStepKeeps
  <2>3. RestCanBeApplied' /\ CommitsAreWhole'
    BY <1>0, <1>2 DEF Ready, RestCanBeApplied, IsMatching, CommitsAreWhole, commitVars
  <2> QED BY <1>0, <1>2, <2>1, <2>2, <2>3 DEF SInv, TypeOK, RegistryTypeOK, commitVars
<1>3. CASE Propose \/ BeginCommit
  <2>1. FloorTypeOK' /\ RegistryTypeOK' /\ PointersAgree'
    BY <1>0, <1>3 DEF Propose, BeginCommit, FloorTypeOK, RegistryTypeOK, PointersAgree,
                      InWork, floorVars, robotVars, taskVars
  <2>2. UNCHANGED raised /\ plan' \in SUBSET (Robots \X Tasks)
        /\ toApply' \in SUBSET (Robots \X Tasks)
    BY <1>0, <1>3 DEF Propose, BeginCommit
  <2>3. IsMatching(plan)' /\ IsMatching(toApply)'
    BY <1>0, <1>3 DEF Propose, BeginCommit, RestCanBeApplied, IsMatching
  <2>4. \A a \in toApply' : MayAssign(a[1], a[2])'
    BY <1>0, <1>3 DEF Propose, BeginCommit, RestCanBeApplied, DryRunPasses, MayAssign,
                      IsAvailable, robotVars, taskVars
  <2> QED BY <1>0, <2>1, <2>2, <2>3, <2>4
          DEF SInv, TypeOK, RegistryTypeOK, RestCanBeApplied, CommitsAreWhole
<1>4. CASE ApplyOne
  <2>1. PICK a \in toApply :
          IF MayAssign(a[1], a[2])
          THEN Assign(a[1], a[2]) /\ toApply' = toApply \ {a} /\ UNCHANGED raised
          ELSE raised' = TRUE /\ UNCHANGED <<toApply, robotVars, taskVars>>
    BY <1>4 DEF ApplyOne
  <2>2. MayAssign(a[1], a[2])
    BY <1>0 DEF RestCanBeApplied
  <2>3. Assign(a[1], a[2]) /\ toApply' = toApply \ {a} /\ UNCHANGED raised
    BY <2>1, <2>2
  <2>4. a[1] \in Robots /\ a[2] \in Tasks
    BY <1>0
  <2>5. FloorTypeOK' /\ UNCHANGED plan
    BY <1>0, <1>4 DEF ApplyOne, FloorTypeOK, floorVars
  <2>6. RegistryTypeOK' /\ PointersAgree'
    BY <1>0, <2>2, <2>3, <2>4, AssignKeeps
  <2>7. IsMatching(plan)' /\ IsMatching(toApply)'
    BY <1>0, <2>3, <2>5 DEF RestCanBeApplied, IsMatching
  <2>8. ASSUME NEW b \in toApply' PROVE MayAssign(b[1], b[2])'
    <3>1. b \in toApply /\ b # a
      BY <2>3
    <3>2. a[1] # b[1] /\ a[2] # b[2]
      BY <1>0, <3>1 DEF RestCanBeApplied, IsMatching
    <3>3. MayAssign(b[1], b[2]) /\ b[1] \in Robots /\ b[2] \in Tasks
      BY <1>0, <3>1 DEF RestCanBeApplied
    <3> QED BY <1>0, <2>3, <2>4, <3>2, <3>3, SMT
            DEF Assign, MayAssign, IsAvailable, RegistryTypeOK
  <2>9. CommitsAreWhole' /\ raised' \in BOOLEAN
    BY <1>0, <2>3 DEF CommitsAreWhole
  <2> QED BY <1>0, <2>3, <2>5, <2>6, <2>7, <2>8, <2>9
          DEF SInv, TypeOK, RegistryTypeOK, RestCanBeApplied
<1>5. CASE UNCHANGED vars
  BY <1>5 DEF SInv, TypeOK, FloorTypeOK, PointersAgree, InWork, RestCanBeApplied,
              IsMatching, MayAssign, IsAvailable, CommitsAreWhole, vars, floorVars,
              robotVars, taskVars, commitVars
<1> QED BY <1>1, <1>2, <1>3, <1>4, <1>5 DEF Next

(* The invariant that carries the others holds in every reachable state of *)
(* the registries, whatever is called in whatever order.                   *)
THEOREM RegistryInvariance == Spec => []SInv
  BY SInvInit, SInvStep, PTL DEF Spec

(* Registries and fields keep their types; batteries stay between empty    *)
(* and full (robot.py:199-206).                                            *)
THEOREM RegistriesAreTyped == Spec => []TypeOK
<1>1. SInv => TypeOK
  BY DEF SInv
<1> QED BY <1>1, RegistryInvariance, PTL

(* The robot's and the task's pointer of an assignment always agree        *)
(* (simulator.py:130-143, 356-361).                                        *)
THEOREM AssignmentsAgree == Spec => []PointersAgree
<1>1. SInv => PointersAgree
  BY DEF SInv
<1> QED BY <1>1, RegistryInvariance, PTL

(* No two registered robots stand on one cell, offline ones included       *)
(* (simulator.py:147-163).                                                 *)
THEOREM RobotsKeepTheirDistance == Spec => []OneCellEach
<1>1. Init => OneCellEach
  BY DEF Init, OneCellEach
<1>2. SInv => RegistryTypeOK
  BY TypeOKSplits DEF SInv
<1>3. SInv /\ OneCellEach /\ [Next]_vars => OneCellEach'
  BY <1>2, CellsStayApart
<1> QED BY <1>1, <1>3, RegistryInvariance, PTL DEF Spec

(* After its dry run a commit applies every assignment without an          *)
(* exception, whatever happened since the plan was made (commit.py:99).    *)
THEOREM CommitsNeverRaise == Spec => []CommitsAreWhole
<1>1. SInv => CommitsAreWhole
  BY DEF SInv
<1> QED BY <1>1, RegistryInvariance, PTL

(* Assignments are whole at every moment, through removals, failures and   *)
(* commits of plans that were made long before.                            *)
THEOREM WholeAssignments == Spec => []AssignmentsAreWhole
<1>1. SInv => AssignmentsAreWhole
  BY DEF SInv, AssignmentsAreWhole
<1> QED BY <1>1, RegistryInvariance, PTL
-----------------------------------------------------------------------------
(***************************************************************************)
(* For every floor, fleet, route and sequence of calls in between: driving *)
(* a stale route harms nobody, and the floor stays consistent.  RouteInv   *)
(* says what the cells driven so far have in common while nothing but the  *)
(* driver moves.                                                           *)
(***************************************************************************)

USE RouteAssumption

(* The fleet and the floor between calls, as proved above.                *)
WorldInv ==
  /\ FloorInv
  /\ RegistryTypeOK /\ PointersAgree /\ OneCellEach
  /\ Ready

(* Nothing is driven before the executor sets out.                         *)
TrailIsTyped ==
  /\ completedPath \in Seq(Cells)
  /\ stage \in {"asked", "planned"} => completedPath = << >>
  /\ stage = "driving" => completedPath # << >>

(* Every cell driven through was free at that moment and is so still.      *)
TrailIsClear ==
  \A i \in 2 .. Len(completedPath) :
    /\ ~ IsBlockedByStatic(completedPath[i])
    /\ ~ IsBlockedByDynamic(completedPath[i])
    /\ \A r \in robots \ {driver} : position[r] # completedPath[i]

RouteInv == WorldInv /\ TrailIsTyped /\ TrailIsClear

LEMMA RouteInvInit == RouteInit => RouteInv
<1> SUFFICES ASSUME RouteInit PROVE RouteInv
  OBVIOUS
<1>1. FloorInv
  <2>0. /\ role = FloorPlan /\ dynamic = NoObstacles
        /\ gridBlocked = Range(static) \/ gridBlocked = {}
    BY DEF RouteInit
  <2>1. NoPhantomWalls
    BY <2>0 DEF NoPhantomWalls, IsBlockedByStatic, Range
  <2>2. ASSUME DOMAIN static \subseteq ObstacleIds,
               \A o \in DOMAIN static : static[o] \in Cells
        PROVE  FloorTypeOK
    <3>1. DOMAIN dynamic = {}
      BY <2>0 DEF NoObstacles
    <3>2. gridBlocked \subseteq Cells
      BY <2>0, <2>2 DEF Range
    <3>3. role \in [Cells -> LocationTypes]
      BY <2>0, SimulatorAssumption DEF SimulatorAssumption
    <3> QED BY <2>2, <3>1, <3>2, <3>3 DEF FloorTypeOK
  <2>3. CASE static = NoObstacles
    <3>1. DOMAIN static = {}
      BY <2>3 DEF NoObstacles
    <3>2. FunctionalCellsAreReachable
      BY <3>1 DEF FunctionalCellsAreReachable, IsBlockedByStatic
    <3> QED BY <2>1, <2>2, <3>1, <3>2 DEF FloorInv, FloorIsConsistent
  <2>4. ASSUME NEW o \in ObstacleIds, NEW c \in Cells, FloorPlan[c] = "aisle",
               static = With(NoObstacles, o, c)
        PROVE  FloorInv
    <3>1. static = [x \in {o} |-> c]
      BY <2>4 DEF With, NoObstacles
    <3>2. FunctionalCellsAreReachable
      BY <2>0, <2>4, <3>1 DEF FunctionalCellsAreReachable, IsBlockedByStatic, Functional
    <3> QED BY <2>1, <2>2, <3>1, <3>2 DEF FloorInv, FloorIsConsistent
  <2> QED BY <2>3, <2>4 DEF RouteInit
<1>2. RegistryTypeOK
  BY SMT DEF RouteInit, RegistryTypeOK, RobotStatuses, TaskStatuses
<1>3. PointersAgree
  BY SMT DEF RouteInit, PointersAgree, InWork
<1>4. OneCellEach
  BY DEF RouteInit, OneCellEach, IsInjective
<1>5. Ready /\ TrailIsTyped /\ TrailIsClear
  BY DEF RouteInit, Ready, TrailIsTyped, TrailIsClear
<1> QED BY <1>1, <1>2, <1>3, <1>4, <1>5 DEF RouteInv, WorldInv

-----------------------------------------------------------------------------
(* A step of the route is a step of the simulator, or marks a cell.        *)

Marks == /\ \E c \in Cells, type \in LocationTypes : MarkLocation(c, type)
         /\ UNCHANGED <<robotVars, taskVars, commitVars>>

LEMMA DrivingIsASimulatorStep ==
  ASSUME Ready, DriveStep
  PROVE  RobotStep /\ UNCHANGED <<floorVars, commitVars>>
<1>1. MoveRobot(driver, Head(left)) /\ Head(left) \in Cells
  BY DEF DriveStep, MoveRobot, ValidateMove
<1> QED BY <1>1 DEF DriveStep, RobotStep

LEMMA RouteStepsAreSimulatorSteps ==
  ASSUME Ready, [RouteNext]_<<vars, routeVars>>
  PROVE  \/ UNCHANGED vars
         \/ Marks
         \/ ObstacleStep /\ UNCHANGED <<robotVars, taskVars, commitVars>>
         \/ RobotStep /\ UNCHANGED <<floorVars, commitVars>>
<1>1. CASE MakeRoute \/ UnknownRobot \/ Reject \/ FailPreflight \/ SetOut
           \/ StopAtRefusal \/ ArriveAtGoal \/ UNCHANGED <<vars, routeVars>>
  BY <1>1 DEF MakeRoute, UnknownRobot, Reject, FailPreflight, SetOut, StopAtRefusal,
              ArriveAtGoal, Decline, WorldStands, vars
<1>2. CASE Change
  BY <1>2 DEF Change, Marks
<1>3. CASE DriveStep
  BY <1>3, DrivingIsASimulatorStep
<1> QED BY <1>1, <1>2, <1>3 DEF RouteNext, Execute

LEMMA MarkingKeepsTheRest ==
  ASSUME WorldInv, Marks
  PROVE  WorldInv'
<1>1. FloorInv'
  BY MarkingKeeps DEF WorldInv, Marks
<1> QED BY <1>1 DEF WorldInv, Marks, RegistryTypeOK, PointersAgree, InWork, OneCellEach,
                    Ready, robotVars, taskVars, commitVars

-----------------------------------------------------------------------------
(* The trail.                                                              *)

LEMMA WorldStep ==
  ASSUME WorldInv, [RouteNext]_<<vars, routeVars>>
  PROVE  WorldInv'
<1>1. CASE Marks
  BY <1>1, MarkingKeepsTheRest
<1>2. CASE UNCHANGED vars
  BY <1>2 DEF WorldInv, FloorInv, FloorTypeOK, FloorIsConsistent, NoPhantomWalls,
              FunctionalCellsAreReachable, IsBlockedByStatic, RegistryTypeOK,
              PointersAgree, InWork, OneCellEach, Ready, vars, floorVars, robotVars,
              taskVars, commitVars
<1>3. CASE ObstacleStep /\ UNCHANGED <<robotVars, taskVars, commitVars>>
  <2>1. FloorInv'
    BY <1>3, FloorInvStep DEF WorldInv, ObstacleStep, DropObstacle, ChangeFloor
  <2> QED BY <1>3, <2>1 DEF WorldInv, RegistryTypeOK, PointersAgree, InWork, OneCellEach,
                           Ready, robotVars, taskVars, commitVars
<1>4. CASE RobotStep /\ UNCHANGED <<floorVars, commitVars>>
  <2>1. FloorInv'
    BY <1>4, FloorInvStep DEF WorldInv
  <2>2. RegistryTypeOK' /\ PointersAgree'
    BY <1>4, RobotStepKeeps DEF WorldInv
  <2>3. OneCellEach'
    BY <1>4, CellsStayApart DEF WorldInv, Next
  <2> QED BY <1>4, <2>1, <2>2, <2>3 DEF WorldInv, Ready, commitVars
<1> QED BY <1>1, <1>2, <1>3, <1>4, RouteStepsAreSimulatorSteps DEF WorldInv

(* Only the driver moves while it drives, and only into a cell it has just *)
(* been told is free.                                                      *)
LEMMA DrivingKeepsTheTrail ==
  ASSUME WorldInv, TrailIsTyped, TrailIsClear, DriveStep
  PROVE  TrailIsTyped' /\ TrailIsClear'
<1> DEFINE c == Head(left)
<1>1. /\ c \in Cells /\ ~ IsBlockedByStatic(c) /\ ~ IsBlockedByDynamic(c)
      /\ ~ IsOccupied(c)
      /\ position' = [position EXCEPT ![driver] = c]
      /\ UNCHANGED <<robots, static, dynamic, stage>>
      /\ stage = "driving"
  BY DEF DriveStep, MoveRobot, ValidateMove, floorVars
<1>2. position \in [Robots -> Cells] /\ robots \subseteq Robots
  BY DEF WorldInv, RegistryTypeOK
<1>3. position'[driver] = c /\ \A r \in robots \ {driver} : position'[r] = position[r]
  BY <1>1, <1>2
<1>4. completedPath \in Seq(Cells) /\ completedPath' = Append(completedPath, c)
  BY <1>3 DEF DriveStep, TrailIsTyped
<1>5. TrailIsTyped'
  BY <1>1, <1>4 DEF TrailIsTyped
<1>6. ASSUME NEW i \in 2 .. Len(completedPath')
      PROVE  /\ ~ IsBlockedByStatic(completedPath'[i])
             /\ ~ IsBlockedByDynamic(completedPath'[i])
             /\ \A r \in robots \ {driver} : position[r] # completedPath'[i]
  <2>1. CASE i = Len(completedPath) + 1
    <3>1. completedPath'[i] = c
      BY <1>4, <2>1
    <3> QED BY <1>1, <3>1 DEF IsOccupied
  <2>2. CASE i # Len(completedPath) + 1
    <3>1. i \in 2 .. Len(completedPath) /\ completedPath'[i] = completedPath[i]
      BY <1>4, <2>2
    <3> QED BY <3>1 DEF TrailIsClear
  <2> QED BY <2>1, <2>2
<1> QED BY <1>1, <1>3, <1>5, <1>6 DEF TrailIsClear, IsBlockedByStatic, IsBlockedByDynamic

LEMMA SettingOutKeepsTheTrail ==
  ASSUME WorldInv, SetOut
  PROVE  TrailIsTyped' /\ TrailIsClear'
<1>1. completedPath' = <<position[driver]>> /\ stage' = "driving"
  BY DEF SetOut, PreflightPasses
<1>2. position[driver] \in Cells
  BY DEF SetOut, WorldInv, RegistryTypeOK
<1> QED BY <1>1, <1>2 DEF TrailIsTyped, TrailIsClear

LEMMA RouteInvStep == RouteInv /\ [RouteNext]_<<vars, routeVars>> => RouteInv'
<1> SUFFICES ASSUME RouteInv, [RouteNext]_<<vars, routeVars>> PROVE RouteInv'
  OBVIOUS
<1> USE DEF RouteInv
<1>1. WorldInv'
  BY WorldStep
<1>2. CASE DriveStep
  BY <1>1, <1>2, DrivingKeepsTheTrail
<1>3. CASE SetOut
  BY <1>1, <1>3, SettingOutKeepsTheTrail
<1>4. CASE MakeRoute \/ Change
  BY <1>1, <1>4 DEF MakeRoute, Change, TrailIsTyped, TrailIsClear
<1>5. CASE UnknownRobot \/ Reject \/ FailPreflight \/ StopAtRefusal \/ ArriveAtGoal
           \/ UNCHANGED <<vars, routeVars>>
  <2>1. UNCHANGED <<completedPath, robots, position, static, dynamic>>
    BY <1>5 DEF UnknownRobot, Reject, FailPreflight, StopAtRefusal, ArriveAtGoal,
                Decline, WorldStands, vars, routeVars, floorVars, robotVars
  <2>2. stage' \in {"done", stage}
    BY <1>5 DEF UnknownRobot, Reject, FailPreflight, StopAtRefusal, ArriveAtGoal,
                Decline, Finish, routeVars
  <2> QED BY <1>1, <2>1, <2>2 DEF TrailIsTyped, TrailIsClear, IsBlockedByStatic,
                                  IsBlockedByDynamic
<1> QED BY <1>2, <1>3, <1>4, <1>5 DEF RouteNext, Execute

-----------------------------------------------------------------------------
(* Whatever the floor, the route and the calls in between, no two robots   *)
(* share a cell, and no cell the driver entered held an obstacle or        *)
(* another robot (planning/__init__.py:38-39).                             *)
THEOREM StaleRoutesAreHarmless == RouteSpec => []StalePlansDoNoHarm
<1>1. RouteInv => StalePlansDoNoHarm
  <2> SUFFICES ASSUME RouteInv PROVE StalePlansDoNoHarm
    OBVIOUS
  <2>1. \A i \in 2 .. Len(completedPath) : completedPath[i] \in Cells
    BY DEF RouteInv, TrailIsTyped
  <2> QED BY <2>1 DEF RouteInv, WorldInv, OneCellEach, TrailIsClear, StalePlansDoNoHarm,
                      Others, IsBlockedByStatic, IsBlockedByDynamic, Range
<1> QED BY <1>1, RouteInvInit, RouteInvStep, PTL DEF RouteSpec

(* The floor a route is driven on stays consistent, from a floor on which  *)
(* the grid has forgotten a wall too.                                      *)
THEOREM FloorsUnderRoutesStayConsistent == RouteSpec => []FloorIsConsistent
<1>1. RouteInv => FloorIsConsistent
  BY DEF RouteInv, WorldInv, FloorInv
<1> QED BY <1>1, RouteInvInit, RouteInvStep, PTL DEF RouteSpec
-----------------------------------------------------------------------------
(* The report.  Its invariant relates four things that every move changes  *)
(* together: the cells driven, the cells left, the place of the robot and  *)
(* its battery.                                                            *)

RouteIsTyped ==
  /\ route.cells \in Seq(Int \X Int)
  /\ batteryBefore \in Int
  /\ stage = "driving" => left \in Seq(Int \X Int)

DrivenSoFar ==
  stage = "driving" =>
    /\ driver \in robots /\ status[driver] # "OFFLINE"
    /\ IsResolved(route)
    /\ Len(completedPath) + Len(left) = Len(route.cells)
    /\ \A i \in 1 .. Len(completedPath) : completedPath[i] = route.cells[i]
    /\ \A i \in 1 .. Len(left) : left[i] = route.cells[Len(completedPath) + i]
    /\ position[driver] = completedPath[Len(completedPath)]
    /\ battery[driver] = batteryBefore - (Len(completedPath) - 1) * Drain

ReportInv == RouteInv /\ RouteIsTyped /\ DrivenSoFar /\ ReportIsHonest

(* Walks are sequences of cells that can be driven over, from where the    *)
(* planner was told, no cell twice.                                        *)
LEMMA WalksAreRoutes ==
  ASSUME NEW from \in Cells, NEW goal, IsTraversable(from),
         SpatiallyReachable(from, goal, {c \in Cells : ~ IsTraversable(c)}),
         NEW p \in ShortestWalks(from, goal)
  PROVE  /\ p \in Seq(Cells) /\ p # << >> /\ p[1] = from
         /\ IsDrivable(p)
         /\ \A i \in 1 .. Len(p) : IsTraversable(p[i])
<1> DEFINE b == {c \in Cells : ~ IsTraversable(c)}
           steps == StepsFrom(from, b)
           S == {c \in Cells : IsTraversable(c)}
<1>1. /\ goal \in DOMAIN steps
      /\ \A c \in DOMAIN steps : /\ steps[c] \in Nat
                                 /\ c \in {from} \cup (Cells \ b)
                                 /\ steps[c] = 0 => c = from
  BY StepsHold DEF SpatiallyReachable
<1>2. /\ p \in [1 .. steps[goal] + 1 -> DOMAIN steps]
      /\ IsShortestWalk(p, steps)
  BY DEF ShortestWalks
<1> HIDE DEF steps
<1>3. DOMAIN steps \subseteq S
  BY <1>1
<1> DEFINE n == steps[goal] + 1
<1>4. n \in Nat /\ n >= 1
  BY <1>1
<1> HIDE DEF n, S
<1>5. p \in [1 .. n -> S]
  BY <1>2, <1>3 DEF n
<1>6. p \in Seq(S) /\ Len(p) = n /\ DOMAIN p = 1 .. n
  BY <1>4, <1>5
<1>7. /\ \A i \in 1 .. n : steps[p[i]] = i - 1
      /\ \A i \in 1 .. n - 1 : AdjacentTo(p[i], p[i+1])
  BY <1>2, <1>6 DEF IsShortestWalk
<1>8. p[1] = from
  <2>1. 1 \in 1 .. n /\ 1 - 1 = 0
    BY <1>4
  <2>2. p[1] \in DOMAIN steps /\ steps[p[1]] = 0
    BY <1>2, <1>7, <2>1 DEF n
  <2>. QED  BY <1>1, <2>2
<1>9. IsInjective(p)
  <2>1. ASSUME NEW i \in 1 .. n, NEW j \in 1 .. n, p[i] = p[j] PROVE i = j
    <3>1. i - 1 = j - 1
      BY <1>7, <2>1
    <3>. QED  BY <3>1
  <2>. QED  BY <1>6, <2>1 DEF IsInjective
<1>10. p \in Seq(Cells) /\ p # << >>
  BY <1>4, <1>6 DEF S
<1>11. \A i \in 1 .. Len(p) : IsTraversable(p[i])
  BY <1>5, <1>6 DEF S
<1>. QED  BY <1>6, <1>7, <1>8, <1>9, <1>10, <1>11 DEF IsDrivable

LEMMA ReportInvInit == RouteInit => ReportInv
BY RouteInvInit DEF RouteInit, ReportInv, RouteIsTyped, DrivenSoFar, ReportIsHonest, RouteOf

LEMMA MakingKeepsTypes ==
  ASSUME WorldInv, RouteIsTyped, MakeRoute
  PROVE  RouteIsTyped'
<1>1. CASE \E q \in HandMade : route' = RouteOf("cells", q)
  <2>1. route'.cells \in Seq(Int \X Int)
    BY <1>1 DEF RouteOf, RouteAssumption
  <2>. QED  BY <2>1 DEF MakeRoute, RouteIsTyped
<1>2. CASE \E goal \in Cells : PlanRoute(goal)
  <2>1. PICK goal \in Cells : PlanRoute(goal)
    BY <1>2
  <2>2. stage' = "planned" /\ UNCHANGED <<left, batteryBefore>>
    BY DEF MakeRoute
  <2>3. position[driver] \in Cells
    BY DEF WorldInv, RegistryTypeOK
  <2>4. CASE route' = RouteOf("not_found", << >>)
    <3>1. route'.cells = << >>
      BY <2>4 DEF RouteOf
    <3>2. << >> \in Seq(Int \X Int)
      OBVIOUS
    <3>. QED  BY <2>2, <3>1, <3>2 DEF RouteIsTyped
  <2>5. CASE route' # RouteOf("not_found", << >>)
    <3> DEFINE b == {c \in Cells : ~ IsTraversable(c)}
    <3>1. /\ IsTraversable(position[driver])
          /\ SpatiallyReachable(position[driver], goal, b)
          /\ \E q \in ShortestWalks(position[driver], goal) : route' = RouteOf("found", q)
      BY <2>1, <2>3, <2>5 DEF PlanRoute
    <3>2. PICK q \in ShortestWalks(position[driver], goal) : route' = RouteOf("found", q)
      BY <3>1
    <3>3. q \in Seq(Cells)
      BY <2>3, <3>1, <3>2, WalksAreRoutes
    <3>4. q \in Seq(Int \X Int)
      BY <3>3, DimensionAssumption DEF Cells
    <3>5. route'.cells = q
      BY <3>2 DEF RouteOf
    <3>. QED  BY <2>2, <3>4, <3>5 DEF RouteIsTyped
  <2>. QED  BY <2>4, <2>5
<1>. QED  BY <1>1, <1>2 DEF MakeRoute

(* Every move takes one cell from the route and pays for it.               *)
LEMMA DrivingKeepsTheAccount ==
  ASSUME ReportInv, DriveStep
  PROVE  RouteIsTyped' /\ DrivenSoFar'
<1> DEFINE k == Len(completedPath)
           c == Head(left)
<1>1. /\ stage = "driving" /\ left # << >> /\ ValidateMove(driver, c)
      /\ position' = [position EXCEPT ![driver] = c]
      /\ battery' = [battery EXCEPT ![driver] = @ - Drain]
      /\ status' = [status EXCEPT ![driver] = "MOVING"]
      /\ left' = Tail(left)
      /\ completedPath' = Append(completedPath, position'[driver])
      /\ UNCHANGED <<robots, stage, route, batteryBefore>>
  BY DEF DriveStep, MoveRobot
<1>2. /\ position \in [Robots -> Cells] /\ status \in [Robots -> RobotStatuses]
      /\ battery \in [Robots -> 0 .. FullBattery]
      /\ completedPath \in Seq(Cells) /\ completedPath # << >>
      /\ route.cells \in Seq(Int \X Int) /\ left \in Seq(Int \X Int)
      /\ batteryBefore \in Int
  BY <1>1 DEF ReportInv, RouteInv, WorldInv, RegistryTypeOK, TrailIsTyped, RouteIsTyped
<1>3. /\ driver \in robots
      /\ IsResolved(route)
      /\ k + Len(left) = Len(route.cells)
      /\ \A i \in 1 .. k : completedPath[i] = route.cells[i]
      /\ \A i \in 1 .. Len(left) : left[i] = route.cells[k + i]
      /\ battery[driver] = batteryBefore - (k - 1) * Drain
  BY <1>1 DEF ReportInv, DrivenSoFar
<1>4. c \in Cells
  BY <1>1 DEF ValidateMove
<1>5. position'[driver] = c /\ battery'[driver] = battery[driver] - Drain
      /\ status'[driver] = "MOVING"
  BY <1>1, <1>2
<1>6. /\ completedPath' = Append(completedPath, c)
      /\ Len(completedPath') = k + 1 /\ completedPath'[k+1] = c
      /\ \A i \in 1 .. k : completedPath'[i] = completedPath[i]
  BY <1>1, <1>2, <1>4, <1>5
<1>7. /\ left' \in Seq(Int \X Int) /\ Len(left') = Len(left) - 1
      /\ \A i \in 1 .. Len(left') : left'[i] = left[i+1]
      /\ c = left[1] /\ Len(left) \in Nat /\ Len(left) >= 1
  BY <1>1, <1>2
<1>8. k \in Nat /\ k >= 1
  BY <1>2
<1> HIDE DEF k, c
<1>9. c = route.cells[k+1]
  BY <1>3, <1>7
<1>10. \A i \in 1 .. Len(completedPath') : completedPath'[i] = route.cells[i]
  <2>1. \A i \in 1 .. k + 1 : i = k + 1 \/ i \in 1 .. k
    BY <1>8
  <2>. QED  BY <1>3, <1>6, <1>9, <2>1
<1>11. \A i \in 1 .. Len(left') : left'[i] = route.cells[(k + 1) + i]
  <2>1. ASSUME NEW i \in 1 .. Len(left') PROVE left'[i] = route.cells[(k + 1) + i]
    <3>1. i + 1 \in 1 .. Len(left) /\ k + (i + 1) = (k + 1) + i
      BY <1>7, <1>8
    <3>2. left[i+1] = route.cells[k + (i + 1)]
      BY <1>3, <3>1
    <3>. QED  BY <1>7, <3>1, <3>2
  <2>. QED  BY <2>1
<1>12. battery'[driver] = batteryBefore - ((k + 1) - 1) * Drain
  <2>1. Drain \in Int
    BY DEF SimulatorAssumption
  <2>2. ((k + 1) - 1) * Drain = (k - 1) * Drain + Drain
    BY <1>8, <2>1
  <2>3. (k - 1) * Drain \in Int
    BY <1>8, <2>1
  <2>. QED  BY <1>2, <1>3, <1>5, <2>1, <2>2, <2>3
<1>13. (k + 1) + Len(left') = Len(route.cells)
  <2> DEFINE m == Len(left)
             n == Len(left')
             l == Len(route.cells)
  <2>1. k \in Nat /\ m \in Nat /\ k + m = l /\ n = m - 1
    BY <1>3, <1>7, <1>8
  <2> HIDE DEF m, n, l
  <2>2. (k + 1) + n = l
    BY <2>1
  <2>. QED  BY <2>2 DEF m, n, l
<1>14. RouteIsTyped'
  BY <1>1, <1>2, <1>7 DEF RouteIsTyped
<1>15. IsResolved(route)'
  BY <1>1, <1>3 DEF IsResolved, IsDrivable, IsInjective
<1>16. DrivenSoFar'
  BY <1>1, <1>3, <1>5, <1>6, <1>10, <1>11, <1>12, <1>13, <1>15 DEF DrivenSoFar
<1>. QED  BY <1>14, <1>16

LEMMA SettingOutOpensTheAccount ==
  ASSUME ReportInv, SetOut
  PROVE  RouteIsTyped' /\ DrivenSoFar'
<1>1. /\ driver \in robots /\ IsResolved(route) /\ status[driver] # "OFFLINE"
      /\ route.cells[1] = position[driver]
      /\ stage' = "driving" /\ left' = Tail(route.cells)
      /\ completedPath' = <<route.cells[1]>> /\ batteryBefore' = battery[driver]
      /\ UNCHANGED <<route, robots, position, status, battery>>
  BY DEF SetOut, PreflightPasses, WorldStands, robotVars
<1>2. /\ route.cells \in Seq(Int \X Int) /\ route.cells # << >>
      /\ battery[driver] \in Int
  BY <1>1 DEF ReportInv, RouteIsTyped, IsResolved, RouteInv, WorldInv, RegistryTypeOK
<1>3. /\ left' \in Seq(Int \X Int) /\ 1 + Len(left') = Len(route.cells)
      /\ \A i \in 1 .. Len(left') : left'[i] = route.cells[1+i]
  BY <1>1, <1>2
<1>4. Len(completedPath') = 1 /\ completedPath'[1] = route.cells[1]
  BY <1>1
<1>5. battery'[driver] = batteryBefore' - (1 - 1) * Drain
  <2>1. Drain \in Int
    BY DEF SimulatorAssumption
  <2>2. (1 - 1) * Drain = 0
    BY <2>1
  <2>. QED  BY <1>1, <1>2, <2>2
<1>6. IsResolved(route)'
  BY <1>1 DEF IsResolved, IsDrivable, IsInjective
<1>7. RouteIsTyped'
  BY <1>1, <1>2, <1>3 DEF RouteIsTyped
<1>8. \A i \in 1 .. 1 : i = 1
  OBVIOUS
<1>9. DrivenSoFar'
  BY <1>1, <1>3, <1>4, <1>5, <1>6, <1>8 DEF DrivenSoFar
<1>. QED  BY <1>7, <1>9

(* What is known of the account when the robot stops or arrives.           *)
LEMMA AccountOf ==
  ASSUME ReportInv, stage = "driving"
  PROVE  /\ driver \in robots /\ robots \subseteq Robots /\ IsResolved(route)
         /\ position[driver] = Last(completedPath)
         /\ position[driver] \in Cells
         /\ battery[driver] = batteryBefore - (Len(completedPath) - 1) * Drain
         /\ battery[driver] \in Int
         /\ route.cells \in Seq(Int \X Int)
         /\ Len(completedPath) \in 1 .. Len(route.cells)
         /\ completedPath \in Seq(Int \X Int)
         /\ IsPrefix(completedPath, route.cells)
         /\ left # << >> => /\ Len(completedPath) < Len(route.cells)
                            /\ Head(left) = route.cells[Len(completedPath) + 1]
         /\ left = << >> => completedPath = route.cells
<1> DEFINE k == Len(completedPath)
<1>1. /\ position \in [Robots -> Cells] /\ battery \in [Robots -> 0 .. FullBattery]
      /\ robots \subseteq Robots /\ completedPath \in Seq(Cells) /\ completedPath # << >>
      /\ route.cells \in Seq(Int \X Int) /\ left \in Seq(Int \X Int)
  BY DEF ReportInv, RouteInv, WorldInv, RegistryTypeOK, TrailIsTyped, RouteIsTyped
<1>2. /\ driver \in robots
      /\ IsResolved(route)
      /\ k + Len(left) = Len(route.cells)
      /\ \A i \in 1 .. k : completedPath[i] = route.cells[i]
      /\ \A i \in 1 .. Len(left) : left[i] = route.cells[k + i]
      /\ position[driver] = completedPath[k]
      /\ battery[driver] = batteryBefore - (k - 1) * Drain
  BY DEF ReportInv, DrivenSoFar
<1>3. completedPath \in Seq(Int \X Int)
  BY <1>1, DimensionAssumption DEF Cells
<1>4. k \in Nat /\ k >= 1 /\ Len(left) \in Nat /\ Len(route.cells) \in Nat
      /\ k <= Len(route.cells)
  <2>1. k \in Nat /\ Len(left) \in Nat /\ Len(route.cells) \in Nat
    BY <1>1
  <2>2. k # 0
    BY <1>1
  <2>. QED  BY <1>2, <2>1, <2>2
<1>5. IsPrefix(completedPath, route.cells)
  <2>1. SubSeq(completedPath, 1, k) = SubSeq(route.cells, 1, k)
    BY <1>1, <1>2, <1>3, <1>4
  <2>. QED  BY <1>4, <2>1 DEF IsPrefix
<1>6. left # << >> => k < Len(route.cells) /\ Head(left) = route.cells[k+1]
  <2>1. left # << >> => Len(left) >= 1 /\ Head(left) = left[1]
    BY <1>1
  <2>. QED  BY <1>2, <1>4, <2>1
<1>7. left = << >> => completedPath = route.cells
  <2>1. left = << >> => Len(left) = 0
    OBVIOUS
  <2>2. left = << >> => k = Len(route.cells)
    BY <1>2, <1>4, <2>1
  <2>3. \A s, t \in Seq(Int \X Int) :
          Len(s) = Len(t) /\ (\A i \in 1 .. Len(s) : s[i] = t[i]) => s = t
    <3> TAKE s, t \in Seq(Int \X Int)
    <3> HAVE Len(s) = Len(t) /\ (\A i \in 1 .. Len(s) : s[i] = t[i])
    <3>1. DOMAIN s = 1 .. Len(s) /\ DOMAIN t = 1 .. Len(s)
      OBVIOUS
    <3>2. s = [i \in 1 .. Len(s) |-> s[i]] /\ t = [i \in 1 .. Len(s) |-> t[i]]
      BY <3>1
    <3>. QED  BY <3>1, <3>2
  <2>. QED  BY <1>1, <1>2, <1>3, <2>2, <2>3
<1>8. battery[driver] \in Int /\ position[driver] \in Cells
  BY <1>1, <1>2
<1>. QED  BY <1>1, <1>2, <1>3, <1>4, <1>5, <1>6, <1>7, <1>8 DEF Last

(* A robot stops before a cell it may not enter.  It is not the one it     *)
(* stands on, and it is one step away.                                     *)
LEMMA ARefusalHasAReason ==
  ASSUME ReportInv, StopAtRefusal
  PROVE  LET next == route.cells[Len(completedPath) + 1] IN
         \/ next \notin Cells
         \/ \E r \in robots \ {driver} : position[r] = next
         \/ next \in Range(static) \cup Range(dynamic)
         \/ battery[driver] < Drain
<1> DEFINE k == Len(completedPath)
           next == route.cells[k+1]
<1>1. stage = "driving" /\ left # << >> /\ ~ ValidateMove(driver, Head(left))
  BY DEF StopAtRefusal
<1>2. /\ driver \in robots /\ IsDrivable(route.cells)
      /\ position[driver] = completedPath[k]
      /\ battery[driver] \in Int /\ route.cells \in Seq(Int \X Int)
      /\ k \in 1 .. Len(route.cells) /\ k < Len(route.cells)
      /\ Head(left) = next
  BY <1>1, AccountOf DEF IsResolved, Last
<1>3. status[driver] # "OFFLINE" /\ completedPath[k] = route.cells[k]
  BY <1>1, <1>2 DEF ReportInv, DrivenSoFar
<1>4. k \in 1 .. Len(route.cells) - 1 /\ k + 1 \in 1 .. Len(route.cells) /\ k # k + 1
  BY <1>2
<1>5. AdjacentTo(position[driver], next)
  BY <1>2, <1>3, <1>4 DEF IsDrivable
<1>6. position[driver] # next
  <2>1. IsInjective(route.cells) /\ DOMAIN route.cells = 1 .. Len(route.cells)
    BY <1>2 DEF IsDrivable
  <2>2. position[driver] = route.cells[k] /\ k \in DOMAIN route.cells
    BY <1>2, <1>3, <2>1
  <2>3. k + 1 \in DOMAIN route.cells
    BY <1>4, <2>1
  <2>. QED  BY <1>4, <2>1, <2>2, <2>3 DEF IsInjective
<1> HIDE DEF next
<1>7. \/ next \notin Cells
      \/ IsBlockedByStatic(next) \/ IsBlockedByDynamic(next)
      \/ IsOccupied(next)
      \/ ~ (battery[driver] >= Drain)
  BY <1>1, <1>2, <1>3, <1>5 DEF ValidateMove
<1>8. Drain \in Int
  BY DEF SimulatorAssumption
<1>9. \/ next \notin Cells
      \/ \E r \in robots \ {driver} : position[r] = next
      \/ next \in Range(static) \cup Range(dynamic)
      \/ battery[driver] < Drain
  BY <1>2, <1>6, <1>7, <1>8 DEF IsBlockedByStatic, IsBlockedByDynamic, IsOccupied, Range
<1>. QED  BY <1>9 DEF next

LEMMA ReportsAreHonest ==
  ASSUME ReportInv, UnknownRobot \/ Reject \/ FailPreflight \/ StopAtRefusal \/ ArriveAtGoal
  PROVE  ReportIsHonest'
<1>1. CASE UnknownRobot
  <2>1. report'.outcome = "raised"
    BY <1>1 DEF UnknownRobot, Finish, NoReport, Report
  <2>. QED  BY <2>1 DEF ReportIsHonest
<1>2. CASE Reject \/ FailPreflight
  <2>1. /\ report'.outcome \in {"rejected", "preflight"}
        /\ report'.final = position[driver] /\ report'.executed = 0
        /\ report'.completed = <<position[driver]>> /\ position' = position
    BY <1>2 DEF Reject, FailPreflight, Decline, Finish, Report, WorldStands, robotVars
  <2>2. Last(<<position[driver]>>) = position[driver] /\ Len(<<position[driver]>>) - 1 = 0
    BY DEF Last
  <2>. QED  BY <2>1, <2>2 DEF ReportIsHonest
<1>3. CASE StopAtRefusal
  <2>1. /\ stage = "driving"
        /\ report' = Report("stopped", route.cells[1], Last(route.cells), position[driver],
                            Len(completedPath) - 1, completedPath)
        /\ UNCHANGED <<route, batteryBefore, floorVars, robotVars>>
    BY <1>3 DEF StopAtRefusal, Finish, Driven, WorldStands
  <2>2. /\ report'.outcome = "stopped" /\ report'.final = position[driver]
        /\ report'.executed = Len(completedPath) - 1 /\ report'.completed = completedPath
    BY <2>1 DEF Report
  <2>3. UNCHANGED <<route, batteryBefore, robots, position, battery, static, dynamic>>
    BY <2>1 DEF floorVars, robotVars
  <2>4. /\ position[driver] = Last(completedPath)
        /\ battery[driver] = batteryBefore - (Len(completedPath) - 1) * Drain
        /\ IsPrefix(completedPath, route.cells)
    BY <2>1, AccountOf
  <2>5. LET next == route.cells[Len(completedPath) + 1] IN
        \/ next \notin Cells
        \/ \E r \in robots \ {driver} : position[r] = next
        \/ next \in Range(static) \cup Range(dynamic)
        \/ battery[driver] < Drain
    BY <1>3, ARefusalHasAReason
  <2>. QED  BY <2>2, <2>3, <2>4, <2>5 DEF ReportIsHonest, Others
<1>4. CASE ArriveAtGoal
  <2>1. /\ stage = "driving" /\ left = << >>
        /\ report' = Report("completed", route.cells[1], Last(route.cells), Last(route.cells),
                            Len(completedPath) - 1, completedPath)
        /\ UNCHANGED <<route, batteryBefore, floorVars, robotVars>>
    BY <1>4 DEF ArriveAtGoal, Finish, WorldStands
  <2>2. /\ report'.outcome = "completed" /\ report'.final = Last(route.cells)
        /\ report'.executed = Len(completedPath) - 1 /\ report'.completed = completedPath
    BY <2>1 DEF Report
  <2>3. UNCHANGED <<route, batteryBefore, robots, position, battery, static, dynamic>>
    BY <2>1 DEF floorVars, robotVars
  <2>4. /\ position[driver] = Last(completedPath)
        /\ battery[driver] = batteryBefore - (Len(completedPath) - 1) * Drain
        /\ IsPrefix(completedPath, route.cells) /\ completedPath = route.cells
    BY <2>1, AccountOf
  <2>. QED  BY <2>2, <2>3, <2>4 DEF ReportIsHonest
<1>. QED  BY <1>1, <1>2, <1>3, <1>4

LEMMA ReportInvStep == ReportInv /\ [RouteNext]_<<vars, routeVars>> => ReportInv'
<1> SUFFICES ASSUME ReportInv, [RouteNext]_<<vars, routeVars>> PROVE ReportInv'
  OBVIOUS
<1>1. RouteInv'
  BY RouteInvStep DEF ReportInv
<1>2. CASE MakeRoute
  <2>1. RouteIsTyped'
    BY <1>2, MakingKeepsTypes DEF ReportInv, RouteInv
  <2>2. stage' = "planned"
    BY <1>2 DEF MakeRoute
  <2>. QED  BY <1>1, <2>1, <2>2 DEF ReportInv, DrivenSoFar, ReportIsHonest
<1>3. CASE Change
  <2>1. stage = "planned" /\ UNCHANGED <<stage, route, batteryBefore>>
    BY <1>3 DEF Change
  <2>. QED  BY <1>1, <2>1 DEF ReportInv, RouteIsTyped, DrivenSoFar, ReportIsHonest
<1>4. CASE SetOut
  <2>1. stage' = "driving"
    BY <1>4 DEF SetOut
  <2>. QED  BY <1>1, <1>4, <2>1, SettingOutOpensTheAccount DEF ReportInv, ReportIsHonest
<1>5. CASE DriveStep
  <2>1. stage' = "driving"
    BY <1>5 DEF DriveStep
  <2>. QED  BY <1>1, <1>5, <2>1, DrivingKeepsTheAccount DEF ReportInv, ReportIsHonest
<1>6. CASE UnknownRobot \/ Reject \/ FailPreflight \/ StopAtRefusal \/ ArriveAtGoal
  <2>1. stage' = "done" /\ UNCHANGED <<route, batteryBefore>>
    BY <1>6 DEF UnknownRobot, Reject, FailPreflight, StopAtRefusal, ArriveAtGoal,
                Decline, Finish
  <2>2. RouteIsTyped' /\ DrivenSoFar'
    BY <2>1 DEF ReportInv, RouteIsTyped, DrivenSoFar
  <2>. QED  BY <1>1, <1>6, <2>2, ReportsAreHonest DEF ReportInv
<1>7. CASE UNCHANGED <<vars, routeVars>>
  <2> USE <1>7 DEF ReportInv, vars, routeVars, floorVars, robotVars
  <2>1. RouteIsTyped'
    BY DEF RouteIsTyped
  <2>2. DrivenSoFar'
    BY DEF DrivenSoFar, IsResolved, IsDrivable, IsInjective
  <2>3. ReportIsHonest'
    BY DEF ReportIsHonest, Others, Range, IsPrefix, Last
  <2>. QED  BY <1>1, <2>1, <2>2, <2>3
<1>. QED  BY <1>2, <1>3, <1>4, <1>5, <1>6, <1>7 DEF RouteNext, Execute

(* Whatever happened between planning and execution, the report says where *)
(* the robot is, through which cells it came, what that cost, and it stops *)
(* only where the route cannot be driven on (execution_result.py:37-46).   *)
THEOREM TheReportIsTrue == RouteSpec => []ReportIsHonest
<1>1. ReportInv => ReportIsHonest
  BY DEF ReportInv
<1>. QED  BY <1>1, ReportInvInit, ReportInvStep, PTL DEF RouteSpec

-----------------------------------------------------------------------------
(* Left alone, the robot arrives.                                          *)

(* What the planner found still fits the floor, as far as the grid knows   *)
(* it, for as long as nobody has changed anything.                         *)
FoundRoutesFit ==
  /\ stage = "asked" =>
       changes = 0 /\ driver \in robots /\ status[driver] # "OFFLINE"
  /\ changes = 0 /\ route.kind = "found" /\ stage \in {"planned", "driving"} =>
       /\ driver \in robots /\ status[driver] # "OFFLINE"
       /\ IsResolved(route)
       /\ \A i \in 1 .. Len(route.cells) : IsTraversable(route.cells[i])
       /\ stage = "planned" => route.cells[1] = position[driver]

ArriveInv == ReportInv /\ FoundRoutesFit /\ changes \in Nat /\ UndisturbedRoutesArrive

LEMMA ArriveInvInit == RouteInit => ArriveInv
<1> SUFFICES ASSUME RouteInit PROVE ArriveInv
  OBVIOUS
<1>1. FoundRoutesFit /\ changes \in Nat /\ UndisturbedRoutesArrive
  BY DEF RouteInit, FoundRoutesFit, UndisturbedRoutesArrive, RouteOf
<1>. QED  BY <1>1, ReportInvInit DEF ArriveInv

LEMMA MakingARouteFits ==
  ASSUME ArriveInv, MakeRoute
  PROVE  FoundRoutesFit'
<1>1. /\ stage = "asked" /\ stage' = "planned"
      /\ UNCHANGED <<changes, robots, position, status, gridBlocked, dynamic>>
  BY DEF MakeRoute, WorldStands, floorVars, robotVars
<1>2. driver \in robots /\ status[driver] # "OFFLINE" /\ position[driver] \in Cells
  BY <1>1 DEF ArriveInv, FoundRoutesFit, ReportInv, RouteInv, WorldInv, RegistryTypeOK
<1>3. CASE route'.kind # "found"
  BY <1>1, <1>3 DEF FoundRoutesFit
<1>4. CASE route'.kind = "found"
  <2>1. ~ \E q \in HandMade : route' = RouteOf("cells", q)
    BY <1>4 DEF RouteOf
  <2>2. PICK goal \in Cells : PlanRoute(goal)
    BY <2>1 DEF MakeRoute
  <2>3. route' # RouteOf("not_found", << >>)
    BY <1>4 DEF RouteOf
  <2> DEFINE b == {c \in Cells : ~ IsTraversable(c)}
  <2>4. /\ IsTraversable(position[driver])
        /\ SpatiallyReachable(position[driver], goal, b)
        /\ \E q \in ShortestWalks(position[driver], goal) : route' = RouteOf("found", q)
    BY <1>2, <2>2, <2>3 DEF PlanRoute
  <2>5. PICK q \in ShortestWalks(position[driver], goal) : route' = RouteOf("found", q)
    BY <2>4
  <2>6. /\ q # << >> /\ q[1] = position[driver] /\ IsDrivable(q)
        /\ \A i \in 1 .. Len(q) : IsTraversable(q[i])
    BY <1>2, <2>4, <2>5, WalksAreRoutes
  <2>7. route'.cells = q
    BY <2>5 DEF RouteOf
  <2>8. IsResolved(route)'
    BY <1>4, <2>6, <2>7 DEF IsResolved, IsDrivable, IsInjective
  <2>9. \A i \in 1 .. Len(q) : IsTraversable(q[i])'
    BY <1>1, <2>6 DEF IsTraversable, IsBlockedByDynamic
  <2>. QED  BY <1>1, <1>2, <2>6, <2>7, <2>8, <2>9 DEF FoundRoutesFit
<1>. QED  BY <1>3, <1>4

(* Driving on does not change what the grid knows, nor who is registered.  *)
LEMMA ExecutingKeepsTheFit ==
  ASSUME ArriveInv, SetOut \/ DriveStep
  PROVE  FoundRoutesFit'
<1>1. /\ stage \in {"planned", "driving"} /\ stage' = "driving"
      /\ UNCHANGED <<changes, route, robots, gridBlocked, dynamic>>
  BY DEF SetOut, DriveStep, MoveRobot, WorldStands, floorVars, robotVars
<1>2. status[driver] # "OFFLINE" => status'[driver] # "OFFLINE"
  <2>1. CASE SetOut
    BY <2>1 DEF SetOut, WorldStands, robotVars
  <2>2. CASE DriveStep
    <3>1. status \in [Robots -> RobotStatuses]
      BY DEF ArriveInv, ReportInv, RouteInv, WorldInv, RegistryTypeOK
    <3>. QED  BY <2>2, <3>1 DEF DriveStep, MoveRobot
  <2>. QED  BY <2>1, <2>2
<1>3. ASSUME changes' = 0, route'.kind = "found"
      PROVE  /\ driver \in robots' /\ status'[driver] # "OFFLINE"
             /\ IsResolved(route)'
             /\ \A i \in 1 .. Len(route'.cells) : IsTraversable(route.cells[i])'
  <2>1. /\ driver \in robots /\ status[driver] # "OFFLINE"
        /\ IsResolved(route)
        /\ \A i \in 1 .. Len(route.cells) : IsTraversable(route.cells[i])
    BY <1>1, <1>3 DEF ArriveInv, FoundRoutesFit
  <2>2. IsResolved(route)'
    BY <1>1, <2>1 DEF IsResolved, IsDrivable, IsInjective
  <2>3. \A i \in 1 .. Len(route'.cells) : IsTraversable(route.cells[i])'
    BY <1>1, <2>1 DEF IsTraversable, IsBlockedByDynamic
  <2>. QED  BY <1>1, <1>2, <2>1, <2>2, <2>3
<1>. QED  BY <1>1, <1>3, Zenon DEF FoundRoutesFit

(* What stops a robot nobody has disturbed: another robot, a wall that the *)
(* grid has forgotten, or a battery that cannot pay for the whole way.     *)
LEMMA StoppedUndisturbed ==
  ASSUME ArriveInv, StopAtRefusal, changes = 0, route.kind = "found"
  PROVE  \/ \E r \in robots \ {driver} : position[r] \in Range(route.cells)
         \/ \E c \in Range(static) \ gridBlocked : c \in Range(route.cells)
         \/ batteryBefore < (Len(route.cells) - 1) * Drain
<1> DEFINE k == Len(completedPath)
           next == route.cells[k+1]
<1>1. stage = "driving" /\ left # << >> /\ ReportInv
  BY DEF StopAtRefusal, ArriveInv
<1>2. \A i \in 1 .. Len(route.cells) : IsTraversable(route.cells[i])
  <2>1. FoundRoutesFit
    BY DEF ArriveInv
  <2>. QED  BY <1>1, <2>1 DEF FoundRoutesFit
<1>3. /\ k \in 1 .. Len(route.cells) /\ k < Len(route.cells)
      /\ route.cells \in Seq(Int \X Int)
      /\ battery[driver] \in Int
      /\ battery[driver] = batteryBefore - (k - 1) * Drain
  <2>1. /\ Len(completedPath) \in 1 .. Len(route.cells)
        /\ Len(completedPath) < Len(route.cells)
    BY <1>1, AccountOf
  <2>2. route.cells \in Seq(Int \X Int) /\ battery[driver] \in Int
    BY <1>1, AccountOf
  <2>3. battery[driver] = batteryBefore - (Len(completedPath) - 1) * Drain
    BY <1>1, AccountOf
  <2>. QED  BY <2>1, <2>2, <2>3
<1>4. k + 1 \in 1 .. Len(route.cells) /\ k + 1 \in DOMAIN route.cells
  <2>1. k \in Nat /\ Len(route.cells) \in Nat /\ k < Len(route.cells)
    BY <1>3
  <2>2. DOMAIN route.cells = 1 .. Len(route.cells)
    BY <1>3
  <2> HIDE DEF k
  <2>. QED  BY <2>1, <2>2
<1>5. next \in Range(route.cells)
  BY <1>4 DEF Range
<1>6. next \in Cells \ gridBlocked /\ ~ IsBlockedByDynamic(next)
  BY <1>2, <1>4 DEF IsTraversable
<1>7. \/ next \notin Cells
      \/ \E r \in robots \ {driver} : position[r] = next
      \/ next \in Range(static) \cup Range(dynamic)
      \/ battery[driver] < Drain
  BY <1>1, ARefusalHasAReason
<1>8. next \notin Range(dynamic)
  BY <1>6 DEF IsBlockedByDynamic, Range
<1>9. CASE battery[driver] < Drain
  <2>1. Drain \in Nat /\ batteryBefore \in Int
    BY <1>1 DEF SimulatorAssumption, ReportInv, RouteIsTyped
  <2> DEFINE n == Len(route.cells)
  <2>2. n \in Nat /\ k \in Nat /\ k <= n - 1 /\ k >= 1
    BY <1>3
  <2> HIDE DEF n, k
  <2>3. (k - 1) * Drain + Drain = k * Drain /\ (k - 1) * Drain \in Int
    BY <2>1, <2>2
  <2>4. batteryBefore < k * Drain
    BY <1>3, <1>9, <2>1, <2>3
  <2>5. k * Drain <= (n - 1) * Drain /\ k * Drain \in Int /\ (n - 1) * Drain \in Int
    BY <2>1, <2>2
  <2>6. batteryBefore < (n - 1) * Drain
    BY <2>1, <2>4, <2>5
  <2>. QED  BY <2>6 DEF n
<1> HIDE DEF next
<1>. QED  BY <1>5, <1>6, <1>7, <1>8, <1>9

LEMMA ReportsOfTheUndisturbed ==
  ASSUME ArriveInv, UnknownRobot \/ Reject \/ FailPreflight \/ StopAtRefusal \/ ArriveAtGoal
  PROVE  UndisturbedRoutesArrive'
<1>1. /\ UNCHANGED <<changes, route, batteryBefore, robots, position, static, gridBlocked>>
      /\ stage \in {"planned", "driving"}
  BY DEF UnknownRobot, Reject, FailPreflight, StopAtRefusal, ArriveAtGoal,
         Decline, WorldStands, floorVars, robotVars
<1> SUFFICES ASSUME changes = 0, route.kind = "found"
             PROVE  \/ report'.outcome = "completed"
                    \/ \E r \in robots \ {driver} : position[r] \in Range(route.cells)
                    \/ \E c \in Range(static) \ gridBlocked : c \in Range(route.cells)
                    \/ batteryBefore < (Len(route.cells) - 1) * Drain
  BY <1>1 DEF UndisturbedRoutesArrive, Others, Range
<1>2. /\ driver \in robots /\ status[driver] # "OFFLINE" /\ IsResolved(route)
      /\ stage = "planned" => route.cells[1] = position[driver]
  BY <1>1 DEF ArriveInv, FoundRoutesFit
<1>3. ~ (UnknownRobot \/ Reject \/ FailPreflight)
  BY <1>2 DEF UnknownRobot, Reject, FailPreflight, PreflightPasses
<1>4. CASE ArriveAtGoal
  BY <1>4 DEF ArriveAtGoal, Finish, Report
<1>5. CASE StopAtRefusal
  BY <1>5, StoppedUndisturbed
<1>. QED  BY <1>3, <1>4, <1>5

LEMMA ArriveInvStep == ArriveInv /\ [RouteNext]_<<vars, routeVars>> => ArriveInv'
<1> SUFFICES ASSUME ArriveInv, [RouteNext]_<<vars, routeVars>> PROVE ArriveInv'
  OBVIOUS
<1>1. ReportInv'
  BY ReportInvStep DEF ArriveInv
<1>2. CASE MakeRoute
  <2>1. FoundRoutesFit'
    BY <1>2, MakingARouteFits
  <2>2. stage' = "planned" /\ UNCHANGED changes
    BY <1>2 DEF MakeRoute
  <2>. QED  BY <1>1, <2>1, <2>2 DEF ArriveInv, UndisturbedRoutesArrive
<1>3. CASE Change
  <2>1. changes \in Nat /\ changes' = changes + 1 /\ stage = "planned" /\ stage' = stage
    BY <1>3 DEF Change, ArriveInv
  <2>2. changes' \in Nat /\ changes' # 0
    BY <2>1
  <2>. QED  BY <1>1, <2>1, <2>2 DEF ArriveInv, FoundRoutesFit, UndisturbedRoutesArrive
<1>4. CASE SetOut \/ DriveStep
  <2>1. FoundRoutesFit'
    BY <1>4, ExecutingKeepsTheFit
  <2>2. stage' = "driving" /\ UNCHANGED changes
    BY <1>4 DEF SetOut, DriveStep
  <2>. QED  BY <1>1, <2>1, <2>2 DEF ArriveInv, UndisturbedRoutesArrive
<1>5. CASE UnknownRobot \/ Reject \/ FailPreflight \/ StopAtRefusal \/ ArriveAtGoal
  <2>1. UndisturbedRoutesArrive'
    BY <1>5, ReportsOfTheUndisturbed
  <2>2. stage' = "done" /\ UNCHANGED changes
    BY <1>5 DEF UnknownRobot, Reject, FailPreflight, StopAtRefusal, ArriveAtGoal,
                Decline, Finish
  <2>. QED  BY <1>1, <2>1, <2>2 DEF ArriveInv, FoundRoutesFit
<1>6. CASE UNCHANGED <<vars, routeVars>>
  <2> USE <1>6 DEF ArriveInv, vars, routeVars, floorVars, robotVars
  <2>1. FoundRoutesFit'
    BY DEF FoundRoutesFit, IsResolved, IsDrivable, IsInjective, IsTraversable,
           IsBlockedByDynamic
  <2>2. UndisturbedRoutesArrive'
    BY DEF UndisturbedRoutesArrive, Others, Range
  <2>. QED  BY <1>1, <2>1, <2>2
<1>. QED  BY <1>2, <1>3, <1>4, <1>5, <1>6 DEF RouteNext, Execute

(* Planning and execution fit for one robot too: a route that was found is *)
(* driven to its end, unless somebody changed the world, stands in the     *)
(* way, the grid has forgotten a wall, or the battery is short             *)
(* (robot.py, has_battery_for_move).                                       *)
THEOREM LeftAloneTheRobotArrives == RouteSpec => []UndisturbedRoutesArrive
<1>1. ArriveInv => UndisturbedRoutesArrive
  BY DEF ArriveInv
<1>. QED  BY <1>1, ArriveInvInit, ArriveInvStep, PTL DEF RouteSpec

-----------------------------------------------------------------------------
(***************************************************************************)
(* Where routes come from: the searches of the single-robot planners.      *)
(* SearchInv is inductive.  Its heart is that the heap always holds an     *)
(* entry that is no dearer than any cell still to be finalized and whose   *)
(* cost is final (SomethingIsFinal), so the first entry of a cell that is  *)
(* popped has its final cost, whatever dearer entries remain.              *)
(***************************************************************************)

(* The guide never overestimates, from cell to cell.                       *)
LEMMA GuidesAreConsistent ==
  ASSUME SearchTypeOK, call.goal \in Cells, NEW c \in Cells
  PROVE  /\ Heuristic(c) \in Nat /\ Heuristic(call.goal) = 0
         /\ \A n \in Cells : AdjacentTo(c, n) => Heuristic(c) <= Heuristic(n) + 1
         /\ call.planner = "astar" /\ c # call.goal => Heuristic(c) >= 1
         /\ call.planner = "dijkstra" => Heuristic(c) = 0
<1>1. /\ ManhattanDistance(c, call.goal) \in Nat
      /\ ManhattanDistance(call.goal, call.goal) = 0
  BY DistanceIsNat
<1>2. \A n \in Cells :
        AdjacentTo(c, n) => ManhattanDistance(c, call.goal) <= ManhattanDistance(n, call.goal) + 1
  <2>1. call.goal \in Int \X Int
    BY DEF Cells
  <2>. QED  BY <2>1, StepsBringNearer
<1>3. ASSUME NEW n \in Cells, c # n PROVE ManhattanDistance(c, n) >= 1
  <2>1. /\ c[1] \in Int /\ c[2] \in Int /\ n[1] \in Int /\ n[2] \in Int
        /\ c[1] # n[1] \/ c[2] # n[2]
    BY <1>3, DimensionAssumption DEF Cells
  <2>. QED  BY <2>1 DEF ManhattanDistance, Distance
<1>. QED  BY <1>1, <1>2, <1>3 DEF Heuristic

(* What is known of a search under way, in one place.                      *)
LEMMA SearchFacts ==
  ASSUME SearchInv, IsSearching
  PROVE  LET d == StepsFrom(call.start, blocked) IN
         /\ call.start \in Cells \ blocked /\ call.goal \in Cells \ blocked
         /\ call.start \in DOMAIN gScore /\ gScore[call.start] = 0
         /\ call.start \in DOMAIN d /\ d[call.start] = 0
         /\ \A c \in DOMAIN d : c \in Cells \ blocked /\ d[c] \in Nat
         /\ \A c \in DOMAIN d : \A n \in WalkableNeighbours(c) :
              n \in DOMAIN d /\ d[n] <= d[c] + 1
         /\ \A c \in DOMAIN d \ {call.start} :
              \E p \in DOMAIN d : c \in WalkableNeighbours(p) /\ d[c] = d[p] + 1
         /\ DOMAIN gScore \subseteq DOMAIN d /\ finalized \subseteq DOMAIN gScore
         /\ \A c \in DOMAIN gScore : gScore[c] \in Nat /\ d[c] <= gScore[c]
         /\ \A c \in finalized : gScore[c] = d[c]
<1>1. call.start \in Cells \ blocked /\ call.goal \in Cells \ blocked
  BY DEF SearchInv, SearchesWellFormed, IsWalkable
<1> DEFINE d == StepsFrom(call.start, blocked)
<1>2. /\ call.start \in DOMAIN d /\ d[call.start] = 0
      /\ \A c \in DOMAIN d : c \in Cells \ blocked /\ d[c] \in Nat
      /\ \A c \in DOMAIN d : \A n \in Neighbors(c, blocked) :
           n \in DOMAIN d /\ d[n] <= d[c] + 1
      /\ \A c \in DOMAIN d \ {call.start} :
           \E p \in DOMAIN d : c \in Neighbors(p, blocked) /\ d[c] = d[p] + 1
  BY <1>1, StepsAreExact
<1>3. /\ DOMAIN gScore \subseteq DOMAIN d
      /\ \A c \in DOMAIN gScore : d[c] <= gScore[c]
      /\ \A c \in finalized : gScore[c] = d[c]
  BY DEF SearchInv, CostsAreBounds
<1>4. call.start \in DOMAIN gScore /\ gScore[call.start] = 0
  BY DEF SearchInv, SearchesWellFormed
<1>5. finalized \subseteq DOMAIN gScore /\ \A c \in DOMAIN gScore : gScore[c] \in Nat
  BY DEF SearchInv, SearchTypeOK
<1> HIDE DEF d
<1>6. /\ call.start \in Cells \ blocked /\ call.goal \in Cells \ blocked
      /\ call.start \in DOMAIN gScore /\ gScore[call.start] = 0
      /\ call.start \in DOMAIN d /\ d[call.start] = 0
      /\ \A c \in DOMAIN d : c \in Cells \ blocked /\ d[c] \in Nat
      /\ \A c \in DOMAIN d : \A n \in WalkableNeighbours(c) :
           n \in DOMAIN d /\ d[n] <= d[c] + 1
      /\ \A c \in DOMAIN d \ {call.start} :
           \E p \in DOMAIN d : c \in WalkableNeighbours(p) /\ d[c] = d[p] + 1
      /\ DOMAIN gScore \subseteq DOMAIN d /\ finalized \subseteq DOMAIN gScore
      /\ \A c \in DOMAIN gScore : gScore[c] \in Nat /\ d[c] <= gScore[c]
      /\ \A c \in finalized : gScore[c] = d[c]
  BY <1>1, <1>2, <1>3, <1>4, <1>5 DEF WalkableNeighbours
<1>. QED  BY <1>6 DEF d

(* An entry whose cost is final, and which is no dearer than c.            *)
FinalEntryFor(e, c) ==
  LET d == StepsFrom(call.start, blocked) IN
  /\ e.cell \in DOMAIN d \ finalized /\ e.g = d[e.cell]
  /\ e.g + Heuristic(e.cell) <= d[c] + Heuristic(c)

LEMMA SomethingIsFinal ==
  ASSUME SearchInv, phase = "search",
         NEW c \in DOMAIN StepsFrom(call.start, blocked), c \notin finalized
  PROVE  \E e \in frontier : FinalEntryFor(e, c)
<1> DEFINE d == StepsFrom(call.start, blocked)
<1>1. IsSearching /\ SearchTypeOK
  BY DEF IsSearching, SearchInv
<1>2. /\ call.goal \in Cells /\ call.start \in DOMAIN gScore /\ gScore[call.start] = 0
      /\ call.start \in DOMAIN d /\ d[call.start] = 0
      /\ \A x \in DOMAIN d : x \in Cells \ blocked /\ d[x] \in Nat
      /\ \A x \in DOMAIN d \ {call.start} :
           \E p \in DOMAIN d : x \in WalkableNeighbours(p) /\ d[x] = d[p] + 1
      /\ DOMAIN gScore \subseteq DOMAIN d
      /\ \A x \in DOMAIN gScore : gScore[x] \in Nat /\ d[x] <= gScore[x]
      /\ \A x \in finalized : gScore[x] = d[x]
  BY <1>1, SearchFacts
<1>3. /\ \A x \in DOMAIN gScore \ finalized :
           \E e \in frontier : e.cell = x /\ e.g = gScore[x]
      /\ \A x \in finalized : \A n \in WalkableNeighbours(x) :
           n \in DOMAIN gScore /\ gScore[n] <= gScore[x] + 1
  BY DEF SearchInv, SearchGoesOn
<1>4. \A e, x : FinalEntryFor(e, x) <=>
        /\ e.cell \in DOMAIN d \ finalized /\ e.g = d[e.cell]
        /\ e.g + Heuristic(e.cell) <= d[x] + Heuristic(x)
  BY DEF FinalEntryFor
<1> HIDE DEF d
<1>5. ASSUME NEW x \in DOMAIN gScore, x \notin finalized, gScore[x] = d[x]
      PROVE  \E e \in frontier : FinalEntryFor(e, x)
  <2>1. PICK e \in frontier : e.cell = x /\ e.g = gScore[x]
    BY <1>3, <1>5
  <2>2. Heuristic(x) \in Nat /\ d[x] \in Nat /\ x \in DOMAIN d
    BY <1>1, <1>2, <1>5, GuidesAreConsistent
  <2>. QED  BY <1>4, <1>5, <2>1, <2>2
<1> DEFINE Q == {n \in 0 .. d[c] : \A x \in DOMAIN d \ finalized :
                   d[x] = n => \E e \in frontier : FinalEntryFor(e, x)}
<1>6. 0 \in Q
  <2>1. ASSUME NEW x \in DOMAIN d \ finalized, d[x] = 0
        PROVE  \E e \in frontier : FinalEntryFor(e, x)
    <3>1. x = call.start
      BY <1>2, <2>1
    <3>. QED  BY <1>2, <1>5, <2>1, <3>1
  <2>2. 0 \in 0 .. d[c]
    BY <1>2 DEF d
  <2>. QED  BY <2>1, <2>2
<1>7. ASSUME NEW n \in 0 .. d[c] - 1, n \in Q PROVE n + 1 \in Q
  <2>1. n + 1 \in 0 .. d[c] /\ n \in Nat
    BY <1>2 DEF d
  <2>2. ASSUME NEW x \in DOMAIN d \ finalized, d[x] = n + 1
        PROVE  \E e \in frontier : FinalEntryFor(e, x)
    <3>1. x # call.start
      BY <1>2, <2>1, <2>2
    <3>2. PICK p \in DOMAIN d : x \in WalkableNeighbours(p) /\ d[x] = d[p] + 1
      BY <1>2, <3>1
    <3>3. CASE p \in finalized
      <4>1. x \in DOMAIN gScore /\ gScore[x] <= d[p] + 1
        BY <1>2, <1>3, <3>2, <3>3
      <4>2. gScore[x] = d[x]
        BY <1>2, <3>2, <4>1
      <4>. QED  BY <1>5, <2>2, <4>1, <4>2
    <3>4. CASE p \notin finalized
      <4>1. d[p] = n
        BY <1>2, <2>1, <2>2, <3>2
      <4>2. PICK e \in frontier : FinalEntryFor(e, p)
        BY <1>7, <3>4, <4>1
      <4>3. AdjacentTo(p, x) /\ p \in Cells /\ x \in Cells
        BY <1>2, <3>2 DEF WalkableNeighbours, Neighbors
      <4>4. Heuristic(p) <= Heuristic(x) + 1 /\ Heuristic(p) \in Nat /\ Heuristic(x) \in Nat
        BY <1>1, <1>2, <4>3, GuidesAreConsistent
      <4>5. e.cell \in DOMAIN d \ finalized /\ e.g = d[e.cell]
            /\ e.g + Heuristic(e.cell) <= d[p] + Heuristic(p)
        BY <1>4, <4>2
      <4>6. e.g \in Nat /\ Heuristic(e.cell) \in Nat /\ d[p] \in Nat
        BY <1>1, <1>2, <4>5, GuidesAreConsistent
      <4>7. e.g + Heuristic(e.cell) <= d[x] + Heuristic(x)
        BY <3>2, <4>4, <4>5, <4>6
      <4>. QED  BY <1>4, <4>5, <4>7
    <3>. QED  BY <3>3, <3>4
  <2>. QED  BY <2>1, <2>2
<1>8. 0 \in Nat /\ d[c] \in Nat
  BY <1>2 DEF d
<1> HIDE DEF Q
<1>9. 0 .. d[c] \subseteq Q
  BY <1>6, <1>7, <1>8, IntervalInduction
<1>10. d[c] \in Q
  BY <1>8, <1>9
<1>11. c \in DOMAIN d \ finalized
  BY DEF d
<1>. QED  BY <1>10, <1>11 DEF Q

(* "Safe to finalise a cell the first time it is popped."                  *)
LEMMA PoppedIsCheapest ==
  ASSUME SearchInv, phase = "search", NEW e \in frontier, Popped(e), e.cell \notin finalized
  PROVE  LET d == StepsFrom(call.start, blocked) IN
         /\ e.cell \in DOMAIN gScore /\ e.cell \in DOMAIN d
         /\ gScore[e.cell] = d[e.cell]
         /\ \A c \in DOMAIN d \ finalized :
              d[e.cell] + Heuristic(e.cell) <= d[c] + Heuristic(c)
<1> DEFINE d == StepsFrom(call.start, blocked)
<1>1. IsSearching /\ SearchTypeOK
  BY DEF IsSearching, SearchInv
<1>2. /\ call.goal \in Cells
      /\ \A x \in DOMAIN d : x \in Cells \ blocked /\ d[x] \in Nat
      /\ DOMAIN gScore \subseteq DOMAIN d
      /\ \A x \in DOMAIN gScore : gScore[x] \in Nat /\ d[x] <= gScore[x]
  BY <1>1, SearchFacts
<1>3. /\ e.cell \in DOMAIN gScore /\ gScore[e.cell] <= e.g
      /\ \A x \in frontier : x \in Entries
  BY <1>1 DEF SearchInv, SearchGoesOn, SearchTypeOK
<1>4. \A x \in frontier : e.g + Heuristic(e.cell) <= x.g + Heuristic(x.cell)
  <2>1. ASSUME NEW x \in frontier PROVE e.g + Heuristic(e.cell) <= x.g + Heuristic(x.cell)
    <3>1. PopsBefore(e, x)
      BY DEF Popped
    <3>2. x.cell \in Cells /\ x.g \in Nat /\ e.cell \in Cells /\ e.g \in Nat
      BY <1>3 DEF Entries
    <3>3. Heuristic(x.cell) \in Nat /\ Heuristic(e.cell) \in Nat
      BY <1>1, <1>2, <3>2, GuidesAreConsistent
    <3>. QED  BY <3>1, <3>2, <3>3 DEF PopsBefore, Priority
  <2>. QED  BY <2>1
<1>5. \A x : x \in DOMAIN d /\ x \notin finalized => \E y \in frontier : FinalEntryFor(y, x)
  BY SomethingIsFinal
<1>6. \A y, x : FinalEntryFor(y, x) => y.g + Heuristic(y.cell) <= d[x] + Heuristic(x)
  BY DEF FinalEntryFor
<1>7. e.g \in Nat /\ e.cell \in Cells /\ Heuristic(e.cell) \in Nat
  BY <1>1, <1>2, <1>3, GuidesAreConsistent DEF Entries
<1> HIDE DEF d
<1>8. ASSUME NEW c \in DOMAIN d \ finalized
      PROVE  e.g + Heuristic(e.cell) <= d[c] + Heuristic(c)
  <2>1. PICK y \in frontier : FinalEntryFor(y, c)
    BY <1>5
  <2>2. /\ y.g + Heuristic(y.cell) <= d[c] + Heuristic(c)
        /\ e.g + Heuristic(e.cell) <= y.g + Heuristic(y.cell)
    BY <1>4, <1>6, <2>1
  <2>3. y.g \in Nat /\ y.cell \in Cells /\ c \in Cells /\ d[c] \in Nat
    BY <1>2, <1>3 DEF Entries
  <2>4. Heuristic(y.cell) \in Nat /\ Heuristic(c) \in Nat
    BY <1>1, <1>2, <2>3, GuidesAreConsistent
  <2>. QED  BY <1>7, <2>2, <2>3, <2>4
<1>9. e.cell \in DOMAIN d /\ d[e.cell] \in Nat /\ gScore[e.cell] \in Nat
      /\ d[e.cell] <= gScore[e.cell]
  BY <1>2, <1>3
<1>10. e.g <= d[e.cell]
  <2>1. e.g + Heuristic(e.cell) <= d[e.cell] + Heuristic(e.cell)
    BY <1>8, <1>9
  <2>. QED  BY <1>7, <1>9, <2>1
<1>11. gScore[e.cell] = d[e.cell] /\ e.g = d[e.cell]
  BY <1>3, <1>7, <1>9, <1>10
<1>12. /\ e.cell \in DOMAIN gScore /\ e.cell \in DOMAIN d
       /\ gScore[e.cell] = d[e.cell]
       /\ \A c \in DOMAIN d \ finalized :
            d[e.cell] + Heuristic(e.cell) <= d[c] + Heuristic(c)
  BY <1>3, <1>8, <1>9, <1>11
<1>. QED  BY <1>12 DEF d

LEMMA SearchInvInit == SearchInit => SearchInv
<1> SUFFICES ASSUME SearchInit PROVE SearchInv
  OBVIOUS
<1>1. /\ blocked \in SUBSET Cells /\ call = NoCall /\ phase = "idle"
      /\ frontier = {} /\ tickets = 0 /\ gScore = << >> /\ cameFrom = << >>
      /\ finalized = {} /\ path = << >> /\ answer = "none"
  BY SearchAssumption DEF SearchInit, NothingAsked
<1>2. DOMAIN gScore = {} /\ DOMAIN cameFrom = {}
  BY <1>1
<1>3. NoCall \in [planner : Planners, start : Cells \cup OffTheFloor,
                  goal : Cells \cup OffTheFloor]
  BY DEF NoCall, Planners, Cells
<1>4. path \in Seq(Cells)
  BY <1>1
<1>5. SearchTypeOK
  BY <1>1, <1>2, <1>3, <1>4 DEF SearchTypeOK, Answers
<1>6. NothingSearched /\ ~ IsSearching /\ phase \notin {"search", "rebuild"}
  BY <1>1 DEF NothingSearched, IsSearching
<1>7. RoutesAreShortest /\ SearchIsDirected
  BY <1>1, <1>5 DEF RoutesAreShortest, SearchIsDirected
<1>. QED  BY <1>1, <1>5, <1>6, <1>7
     DEF SearchInv, SearchesWellFormed, CostsAreBounds, CameFromFinalized, SearchGoesOn,
         RebuiltSoFar, ExpandedCells

LEMMA AskingKeepsIt ==
  ASSUME SearchInv, blocked' = blocked,
         NEW p \in Planners, NEW s \in Cells \cup OffTheFloor,
         NEW g \in Cells \cup OffTheFloor, Ask(p, s, g)
  PROVE  SearchInv'
<1>1. /\ phase = "idle" /\ phase' = "called"
      /\ call' = [planner |-> p, start |-> s, goal |-> g]
      /\ frontier' = frontier /\ tickets' = tickets /\ gScore' = gScore
      /\ cameFrom' = cameFrom /\ finalized' = finalized /\ path' = path
      /\ answer' = answer
  BY DEF Ask
<1>2. /\ gScore = << >> /\ cameFrom = << >> /\ finalized = {} /\ answer = "none"
      /\ SearchTypeOK
  BY <1>1 DEF SearchInv, NothingSearched
<1>3. SearchTypeOK'
  BY <1>1, <1>2 DEF SearchTypeOK
<1>4. RoutesAreShortest' /\ SearchIsDirected'
  BY <1>1, <1>2, <1>3 DEF RoutesAreShortest, SearchIsDirected
<1>5. NothingSearched' /\ ~ IsSearching' /\ phase' \notin {"search", "rebuild"}
  BY <1>1, <1>2 DEF NothingSearched, IsSearching
<1>. QED  BY <1>3, <1>4, <1>5
     DEF SearchInv, SearchesWellFormed, CostsAreBounds, CameFromFinalized, SearchGoesOn,
         RebuiltSoFar, ExpandedCells

(* What an answer has to be for the invariant: of its route and its word.  *)
LEMMA AnsweringKeepsIt ==
  ASSUME SearchInv, blocked' = blocked, NEW what \in Answers, NEW way \in Seq(Cells),
         Answer(what, way), RoutesAreShortest', SearchIsDirected'
  PROVE  SearchInv'
<1>1. phase' = "answered"
  BY DEF Answer
<1>2. NothingSearched' /\ ~ IsSearching' /\ phase' \notin {"search", "rebuild"}
  BY <1>1 DEF NothingSearched, IsSearching
<1>3. SearchTypeOK' /\ blocked' \in SUBSET Cells
  BY DEF SearchInv, SearchIsDirected
<1>. QED  BY <1>2, <1>3
     DEF SearchInv, SearchesWellFormed, CostsAreBounds, CameFromFinalized, SearchGoesOn,
         RebuiltSoFar, ExpandedCells

LEMMA AnswersAreTyped ==
  ASSUME SearchInv, blocked' = blocked, NEW what \in Answers, NEW way \in Seq(Cells),
         Answer(what, way)
  PROVE  SearchTypeOK'
BY DEF SearchInv, SearchTypeOK, Answer

LEMMA EarlyAnswersKeepIt ==
  ASSUME SearchInv, blocked' = blocked, Refuse \/ AlreadyThere
  PROVE  SearchInv'
<1>1. phase = "called" /\ finalized = {}
  BY DEF Refuse, AlreadyThere, SearchInv, NothingSearched
<1>2. CASE Refuse
  <2>1. PICK what \in {"raised", "start_blocked", "goal_blocked"} : Answer(what, << >>)
    BY <1>2 DEF Refuse
  <2>2. << >> \in Seq(Cells) /\ what \in Answers
    BY DEF Answers
  <2>3. SearchTypeOK'
    BY <2>1, <2>2, AnswersAreTyped
  <2>4. RoutesAreShortest'
    BY <2>1 DEF Answer, RoutesAreShortest
  <2>5. SearchIsDirected'
    BY <1>1, <2>1, <2>3 DEF Answer, SearchIsDirected
  <2>. QED  BY <2>1, <2>2, <2>4, <2>5, AnsweringKeepsIt
<1>3. CASE AlreadyThere
  <2>1. /\ call.start = call.goal /\ call.start \in Cells \ blocked
        /\ Answer("found", <<call.start>>)
    BY <1>3 DEF AlreadyThere, IsWalkable
  <2>2. <<call.start>> \in Seq(Cells) /\ "found" \in Answers
    BY <2>1 DEF Answers
  <2>3. SearchTypeOK'
    BY <2>1, <2>2, AnswersAreTyped
  <2>4. path' = <<call.start>> /\ answer' = "found" /\ call' = call /\ finalized' = {}
    BY <1>1, <2>1 DEF Answer
  <2>5. StepsFrom(call.start, blocked)[call.start] = 0
    BY <2>1, StepsAreExact
  <2>6. /\ path' # << >> /\ Len(path') = 1 /\ path'[1] = call.start
        /\ 1 .. Len(path') = {1} /\ 1 .. Len(path') - 1 = {} /\ DOMAIN path' = {1}
    BY <2>4
  <2>7. IsWalk(path)'
    BY <2>1, <2>6 DEF IsWalk, IsInjective
  <2>8. RoutesAreShortest'
    BY <2>1, <2>4, <2>5, <2>6, <2>7 DEF RoutesAreShortest
  <2>9. SearchIsDirected'
    BY <2>3, <2>4 DEF SearchIsDirected
  <2>. QED  BY <2>1, <2>2, <2>8, <2>9, AnsweringKeepsIt
<1>. QED  BY <1>2, <1>3

LEMMA OpeningKeepsIt ==
  ASSUME SearchInv, blocked' = blocked, Open
  PROVE  SearchInv'
<1>1. /\ phase = "called" /\ phase' = "search" /\ call.start # call.goal
      /\ call.start \in Cells \ blocked /\ call.goal \in Cells \ blocked
      /\ gScore' = [c \in {call.start} |-> 0]
      /\ frontier' = {[cell |-> call.start, g |-> 0, ticket |-> 0]}
      /\ tickets' = 1 /\ call' = call /\ cameFrom' = cameFrom
      /\ finalized' = finalized /\ path' = path /\ answer' = answer
  BY DEF Open, IsWalkable
<1>2. /\ finalized = {} /\ answer = "none" /\ cameFrom = << >> /\ DOMAIN cameFrom = {}
      /\ SearchTypeOK
  BY <1>1 DEF SearchInv, NothingSearched
<1>3. DOMAIN gScore' = {call.start} /\ gScore'[call.start] = 0
  BY <1>1
<1>4. SearchTypeOK'
  <2>1. frontier' \subseteq Entries
    BY <1>1 DEF Entries
  <2>. QED  BY <1>1, <1>2, <1>3, <2>1 DEF SearchTypeOK
<1>5. /\ call.start \in DOMAIN StepsFrom(call.start, blocked)
      /\ StepsFrom(call.start, blocked)[call.start] = 0
  BY <1>1, StepsAreExact
<1>6. SearchesWellFormed'
  BY <1>1, <1>2, <1>3 DEF SearchesWellFormed, IsWalkable
<1>7. CostsAreBounds' /\ CameFromFinalized'
  BY <1>1, <1>2, <1>3, <1>5 DEF CostsAreBounds, CameFromFinalized
<1>8. SearchGoesOn'
  BY <1>1, <1>2, <1>3 DEF SearchGoesOn
<1>9. NothingSearched' /\ RebuiltSoFar' /\ ExpandedCells' /\ RoutesAreShortest'
  BY <1>1, <1>2 DEF NothingSearched, RebuiltSoFar, ExpandedCells, RoutesAreShortest
<1>10. SearchIsDirected' /\ blocked' \in SUBSET Cells
  BY <1>1, <1>2, <1>4 DEF SearchInv, SearchIsDirected
<1>. QED  BY <1>4, <1>6, <1>7, <1>8, <1>9, <1>10 DEF SearchInv

(* A step of the loop that expands nothing.                                *)
LEMMA DroppingKeepsIt ==
  ASSUME SearchInv, blocked' = blocked, DropStale
  PROVE  SearchInv'
<1>1. /\ phase = "search" /\ phase' = phase /\ call' = call /\ tickets' = tickets
      /\ gScore' = gScore /\ cameFrom' = cameFrom /\ finalized' = finalized
      /\ path' = path /\ answer' = answer
  BY DEF DropStale
<1>2. PICK e \in frontier : e.cell \in finalized /\ frontier' = frontier \ {e}
  BY DEF DropStale
<1>3. SearchTypeOK'
  BY <1>1, <1>2 DEF SearchInv, SearchTypeOK
<1>4. SearchesWellFormed' /\ NothingSearched' /\ RebuiltSoFar' /\ ExpandedCells'
  BY <1>1 DEF SearchInv, SearchesWellFormed, IsWalkable, NothingSearched, RebuiltSoFar,
              ExpandedCells, IsSearching
<1>5. CostsAreBounds' /\ CameFromFinalized'
  BY <1>1 DEF SearchInv, CostsAreBounds, CameFromFinalized, IsSearching, Heuristic,
              WalkableNeighbours
<1>6. SearchGoesOn'
  <2>1. ASSUME NEW c \in DOMAIN gScore \ finalized
        PROVE  \E o \in frontier' : o.cell = c /\ o.g = gScore[c]
    <3>1. PICK o \in frontier : o.cell = c /\ o.g = gScore[c]
      BY <1>1 DEF SearchInv, SearchGoesOn
    <3>2. o # e
      BY <1>2, <3>1
    <3>. QED  BY <1>2, <3>1, <3>2
  <2>2. \A o \in frontier' : o.cell \in DOMAIN gScore /\ gScore[o.cell] <= o.g
    BY <1>1, <1>2 DEF SearchInv, SearchGoesOn
  <2>3. \A c \in finalized : \A n \in WalkableNeighbours(c) :
          n \in DOMAIN gScore /\ gScore[n] <= gScore[c] + 1
    BY <1>1 DEF SearchInv, SearchGoesOn
  <2>. QED  BY <1>1, <2>1, <2>2, <2>3 DEF SearchGoesOn, WalkableNeighbours
<1>7. RoutesAreShortest'
  BY <1>1 DEF SearchInv, SearchesWellFormed, IsSearching, RoutesAreShortest
<1>8. SearchIsDirected'
  BY <1>1, <1>3 DEF SearchInv, SearchIsDirected, Heuristic
<1>. QED  BY <1>1, <1>3, <1>4, <1>5, <1>6, <1>7, <1>8 DEF SearchInv

(* Every neighbour lies in one of the four directions.                     *)
LEMMA NeighboursHaveADirection ==
  ASSUME NEW c \in Cells, NEW n \in WalkableNeighbours(c)
  PROVE  PushOrder(c, n) \in Nat
<1>1. n \in Cells /\ AdjacentTo(c, n)
  BY DEF WalkableNeighbours, Neighbors
<1>2. /\ c[1] \in Int /\ c[2] \in Int /\ n[1] \in Int /\ n[2] \in Int
      /\ n = <<n[1], n[2]>>
  BY <1>1, DimensionAssumption DEF Cells
<1>3. \/ n[1] = c[1] - 1 /\ n[2] = c[2]
      \/ n[1] = c[1] + 1 /\ n[2] = c[2]
      \/ n[1] = c[1] /\ n[2] = c[2] - 1
      \/ n[1] = c[1] /\ n[2] = c[2] + 1
  <2>1. ASSUME NEW i \in Int, NEW j \in Int, NEW k \in Int, NEW l \in Int,
               Distance(i, j) + Distance(k, l) = 1
        PROVE  \/ j = i - 1 /\ l = k
               \/ j = i + 1 /\ l = k
               \/ j = i /\ l = k - 1
               \/ j = i /\ l = k + 1
    BY <2>1 DEF Distance
  <2>2. Distance(c[1], n[1]) + Distance(c[2], n[2]) = 1
    BY <1>1 DEF AdjacentTo, ManhattanDistance
  <2>. QED  BY <1>2, <2>1, <2>2
<1>4. /\ DOMAIN Direction = 1 .. 4
      /\ ApplyTo(Direction[1], c) = <<c[1] - 1, c[2]>>
      /\ ApplyTo(Direction[2], c) = <<c[1] + 1, c[2]>>
      /\ ApplyTo(Direction[3], c) = <<c[1], c[2] - 1>>
      /\ ApplyTo(Direction[4], c) = <<c[1], c[2] + 1>>
  BY <1>2 DEF ApplyTo, Direction
<1>5. \E i \in DOMAIN Direction : ApplyTo(Direction[i], c) = n
  <2>1. n \in {<<c[1] - 1, c[2]>>, <<c[1] + 1, c[2]>>, <<c[1], c[2] - 1>>, <<c[1], c[2] + 1>>}
    BY <1>2, <1>3
  <2>2. \E i \in 1 .. 4 : ApplyTo(Direction[i], c) = n
    BY <1>4, <2>1
  <2>. QED  BY <1>4, <2>2
<1>6. PushOrder(c, n) \in DOMAIN Direction
  BY <1>5 DEF PushOrder
<1>. QED  BY <1>4, <1>6

LEMMA ExpandingKeepsIt ==
  ASSUME SearchInv, blocked' = blocked, Expand
  PROVE  SearchInv'
<1> DEFINE d == StepsFrom(call.start, blocked)
<1>1. PICK e \in frontier :
        /\ Popped(e) /\ e.cell \notin finalized /\ e.cell # call.goal
        /\ finalized' = finalized \cup {e.cell}
        /\ gScore' = [c \in DOMAIN gScore \cup Improved(e.cell) |->
                        IF c \in Improved(e.cell) THEN gScore[e.cell] + 1 ELSE gScore[c]]
        /\ cameFrom' = [c \in DOMAIN cameFrom \cup Improved(e.cell) |->
                          IF c \in Improved(e.cell) THEN e.cell ELSE cameFrom[c]]
        /\ frontier' = (frontier \ {e}) \cup
             {[cell |-> c, g |-> gScore[e.cell] + 1,
               ticket |-> tickets + PushOrder(e.cell, c)] : c \in Improved(e.cell)}
  BY DEF Expand
<1>2. /\ phase = "search" /\ phase' = phase /\ call' = call /\ path' = path
      /\ answer' = answer /\ tickets' = tickets + Len(Direction)
      /\ IsSearching /\ SearchTypeOK
  BY DEF Expand, SearchInv, IsSearching
<1>x. PICK x : x = e.cell
  OBVIOUS
<1>b. PICK better : better = Improved(x)
  OBVIOUS
<1>3. /\ x \in DOMAIN gScore /\ x \in DOMAIN d /\ gScore[x] = d[x] /\ d[x] \in Nat
      /\ \A c \in DOMAIN d \ finalized : d[x] + Heuristic(x) <= d[c] + Heuristic(c)
  BY <1>1, <1>2, <1>x, PoppedIsCheapest, SearchFacts
<1>4. /\ call.start \in Cells \ blocked /\ call.goal \in Cells \ blocked
      /\ call.start \in DOMAIN gScore /\ gScore[call.start] = 0
      /\ \A c \in DOMAIN d : c \in Cells \ blocked /\ d[c] \in Nat
      /\ \A c \in DOMAIN d : \A n \in WalkableNeighbours(c) :
           n \in DOMAIN d /\ d[n] <= d[c] + 1
      /\ DOMAIN gScore \subseteq DOMAIN d /\ finalized \subseteq DOMAIN gScore
      /\ \A c \in DOMAIN gScore : gScore[c] \in Nat /\ d[c] <= gScore[c]
      /\ \A c \in finalized : gScore[c] = d[c]
  BY <1>2, SearchFacts
<1>5. \A n \in better : /\ n \in WalkableNeighbours(x) /\ n \notin finalized
                        /\ n \in DOMAIN gScore => gScore[x] + 1 < gScore[n]
  BY <1>b DEF Improved
<1>6. \A n \in WalkableNeighbours(x) \ better :
        n \in finalized \/ (n \in DOMAIN gScore /\ ~ (gScore[x] + 1 < gScore[n]))
  BY <1>b DEF Improved
<1> HIDE DEF d
<1>7. /\ DOMAIN gScore' = DOMAIN gScore \cup better
      /\ \A c \in better : gScore'[c] = gScore[x] + 1
      /\ \A c \in DOMAIN gScore \ better : gScore'[c] = gScore[c]
      /\ DOMAIN cameFrom' = DOMAIN cameFrom \cup better
      /\ \A c \in better : cameFrom'[c] = x
      /\ \A c \in DOMAIN cameFrom \ better : cameFrom'[c] = cameFrom[c]
      /\ finalized' = finalized \cup {x}
  BY <1>1, <1>x, <1>b
<1>8. /\ \A o \in frontier' :
           \/ o \in frontier /\ o # e
           \/ o.cell \in better /\ o.g = gScore[x] + 1
      /\ \A o \in frontier : o # e => o \in frontier'
      /\ \A c \in better : \E o \in frontier' : o.cell = c /\ o.g = gScore[x] + 1
  <2>1. frontier' = (frontier \ {e}) \cup
             {[cell |-> c, g |-> gScore[x] + 1,
               ticket |-> tickets + PushOrder(x, c)] : c \in better}
    BY <1>1, <1>x, <1>b
  <2>2. ASSUME NEW c \in better PROVE \E o \in frontier' : o.cell = c /\ o.g = gScore[x] + 1
    <3>1. [cell |-> c, g |-> gScore[x] + 1, ticket |-> tickets + PushOrder(x, c)] \in frontier'
      BY <2>1
    <3>. QED  BY <3>1
  <2>. QED  BY <2>1, <2>2
<1>9. frontier' \subseteq Entries
  <2>1. ASSUME NEW c \in better
        PROVE  [cell |-> c, g |-> gScore[x] + 1, ticket |-> tickets + PushOrder(x, c)] \in Entries
    <3>1. c \in Cells /\ x \in Cells /\ c \in WalkableNeighbours(x)
      BY <1>3, <1>4, <1>5 DEF WalkableNeighbours, Neighbors
    <3>2. PushOrder(x, c) \in Nat /\ tickets \in Nat /\ gScore[x] + 1 \in Nat
      BY <1>2, <1>3, <3>1, NeighboursHaveADirection DEF SearchTypeOK
    <3>. QED  BY <3>1, <3>2 DEF Entries
  <2>2. frontier \subseteq Entries
    BY <1>2 DEF SearchTypeOK
  <2>. QED  BY <1>1, <1>x, <1>b, <2>1, <2>2
<1>10. better \subseteq DOMAIN d /\ \A n \in better : d[n] <= d[x] + 1
  BY <1>3, <1>4, <1>5
<1>11. x \notin better
  <2>1. ~ AdjacentTo(x, x)
    BY <1>3, <1>4, DistanceIsNat DEF AdjacentTo
  <2>. QED  BY <1>5, <2>1 DEF WalkableNeighbours, Neighbors
<1>12. call.start \notin better
  BY <1>3, <1>4, <1>5
<1>13. /\ \A c \in DOMAIN gScore' : gScore'[c] \in Nat /\ d[c] <= gScore'[c]
       /\ \A c \in DOMAIN gScore : gScore'[c] <= gScore[c]
       /\ gScore'[x] = gScore[x] /\ \A c \in finalized : gScore'[c] = gScore[c]
  BY <1>3, <1>4, <1>5, <1>7, <1>10, <1>11
<1>14. d = StepsFrom(call.start, blocked) /\ (StepsFrom(call.start, blocked))' = d
  BY <1>2 DEF d
<1>15. SearchTypeOK'
  <2>1. DOMAIN gScore' \subseteq Cells \ blocked
    BY <1>4, <1>7, <1>10
  <2>2. /\ DOMAIN cameFrom' \subseteq DOMAIN gScore'
        /\ \A c \in DOMAIN cameFrom' : cameFrom'[c] \in DOMAIN gScore'
    BY <1>2, <1>3, <1>7 DEF SearchTypeOK
  <2>3. finalized' \subseteq DOMAIN gScore'
    BY <1>3, <1>4, <1>7
  <2>4. tickets' \in Nat
    BY <1>2 DEF SearchTypeOK, Direction
  <2>. QED  BY <1>2, <1>9, <1>13, <2>1, <2>2, <2>3, <2>4 DEF SearchTypeOK
<1>16. SearchesWellFormed'
  <2>1. gScore'[call.start] = 0 /\ call.start \in DOMAIN gScore'
    BY <1>4, <1>7, <1>12
  <2>2. call.goal \notin finalized'
    BY <1>1, <1>2, <1>x DEF SearchInv, SearchesWellFormed
  <2>. QED  BY <1>2, <2>1, <2>2 DEF SearchInv, SearchesWellFormed, IsWalkable
<1>17. CostsAreBounds'
  <2>1. ASSUME call.goal \in DOMAIN d, NEW c \in finalized'
        PROVE  d[c] + Heuristic(c) <= d[call.goal]
    <3>1. CASE c \in finalized
      BY <1>2, <1>14, <2>1, <3>1 DEF SearchInv, CostsAreBounds
    <3>2. CASE c = x
      <4>1. call.goal \notin finalized
        BY <1>2 DEF SearchInv, SearchesWellFormed
      <4>2. d[x] + Heuristic(x) <= d[call.goal] + Heuristic(call.goal)
        BY <1>3, <2>1, <4>1
      <4>3. Heuristic(call.goal) = 0 /\ d[call.goal] \in Nat
        BY <1>2, <1>4, <2>1, GuidesAreConsistent
      <4>. QED  BY <3>2, <4>2, <4>3
    <3>. QED  BY <1>7, <2>1, <3>1, <3>2
  <2>2. \A c \in finalized' : gScore'[c] = d[c]
    BY <1>3, <1>4, <1>7, <1>13
  <2>3. DOMAIN gScore' \subseteq DOMAIN d
    BY <1>4, <1>7, <1>10
  <2>4. \A c : Heuristic(c)' = Heuristic(c)
    BY <1>2 DEF Heuristic
  <2>. QED  BY <1>2, <1>13, <1>14, <2>1, <2>2, <2>3, <2>4 DEF CostsAreBounds
<1>18. CameFromFinalized'
  <2>1. ASSUME NEW c \in DOMAIN gScore', c # call.start
        PROVE  /\ c \in DOMAIN cameFrom'
               /\ cameFrom'[c] \in finalized' /\ c \in WalkableNeighbours(cameFrom'[c])
               /\ gScore'[c] = gScore'[cameFrom'[c]] + 1
    <3>1. CASE c \in better
      BY <1>5, <1>7, <1>13, <3>1
    <3>2. CASE c \notin better
      <4>1. /\ c \in DOMAIN gScore /\ c \in DOMAIN cameFrom
            /\ cameFrom[c] \in finalized /\ c \in WalkableNeighbours(cameFrom[c])
            /\ gScore[c] = gScore[cameFrom[c]] + 1
        BY <1>2, <1>7, <2>1, <3>2 DEF SearchInv, CameFromFinalized
      <4>. QED  BY <1>7, <1>13, <3>2, <4>1
    <3>. QED  BY <3>1, <3>2
  <2>. QED  BY <1>2, <2>1 DEF CameFromFinalized, WalkableNeighbours
<1>19. SearchGoesOn'
  <2>1. /\ \A o \in frontier : o.cell \in DOMAIN gScore /\ gScore[o.cell] <= o.g
        /\ \A c \in DOMAIN gScore \ finalized :
             \E o \in frontier : o.cell = c /\ o.g = gScore[c]
        /\ \A c \in finalized : \A n \in WalkableNeighbours(c) :
             n \in DOMAIN gScore /\ gScore[n] <= gScore[c] + 1
        /\ \A o \in frontier : o.g \in Nat
    BY <1>2 DEF SearchInv, SearchGoesOn, SearchTypeOK, Entries
  <2>2. ASSUME NEW o \in frontier' PROVE o.cell \in DOMAIN gScore' /\ gScore'[o.cell] <= o.g
    <3>1. CASE o \in frontier
      <4>1. /\ o.cell \in DOMAIN gScore /\ gScore[o.cell] <= o.g /\ o.g \in Nat
            /\ gScore'[o.cell] <= gScore[o.cell] /\ o.cell \in DOMAIN gScore'
        BY <1>7, <1>13, <2>1, <3>1
      <4>2. gScore[o.cell] \in Nat /\ gScore'[o.cell] \in Nat
        BY <1>4, <1>13, <4>1
      <4>. QED  BY <4>1, <4>2
    <3>2. CASE o.cell \in better /\ o.g = gScore[x] + 1
      BY <1>3, <1>7, <3>2
    <3>. QED  BY <1>8, <3>1, <3>2
  <2>3. ASSUME NEW c \in DOMAIN gScore' \ finalized'
        PROVE  \E o \in frontier' : o.cell = c /\ o.g = gScore'[c]
    <3>1. CASE c \in better
      BY <1>7, <1>8, <3>1
    <3>2. CASE c \notin better
      <4>1. c \in DOMAIN gScore \ finalized /\ c # x /\ gScore'[c] = gScore[c]
        BY <1>7, <2>3, <3>2
      <4>2. PICK o \in frontier : o.cell = c /\ o.g = gScore[c]
        BY <2>1, <4>1
      <4>3. o # e
        BY <1>x, <4>1, <4>2
      <4>. QED  BY <1>8, <4>1, <4>2, <4>3
    <3>. QED  BY <3>1, <3>2
  <2>4. ASSUME NEW c \in finalized', NEW n \in WalkableNeighbours(c)
        PROVE  n \in DOMAIN gScore' /\ gScore'[n] <= gScore'[c] + 1
    <3>1. CASE c \in finalized
      <4>1. n \in DOMAIN gScore /\ gScore[n] <= gScore[c] + 1 /\ gScore'[c] = gScore[c]
        BY <1>13, <2>1, <3>1
      <4>2. gScore[n] \in Nat /\ gScore'[n] \in Nat /\ gScore[c] \in Nat
            /\ gScore'[n] <= gScore[n]
        BY <1>4, <1>7, <1>13, <3>1, <4>1
      <4>. QED  BY <1>7, <4>1, <4>2
    <3>2. CASE c = x /\ n \in better
      BY <1>3, <1>7, <1>13, <3>2
    <3>3. CASE c = x /\ n \notin better /\ n \in finalized
      <4>1. gScore'[n] = d[n] /\ d[n] <= d[x] + 1 /\ n \in DOMAIN gScore'
        BY <1>3, <1>4, <1>7, <1>13, <2>4, <3>3
      <4>. QED  BY <1>3, <1>13, <3>3, <4>1
    <3>4. CASE c = x /\ n \notin better /\ n \notin finalized
      <4>1. n \in DOMAIN gScore /\ ~ (gScore[x] + 1 < gScore[n])
        BY <1>6, <2>4, <3>4
      <4>2. gScore'[n] = gScore[n] /\ gScore[n] \in Nat /\ gScore[x] \in Nat
        BY <1>3, <1>4, <1>7, <3>4, <4>1
      <4>. QED  BY <1>7, <1>13, <3>4, <4>1, <4>2
    <3>. QED  BY <1>7, <2>4, <3>1, <3>2, <3>3, <3>4
  <2>. QED  BY <1>2, <2>2, <2>3, <2>4 DEF SearchGoesOn, WalkableNeighbours
<1>20. NothingSearched' /\ RebuiltSoFar' /\ ExpandedCells'
  BY <1>2 DEF NothingSearched, RebuiltSoFar, ExpandedCells
<1>21. answer' = "none"
  BY <1>2 DEF SearchInv, SearchesWellFormed
<1>22. RoutesAreShortest'
  BY <1>21 DEF RoutesAreShortest
<1>23. SearchIsDirected'
  <2>1. IsSearching'
    BY <1>2 DEF IsSearching
  <2>. QED  BY <1>15, <1>17, <1>21, <2>1 DEF SearchIsDirected, CostsAreBounds
<1>24. blocked' \in SUBSET Cells
  BY DEF SearchInv
<1>. QED  BY <1>15, <1>16, <1>17, <1>18, <1>19, <1>20, <1>22, <1>23, <1>24 DEF SearchInv

(* The goal is popped: every cell nearer was popped, or costs more to pass. *)
LEMMA ArrivingKeepsIt ==
  ASSUME SearchInv, blocked' = blocked, Arrive
  PROVE  SearchInv'
<1> DEFINE d == StepsFrom(call.start, blocked)
<1>1. PICK e \in frontier :
        /\ Popped(e) /\ e.cell \notin finalized /\ e.cell = call.goal
        /\ finalized' = finalized \cup {e.cell}
        /\ frontier' = frontier \ {e}
  BY DEF Arrive
<1>2. /\ phase = "search" /\ phase' = "rebuild" /\ path' = <<call.goal>>
      /\ call' = call /\ tickets' = tickets /\ gScore' = gScore
      /\ cameFrom' = cameFrom /\ answer' = answer
      /\ IsSearching /\ IsSearching' /\ SearchTypeOK
  BY DEF Arrive, SearchInv, IsSearching
<1>3. /\ call.goal \in DOMAIN gScore /\ call.goal \in DOMAIN d
      /\ gScore[call.goal] = d[call.goal]
      /\ \A c \in DOMAIN d \ finalized :
           d[call.goal] + Heuristic(call.goal) <= d[c] + Heuristic(c)
      /\ finalized' = finalized \cup {call.goal} /\ call.goal \notin finalized
  BY <1>1, <1>2, PoppedIsCheapest
<1>4. /\ call.goal \in Cells \ blocked
      /\ \A c \in DOMAIN d : c \in Cells \ blocked /\ d[c] \in Nat
      /\ DOMAIN gScore \subseteq DOMAIN d /\ finalized \subseteq DOMAIN gScore
  BY <1>2, SearchFacts
<1>5. d[call.goal] \in Nat /\ Heuristic(call.goal) = 0
      /\ \A c \in Cells :
           /\ Heuristic(c) \in Nat
           /\ call.planner = "astar" /\ c # call.goal => Heuristic(c) >= 1
           /\ call.planner = "dijkstra" => Heuristic(c) = 0
  BY <1>2, <1>3, <1>4, GuidesAreConsistent
<1>6. d = StepsFrom(call.start, blocked) /\ (StepsFrom(call.start, blocked))' = d
  BY <1>2
<1>7. \A c : Heuristic(c)' = Heuristic(c)
  BY <1>2 DEF Heuristic
<1>8. \A c \in finalized : d[c] + Heuristic(c) <= d[call.goal]
  BY <1>2, <1>3 DEF SearchInv, CostsAreBounds
<1>9. /\ DOMAIN gScore \subseteq DOMAIN d
      /\ \A c \in DOMAIN gScore : d[c] <= gScore[c]
      /\ \A c \in finalized : gScore[c] = d[c]
  BY <1>2 DEF SearchInv, CostsAreBounds
<1> HIDE DEF d
<1>10. \A c \in finalized' : gScore[c] = d[c] /\ d[c] + Heuristic(c) <= d[call.goal]
  BY <1>3, <1>5, <1>8, <1>9
<1>11. CostsAreBounds'
  BY <1>2, <1>6, <1>7, <1>9, <1>10 DEF CostsAreBounds
<1>12. SearchTypeOK'
  <2>1. path' \in Seq(Cells)
    BY <1>2, <1>4
  <2>. QED  BY <1>1, <1>2, <1>3, <2>1 DEF SearchTypeOK
<1>13. CameFromFinalized'
  BY <1>2, <1>3 DEF SearchInv, CameFromFinalized, WalkableNeighbours
<1>14. RebuiltSoFar'
  <2>1. path' # << >> /\ Len(path') = 1 /\ path'[1] = call.goal
    BY <1>2
  <2>2. path'[1] \in finalized' /\ gScore[path'[1]] \in Nat
    BY <1>3, <1>5, <2>1
  <2>3. \A i \in 1 .. 1 : i = 1
    OBVIOUS
  <2>4. \A i \in 1 .. Len(path') :
          path'[i] \in finalized' /\ gScore[path'[i]] = gScore[path'[1]] + i - 1
    BY <2>1, <2>2, <2>3
  <2>5. 1 .. Len(path') - 1 = {}
    BY <2>1
  <2>. QED  BY <1>2, <2>1, <2>4, <2>5 DEF RebuiltSoFar
<1>15. ExpandedCells'
  <2>1. ASSUME call.planner = "astar", NEW c \in finalized, c # call.goal
        PROVE  c \in DOMAIN d /\ d[c] < d[call.goal]
    <3>1. c \in DOMAIN d /\ c \in Cells /\ d[c] \in Nat
      BY <1>4
    <3>2. d[c] + Heuristic(c) <= d[call.goal] /\ Heuristic(c) \in Nat /\ Heuristic(c) >= 1
      BY <1>5, <1>8, <2>1, <3>1
    <3>. QED  BY <1>5, <3>1, <3>2
  <2>2. ASSUME call.planner = "dijkstra", NEW c \in DOMAIN d, d[c] < d[call.goal]
        PROVE  c \in finalized
    <3>1. c \in Cells /\ d[c] \in Nat /\ Heuristic(c) = 0
      BY <1>4, <1>5, <2>2
    <3>2. CASE c \notin finalized
      <4>1. d[call.goal] + 0 <= d[c] + 0
        BY <1>3, <1>5, <2>2, <3>1, <3>2
      <4>. QED  BY <1>5, <2>2, <3>1, <4>1
    <3>. QED  BY <3>2
  <2>3. call.goal \in finalized'
    BY <1>3
  <2>4. call.planner = "astar" =>
          finalized' \ {call.goal} \subseteq {c \in DOMAIN d : d[c] < d[call.goal]}
    BY <1>3, <2>1
  <2>5. call.planner = "dijkstra" => {c \in DOMAIN d : d[c] < d[call.goal]} \subseteq finalized'
    BY <1>3, <2>2
  <2>. QED  BY <1>2, <1>6, <2>3, <2>4, <2>5 DEF ExpandedCells
<1>16. SearchesWellFormed' /\ answer' = "none"
  BY <1>2 DEF SearchInv, SearchesWellFormed, IsWalkable
<1>17. NothingSearched' /\ SearchGoesOn' /\ RoutesAreShortest'
  BY <1>2, <1>16 DEF NothingSearched, SearchGoesOn, RoutesAreShortest
<1>18. SearchIsDirected'
  BY <1>2, <1>11, <1>12, <1>16 DEF SearchIsDirected, CostsAreBounds
<1>19. blocked' \in SUBSET Cells
  BY DEF SearchInv
<1>. QED  BY <1>11, <1>12, <1>13, <1>14, <1>15, <1>16, <1>17, <1>18, <1>19 DEF SearchInv

(* An empty heap means that no walk leads to the goal.                     *)
LEMMA ExhaustedKeepsIt ==
  ASSUME SearchInv, blocked' = blocked, Exhausted
  PROVE  SearchInv'
<1>1. /\ phase = "search" /\ frontier = {} /\ Answer("unreachable", << >>)
      /\ IsSearching
  BY DEF Exhausted, IsSearching
<1>2. << >> \in Seq(Cells) /\ "unreachable" \in Answers
  BY DEF Answers
<1>3. SearchTypeOK'
  BY <1>1, <1>2, AnswersAreTyped
<1>4. /\ path' = << >> /\ answer' = "unreachable" /\ call' = call
      /\ finalized' = finalized /\ gScore' = gScore
  BY <1>1 DEF Answer
<1>5. call.goal \notin DOMAIN StepsFrom(call.start, blocked)
  <2>1. call.goal \notin finalized
    BY <1>1 DEF SearchInv, SearchesWellFormed
  <2>. QED  BY <1>1, <2>1, SomethingIsFinal
<1>6. RoutesAreShortest'
  BY <1>4, <1>5 DEF RoutesAreShortest
<1>7. SearchIsDirected'
  BY <1>1, <1>3, <1>4 DEF SearchInv, CostsAreBounds, SearchIsDirected, Heuristic
<1>. QED  BY <1>1, <1>2, <1>6, <1>7, AnsweringKeepsIt

(* One cell nearer the start.                                              *)
LEMMA TracingKeepsIt ==
  ASSUME SearchInv, blocked' = blocked, TraceBack
  PROVE  SearchInv'
<1>1. /\ phase = "rebuild" /\ phase' = phase /\ Head(path) # call.start
      /\ path' = <<cameFrom[Head(path)]>> \o path
      /\ call' = call /\ frontier' = frontier /\ tickets' = tickets
      /\ gScore' = gScore /\ cameFrom' = cameFrom /\ finalized' = finalized
      /\ answer' = answer /\ IsSearching
  BY DEF TraceBack, IsRebuilt, IsSearching
<1>2. /\ path # << >> /\ path[Len(path)] = call.goal
      /\ \A i \in 1 .. Len(path) :
           path[i] \in finalized /\ gScore[path[i]] = gScore[path[1]] + i - 1
      /\ \A i \in 1 .. Len(path) - 1 : AdjacentTo(path[i], path[i+1])
      /\ path \in Seq(Cells) /\ SearchTypeOK
  BY <1>1 DEF SearchInv, RebuiltSoFar, SearchTypeOK
<1>3. Len(path) \in Nat \ {0} /\ Head(path) = path[1]
  BY <1>2
<1>4. path[1] \in finalized /\ path[1] # call.start
  BY <1>1, <1>2, <1>3
<1>5. finalized \subseteq DOMAIN gScore /\ DOMAIN gScore \subseteq Cells
      /\ \A c \in DOMAIN gScore : gScore[c] \in Nat
  BY <1>2 DEF SearchTypeOK
<1>6. PICK c : c = cameFrom[path[1]]
  OBVIOUS
<1>7. /\ c \in finalized /\ AdjacentTo(c, path[1])
      /\ gScore[path[1]] = gScore[c] + 1
  BY <1>1, <1>4, <1>5, <1>6
     DEF SearchInv, CameFromFinalized, WalkableNeighbours, Neighbors
<1>8. gScore[c] \in Nat /\ c \in Cells /\ path' = <<c>> \o path
  BY <1>1, <1>3, <1>5, <1>6, <1>7
<1>9. /\ path' \in Seq(Cells) /\ Len(path') = Len(path) + 1 /\ path'[1] = c
      /\ \A i \in 1 .. Len(path) : path'[i + 1] = path[i]
  BY <1>2, <1>8
<1>10. RebuiltSoFar'
  <2>1. path' # << >> /\ path'[Len(path')] = call.goal
    BY <1>2, <1>3, <1>9
  <2>2. ASSUME NEW i \in 1 .. Len(path')
        PROVE  path'[i] \in finalized /\ gScore[path'[i]] = gScore[path'[1]] + i - 1
    <3>1. CASE i = 1
      BY <1>7, <1>8, <1>9, <3>1
    <3>2. CASE i # 1
      <4>1. PICK j \in 1 .. Len(path) : i = j + 1
        <5>1. i - 1 \in 1 .. Len(path) /\ i = (i - 1) + 1
          BY <1>3, <1>9, <2>2, <3>2
        <5>. QED  BY <5>1
      <4>2. path'[i] = path[j]
        BY <1>9, <4>1
      <4>3. path[j] \in finalized /\ gScore[path[j]] = gScore[path[1]] + j - 1
        BY <1>2
      <4>4. gScore[path[j]] = (gScore[c] + 1) + j - 1 /\ path'[1] = c
        BY <1>7, <1>9, <4>3
      <4>5. (gScore[c] + 1) + j - 1 = gScore[c] + i - 1
        BY <1>3, <1>8, <4>1
      <4>6. gScore[path[j]] = gScore[c] + i - 1
        BY <4>4, <4>5
      <4>. QED  BY <4>2, <4>3, <4>4, <4>6
    <3>. QED  BY <3>1, <3>2
  <2>3. ASSUME NEW i \in 1 .. Len(path') - 1 PROVE AdjacentTo(path'[i], path'[i+1])
    <3>1. CASE i = 1
      <4>1. path'[2] = path[1]
        BY <1>3, <1>9
      <4>. QED  BY <1>7, <1>9, <3>1, <4>1
    <3>2. CASE i # 1
      <4>1. PICK j \in 1 .. Len(path) - 1 : i = j + 1
        <5>1. i - 1 \in 1 .. Len(path) - 1 /\ i = (i - 1) + 1
          BY <1>3, <1>9, <2>3, <3>2
        <5>. QED  BY <5>1
      <4>2. path'[i] = path[j] /\ path'[i+1] = path[j+1]
        BY <1>3, <1>9, <4>1
      <4>. QED  BY <1>2, <4>2
    <3>. QED  BY <3>1, <3>2
  <2>. QED  BY <1>1, <2>1, <2>2, <2>3 DEF RebuiltSoFar
<1>11. SearchTypeOK'
  BY <1>1, <1>2, <1>9 DEF SearchTypeOK
<1>12. SearchesWellFormed' /\ NothingSearched' /\ SearchGoesOn' /\ ExpandedCells'
  BY <1>1 DEF SearchInv, SearchesWellFormed, IsWalkable, NothingSearched, SearchGoesOn,
              ExpandedCells, IsSearching
<1>13. CostsAreBounds' /\ CameFromFinalized'
  BY <1>1 DEF SearchInv, CostsAreBounds, CameFromFinalized, IsSearching, Heuristic,
              WalkableNeighbours
<1>14. RoutesAreShortest'
  BY <1>1 DEF SearchInv, SearchesWellFormed, RoutesAreShortest
<1>15. SearchIsDirected'
  BY <1>1, <1>11 DEF SearchInv, SearchIsDirected, Heuristic
<1>. QED  BY <1>10, <1>11, <1>12, <1>13, <1>14, <1>15 DEF SearchInv

(* The route is complete: its costs count its cells, so none comes twice.  *)
LEMMA ReturningKeepsIt ==
  ASSUME SearchInv, blocked' = blocked, ReturnRoute
  PROVE  SearchInv'
<1> DEFINE d == StepsFrom(call.start, blocked)
<1>1. /\ phase = "rebuild" /\ Head(path) = call.start /\ Answer("found", path)
      /\ IsSearching /\ SearchTypeOK /\ path \in Seq(Cells)
  BY DEF ReturnRoute, IsRebuilt, IsSearching, SearchInv, SearchTypeOK
<1>2. "found" \in Answers
  BY DEF Answers
<1>3. SearchTypeOK'
  BY <1>1, <1>2, AnswersAreTyped
<1>4. /\ path' = path /\ answer' = "found" /\ call' = call
      /\ finalized' = finalized /\ gScore' = gScore
  BY <1>1 DEF Answer
<1>5. /\ path # << >> /\ path[Len(path)] = call.goal
      /\ \A i \in 1 .. Len(path) :
           path[i] \in finalized /\ gScore[path[i]] = gScore[path[1]] + i - 1
      /\ \A i \in 1 .. Len(path) - 1 : AdjacentTo(path[i], path[i+1])
  BY <1>1 DEF SearchInv, RebuiltSoFar
<1>6. Len(path) \in Nat \ {0} /\ path[1] = call.start
  BY <1>1, <1>5
<1>7. /\ gScore[call.start] = 0 /\ finalized \subseteq DOMAIN gScore
      /\ DOMAIN gScore \subseteq Cells \ blocked
      /\ \A c \in finalized : gScore[c] = d[c]
  BY <1>1, SearchFacts DEF SearchTypeOK
<1>8. \A i \in 1 .. Len(path) : path[i] \in finalized /\ gScore[path[i]] = i - 1
  BY <1>5, <1>6, <1>7
<1>9. IsWalk(path)
  <2>1. \A i \in 1 .. Len(path) : path[i] \in Cells \ blocked
    BY <1>7, <1>8
  <2>2. ASSUME NEW i \in 1 .. Len(path), NEW j \in 1 .. Len(path), path[i] = path[j]
        PROVE  i = j
    BY <1>8, <2>2
  <2>3. DOMAIN path = 1 .. Len(path)
    BY <1>1
  <2>4. IsInjective(path)
    BY <2>2, <2>3 DEF IsInjective
  <2>. QED  BY <1>5, <2>1, <2>4 DEF IsWalk
<1>10. Len(path) - 1 = d[call.goal]
  <2>1. Len(path) \in 1 .. Len(path)
    BY <1>6
  <2>. QED  BY <1>5, <1>7, <1>8, <2>1
<1>11. RoutesAreShortest'
  <2>1. IsWalk(path)'
    BY <1>4, <1>9 DEF IsWalk
  <2>. QED  BY <1>4, <1>5, <1>6, <1>10, <2>1 DEF RoutesAreShortest
<1>12. SearchIsDirected'
  <2>1. /\ \A c \in finalized : gScore[c] = d[c]
        /\ \A c \in finalized : call.goal \in DOMAIN d => d[c] + Heuristic(c) <= d[call.goal]
    BY <1>1 DEF SearchInv, CostsAreBounds
  <2>2. /\ call.planner = "astar" =>
             finalized \ {call.goal} \subseteq {c \in DOMAIN d : d[c] < d[call.goal]}
        /\ call.planner = "dijkstra" => {c \in DOMAIN d : d[c] < d[call.goal]} \subseteq finalized
    BY <1>1 DEF SearchInv, ExpandedCells
  <2>. QED  BY <1>3, <1>4, <2>1, <2>2 DEF SearchIsDirected, Heuristic
<1>. QED  BY <1>1, <1>2, <1>11, <1>12, AnsweringKeepsIt

LEMMA WaitingKeepsIt ==
  ASSUME SearchInv, UNCHANGED <<blocked, searchVars>>
  PROVE  SearchInv'
<1>1. /\ blocked' = blocked /\ call' = call /\ phase' = phase /\ frontier' = frontier
      /\ tickets' = tickets /\ gScore' = gScore /\ cameFrom' = cameFrom
      /\ finalized' = finalized /\ path' = path /\ answer' = answer
  BY DEF searchVars
<1>2. SearchTypeOK' /\ blocked' \in SUBSET Cells
  BY <1>1 DEF SearchInv, SearchTypeOK
<1>3. NothingSearched' /\ SearchesWellFormed' /\ RebuiltSoFar' /\ ExpandedCells'
  BY <1>1 DEF SearchInv, NothingSearched, SearchesWellFormed, IsWalkable, RebuiltSoFar,
              ExpandedCells, IsSearching
<1>4. CostsAreBounds' /\ CameFromFinalized' /\ SearchGoesOn'
  BY <1>1 DEF SearchInv, CostsAreBounds, CameFromFinalized, SearchGoesOn, IsSearching,
              Heuristic, WalkableNeighbours
<1>5. RoutesAreShortest'
  BY <1>1 DEF SearchInv, RoutesAreShortest, IsWalk
<1>6. SearchIsDirected'
  BY <1>1, <1>2 DEF SearchInv, SearchIsDirected, Heuristic
<1>. QED  BY <1>2, <1>3, <1>4, <1>5, <1>6 DEF SearchInv

(* Every search of either planner keeps its books as the model says: the   *)
(* costs in gScore, the parents in cameFrom and the cells popped for good. *)
THEOREM SearchesAreInvariant == SearchSpec => []SearchInv
<1>1. SearchInit => SearchInv
  BY SearchInvInit
<1>2. SearchInv /\ [SearchNext]_<<blocked, searchVars>> => SearchInv'
  <2> SUFFICES ASSUME SearchInv, [SearchNext]_<<blocked, searchVars>> PROVE SearchInv'
    OBVIOUS
  <2>1. CASE UNCHANGED <<blocked, searchVars>>
    BY <2>1, WaitingKeepsIt
  <2>2. CASE SearchNext
    <3>1. blocked' = blocked
      BY <2>2 DEF SearchNext
    <3>2. ASSUME NEW p \in Planners, NEW s \in Cells \cup OffTheFloor,
                 NEW g \in Cells \cup OffTheFloor, Ask(p, s, g)
          PROVE  SearchInv'
      BY <3>1, <3>2, AskingKeepsIt
    <3>3. CASE Refuse \/ AlreadyThere
      BY <3>1, <3>3, EarlyAnswersKeepIt
    <3>4. CASE Open
      BY <3>1, <3>4, OpeningKeepsIt
    <3>5. CASE DropStale
      BY <3>1, <3>5, DroppingKeepsIt
    <3>6. CASE Expand
      BY <3>1, <3>6, ExpandingKeepsIt
    <3>7. CASE Arrive
      BY <3>1, <3>7, ArrivingKeepsIt
    <3>8. CASE Exhausted
      BY <3>1, <3>8, ExhaustedKeepsIt
    <3>9. CASE TraceBack
      BY <3>1, <3>9, TracingKeepsIt
    <3>10. CASE ReturnRoute
      BY <3>1, <3>10, ReturningKeepsIt
    <3>. QED  BY <2>2, <3>2, <3>3, <3>4, <3>5, <3>6, <3>7, <3>8, <3>9, <3>10
         DEF SearchNext, PlannerStep
  <2>. QED  BY <2>1, <2>2
<1>. QED  BY <1>1, <1>2, PTL DEF SearchSpec

(* "Find a genuinely shortest path, or report cleanly that no path exists" *)
(* (planning/__init__.py), on every floor, for every start and goal.       *)
THEOREM RoutesFoundAreShortest == SearchSpec => []RoutesAreShortest
<1>1. SearchInv => RoutesAreShortest
  BY DEF SearchInv
<1>. QED  BY <1>1, SearchesAreInvariant, PTL

(* A cell popped for good has its final cost (heuristics.py), and A* never *)
(* expands a cell that Dijkstra could have left alone (astar.py).          *)
THEOREM GuidesSaveWork == SearchSpec => []SearchIsDirected
<1>1. SearchInv => SearchIsDirected
  BY DEF SearchInv
<1>. QED  BY <1>1, SearchesAreInvariant, PTL
=============================================================================
