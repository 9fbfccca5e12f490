------------------------------ MODULE Recovery ------------------------------
(***************************************************************************)
(* Driving a fleet through disruptions                                     *)
(* (robotics/recovery/recovery_manager.py): at the top of every timestep   *)
(* the scheduled failures and obstacles are handled, robots whose routes   *)
(* they cut are replanned one after the other from where they stand, the   *)
(* task of a failed robot is offered to the rest, and then the whole joint *)
(* step is validated and committed.                                        *)
(*                                                                         *)
(* run() is one call of one thread.  Its modes are the places in it where  *)
(* something may go one way or another; nothing comes in between.  The     *)
(* commit loop is one step here: CoordinatedExecutor has it robot by       *)
(* robot, behind the same checks.  Counts, times and texts of the report   *)
(* are left out; a joint conflict found at a step ends the run like any    *)
(* other failed check, so its counters add nothing to the verdict.         *)
(***************************************************************************)
EXTENDS Replanning

CONSTANTS
  Tasks, NoRobot, NoTask,
  Pickup, Dropoff,   \* Task.pickup_location, Task.dropoff_location
  CanCarry,          \* pairs <<robot, task>> within the payload capacity
  Drain              \* battery_drain_per_move

(* Robots and cells are handled in the order of their ids: Robots are      *)
(* numbers here.                                                           *)
ASSUME RecoveryAssumption ==
  /\ Robots \subseteq Nat
  /\ NoRobot \notin Robots
  /\ NoTask \notin Tasks
  /\ Pickup \in [Tasks -> Cells] /\ Dropoff \in [Tasks -> Cells]
  /\ CanCarry \subseteq Robots \X Tasks
  /\ Drain \in Nat

VARIABLES
  enabled,              \* recovery_enabled
  failures, drops,      \* events to come: <<timestep, robot>>, <<timestep, cell>>
  limit,                \* the last timestep the loop may drive
  mode,
  clock,                \* now
  paths, goals,         \* active_paths, goals: the robots under control
  trace,                \* executed_trace
  offline, stopped,     \* offline, safe_stopped
  position, battery, status, holds,   \* the robots of the simulator
  taskStatus, assignedTo,             \* its tasks
  blocked,              \* cells under an obstacle
  failing, released,    \* the failed robot at hand and the task it gave up
  queue, future,        \* robots still to be replanned, and their table
  safeStop,             \* some event was not recovered from
  result                \* how the call ended

worldVars == <<position, battery, status, holds, taskStatus, assignedTo>>
taskVars == <<status, holds, taskStatus, assignedTo>>
planVars == <<paths, goals, trace, offline, stopped>>
handlingVars == <<failing, released, queue, future>>
scheduleVars == <<enabled, failures, drops, limit>>
vars == <<scheduleVars, mode, clock, planVars, worldVars, blocked,
          handlingVars, safeStop, result>>

Driven == DOMAIN paths
LiveRobots == Driven \ offline
(* Seeded fault: a stopped robot may be driven on.                       *)
MoversAndStopped == LiveRobots

Movers == LiveRobots \ stopped
Here(r) == Goal(trace[r])

-----------------------------------------------------------------------------
(* Pre-flight.                                                             *)

Misplaced(r) == position[r] # paths[r].at[paths[r].start]

Refuse(reason) ==
  /\ mode' = "done"
  /\ result' = reason
  /\ UNCHANGED <<scheduleVars, clock, planVars, worldVars, blocked,
                 handlingVars, safeStop>>

NothingToDrive == mode = "idle" /\ Driven = {} /\ Refuse("ok")

RejectPlan == mode = "idle" /\ HasProblems(paths, {}) /\ Refuse("plan_rejected")

RejectFleet ==
  /\ mode = "idle"
  /\ ~ HasProblems(paths, {})
  /\ \E r \in Driven : Misplaced(r)
  /\ Refuse("fleet_not_ready")

Start ==
  /\ mode = "idle"
  /\ Driven # {}
  /\ ~ HasProblems(paths, {})
  /\ \A r \in Driven : ~ Misplaced(r)
  /\ mode' = "running"
  /\ goals' = [r \in Driven |-> Goal(paths[r])]
  /\ trace' = [r \in Driven |-> StandAt(position[r], 0)]
  /\ UNCHANGED <<scheduleVars, clock, paths, offline, stopped, worldVars,
                 blocked, handlingVars, safeStop, result>>

-----------------------------------------------------------------------------
(* Which event is next: failures first, by robot, then obstacles by cell.  *)

DueFailures == {e \in failures : e[1] = clock}
DueDrops == {e \in drops : e[1] = clock}

CellBefore(c, d) == c[1] < d[1] \/ (c[1] = d[1] /\ c[2] <= d[2])

NextFailure(e) == e \in DueFailures /\ \A d \in DueFailures : e[2] <= d[2]

NextDrop(e) ==
  /\ DueFailures = {}
  /\ e \in DueDrops
  /\ \A d \in DueDrops : CellBefore(e[2], d[2])

NothingDue == DueFailures = {} /\ DueDrops = {}

-----------------------------------------------------------------------------
(* Replanning the robots an event affects, one at a time.                  *)

Pinned == [o \in offline |-> position[o]]

(* Seeded fault: routes through a failed robot's cell are reserved too.  *)
KeptWithStale(exclude) == Driven \ (exclude \cup offline)

(* Routes through the cell of a failed robot are stale and left out.       *)
Kept(exclude) ==
  {r \in Driven \ (exclude \cup offline) :
     \A o \in offline : ~ RouteTouchesCell(paths[r], position[o], clock)}

FutureTable(exclude) == FutureReservations(paths, Kept(exclude), Pinned, clock)
TableClash(exclude) == HeldTwice(FutureVertices(paths, Kept(exclude), Pinned, clock))

BeginReplanning(affected) ==
  /\ queue' = affected
  /\ IF TableClash(affected)
     THEN mode' = "raised" /\ UNCHANGED future
     ELSE mode' = "replanning" /\ future' = FutureTable(affected)

Repair(r, routes) ==
  /\ \E p \in routes :
       /\ paths' = [paths EXCEPT ![r] = Splice(trace[r], p)]
       /\ future' = ReserveTimedPath(future, r, p)
  /\ UNCHANGED <<stopped, safeStop>>

(* No conflict-free continuation: the robot stays where it is for good.    *)
StopSafely(r) ==
  /\ stopped' = stopped \cup {r}
  /\ paths' = [paths EXCEPT ![r] = Splice(trace[r], StandAt(Here(r), clock))]
  /\ safeStop' = TRUE
  /\ UNCHANGED future

Replan ==
  /\ mode = "replanning"
  /\ \E r \in queue :
       /\ \A q \in queue : r <= q
       /\ LET routes == Replans(future, r, Here(r), goals[r], clock, blocked) IN
          \/ routes # {} /\ Repair(r, routes)
          \/ routes = {} /\ StopSafely(r)
       /\ queue' = queue \ {r}
       /\ mode' = IF queue' = {} THEN "running" ELSE mode
  /\ UNCHANGED <<scheduleVars, clock, goals, trace, offline, worldVars, blocked,
                 failing, released, result>>

-----------------------------------------------------------------------------
(* An obstacle appears.                                                    *)

Occupied(c) == \E r \in Robots : position[r] = c

HitBy(c) == {r \in Movers : RouteTouchesCell(paths[r], c, clock)}

(* Refused under a robot: nothing to recover.                              *)
RefuseObstacle(c) ==
  /\ Occupied(c)
  /\ UNCHANGED <<mode, paths, stopped, blocked, queue, future, safeStop>>

DropBesideRoutes(c) ==
  /\ ~ Occupied(c)
  /\ HitBy(c) = {}
  /\ blocked' = blocked \cup {c}
  /\ UNCHANGED <<mode, paths, stopped, queue, future, safeStop>>

DropWithoutRecovery(c) ==
  /\ ~ Occupied(c)
  /\ HitBy(c) # {} /\ ~ enabled
  /\ blocked' = blocked \cup {c}
  /\ stopped' = stopped \cup HitBy(c)
  /\ paths' = [r \in Driven |->
                 IF r \in HitBy(c) THEN Splice(trace[r], StandAt(Here(r), clock))
                 ELSE paths[r]]
  /\ safeStop' = TRUE
  /\ UNCHANGED <<mode, queue, future>>

DropOnRoutes(c) ==
  /\ ~ Occupied(c)
  /\ HitBy(c) # {} /\ enabled
  /\ blocked' = blocked \cup {c}
  /\ BeginReplanning(HitBy(c))
  /\ UNCHANGED <<paths, stopped, safeStop>>

RecoverObstacle ==
  /\ mode = "running"
  /\ \E e \in drops :
       /\ NextDrop(e)
       /\ drops' = drops \ {e}
       /\ \/ RefuseObstacle(e[2]) \/ DropBesideRoutes(e[2])
          \/ DropWithoutRecovery(e[2]) \/ DropOnRoutes(e[2])
  /\ UNCHANGED <<enabled, failures, limit, clock, goals, trace, offline,
                 worldVars, failing, released, result>>

-----------------------------------------------------------------------------
(* A robot fails: it goes offline and gives its task up.                   *)

(* Seeded fault: the task is released, the robot still points at it.     *)
ReleaseTaskSideOnly(f) ==
  LET t == holds[f]
      before == IF t \in Tasks THEN taskStatus[t] ELSE "none"
      toPool == before = "ASSIGNED" IN
  /\ status' = [status EXCEPT ![f] = "OFFLINE"]
  /\ holds' = holds
  /\ taskStatus' = [k \in Tasks |->
                      IF k # t THEN taskStatus[k]
                      ELSE CASE toPool -> "PENDING"
                             [] before = "IN_PROGRESS" -> "FAILED"
                             [] OTHER -> before]
  /\ assignedTo' = [k \in Tasks |-> IF k = t /\ toPool THEN NoRobot ELSE assignedTo[k]]
  /\ released' = IF toPool THEN t ELSE NoTask

(* An assigned task returns to the pool, one in progress fails with its    *)
(* robot, and a finished one is left as it is.                             *)
ReleaseTask(f) ==
  LET t == holds[f]
      before == IF t \in Tasks THEN taskStatus[t] ELSE "none"
      toPool == before = "ASSIGNED" IN
  /\ status' = [status EXCEPT ![f] = "OFFLINE"]
  /\ holds' = [holds EXCEPT ![f] =
                 IF before \in {"ASSIGNED", "IN_PROGRESS"} THEN NoTask ELSE @]
  /\ taskStatus' = [k \in Tasks |->
                      IF k # t THEN taskStatus[k]
                      ELSE CASE toPool -> "PENDING"
                             [] before = "IN_PROGRESS" -> "FAILED"
                             [] OTHER -> before]
  /\ assignedTo' = [k \in Tasks |-> IF k = t /\ toPool THEN NoRobot ELSE assignedTo[k]]
  /\ released' = IF toPool THEN t ELSE NoTask

FailWithoutRecovery(f) ==
  /\ ~ enabled
  /\ status' = [status EXCEPT ![f] = "OFFLINE"]
  /\ safeStop' = TRUE
  /\ UNCHANGED <<mode, failing, released, holds, taskStatus, assignedTo>>

FailAndRelease(f) ==
  /\ enabled
  /\ ReleaseTask(f)
  /\ failing' = f
  /\ mode' = IF released' = NoTask THEN "rerouting" ELSE "reassigning"
  /\ UNCHANGED safeStop

RecoverFailure ==
  /\ mode = "running"
  /\ \E e \in failures :
       /\ NextFailure(e)
       /\ failures' = failures \ {e}
       /\ offline' = offline \cup {e[2]}
       /\ paths' = [r \in Driven |-> IF r = e[2] THEN trace[r] ELSE paths[r]]
       /\ FailWithoutRecovery(e[2]) \/ FailAndRelease(e[2])
  /\ UNCHANGED <<enabled, drops, limit, clock, goals, trace, stopped, position,
                 battery, blocked, queue, future, result>>

-----------------------------------------------------------------------------
(* The released task is offered to the fleet by the greedy allocator.      *)

IsAvailable(r) == status[r] = "IDLE" /\ holds[r] = NoTask

Reachable(a, b) ==
  {a, b} \cap blocked = {} /\ SpatiallyReachable(a, b, blocked)

PathCost(a, b) ==
  CHOOSE n \in 0 .. Width * Height :
    /\ b \in WithinSteps(a, blocked)[n]
    /\ n > 0 => b \notin WithinSteps(a, blocked)[n-1]

AssignmentCost(r, t) ==
  PathCost(position[r], Pickup[t]) + PathCost(Pickup[t], Dropoff[t])

Candidates(t) ==
  {r \in Robots \ offline :
     /\ IsAvailable(r)
     /\ <<r, t>> \in CanCarry
     /\ Reachable(position[r], Pickup[t])
     /\ Reachable(Pickup[t], Dropoff[t])
     /\ Drain * AssignmentCost(r, t) <= battery[r]}

Cheapest(r, t) ==
  /\ r \in Candidates(t)
  /\ \A q \in Candidates(t) :
       \/ AssignmentCost(r, t) < AssignmentCost(q, t)
       \/ (AssignmentCost(r, t) = AssignmentCost(q, t) /\ r <= q)

NobodyTakesIt ==
  /\ Candidates(released) = {}
  /\ safeStop' = TRUE
  /\ mode' = "rerouting"
  /\ UNCHANGED <<paths, goals, trace, taskVars>>

(* commit_allocation repeats the checks the allocator has just made.       *)
CommitTo(r) ==
  /\ holds' = [holds EXCEPT ![r] = released]
  /\ status' = [status EXCEPT ![r] = "ASSIGNED"]
  /\ taskStatus' = [taskStatus EXCEPT ![released] = "ASSIGNED"]
  /\ assignedTo' = [assignedTo EXCEPT ![released] = r]

(* The table for the newcomer's route cannot be built.                     *)
RaiseAfterCommit(r) ==
  /\ TableClash({r})
  /\ CommitTo(r)
  /\ mode' = "raised"
  /\ UNCHANGED <<paths, goals, trace, safeStop>>

Join(r, p) ==
  LET with(f, x) == [q \in Driven \cup {r} |-> IF q = r THEN x ELSE f[q]] IN
  /\ paths' = with(paths, p)
  /\ goals' = with(goals, Pickup[released])
  /\ trace' = with(trace, StandAt(position[r], clock))

(* unassign() and clear_task() take the commit back.                       *)
UndoCommit(r) ==
  /\ holds' = [holds EXCEPT ![r] = NoTask]
  /\ status' = [status EXCEPT ![r] = "IDLE"]
  /\ UNCHANGED <<paths, goals, trace, taskStatus, assignedTo>>
  /\ safeStop' = TRUE

OfferTo(r) ==
  /\ ~ TableClash({r})
  /\ LET routes == Replans(FutureTable({r}), r, position[r], Pickup[released],
                           clock, blocked) IN
     \/ routes # {} /\ CommitTo(r) /\ (\E p \in routes : Join(r, p)) /\ UNCHANGED safeStop
     \/ routes = {} /\ UndoCommit(r)
  /\ mode' = "rerouting"

RecoverTask ==
  /\ mode = "reassigning"
  /\ \/ NobodyTakesIt
     \/ \E r \in Robots : Cheapest(r, released) /\ (RaiseAfterCommit(r) \/ OfferTo(r))
  /\ released' = NoTask
  /\ UNCHANGED <<scheduleVars, clock, offline, stopped, position, battery,
                 blocked, failing, queue, future, result>>

(* Robots whose route runs through the failed robot's cell.                *)
FailedCell == IF failing \in Driven THEN Here(failing) ELSE position[failing]

CutOff == {r \in Movers : RouteTouchesCell(paths[r], FailedCell, clock)}

RerouteOthers ==
  /\ mode = "rerouting"
  /\ IF CutOff = {} THEN mode' = "running" /\ UNCHANGED <<queue, future>>
     ELSE BeginReplanning(CutOff)
  /\ failing' = NoRobot
  /\ UNCHANGED <<scheduleVars, clock, planVars, worldVars, blocked, released,
                 safeStop, result>>

-----------------------------------------------------------------------------
(* The joint step from clock to clock + 1.                                 *)

From(r) == PositionAt(paths[r], clock)
To(r) == PositionAt(paths[r], clock + 1)

AllDone == \A r \in Movers : position[r] = goals[r]

MayDrive == mode = "running" /\ NothingDue /\ ~ AllDone /\ clock < limit

Feasible(r) ==
  /\ status[r] # "OFFLINE"
  /\ position[r] = From(r)
  /\ To(r) \in Cells \ blocked
  /\ From(r) # To(r) => AdjacentTo(From(r), To(r)) /\ battery[r] >= Drain

StepIsValid ==
  /\ \A r \in Movers : Feasible(r) /\ \A o \in offline : To(r) # position[o]
  /\ \A q, r \in Movers : q # r =>
       To(q) # To(r) /\ ~ (From(q) = To(r) /\ From(r) = To(q))

(* Seeded fault: a failed check is tried again, for ever.                *)
HaltRetries ==
  /\ MayDrive
  /\ ~ StepIsValid
  /\ UNCHANGED vars

Halt ==
  /\ MayDrive
  /\ ~ StepIsValid
  /\ mode' = "halted"
  /\ UNCHANGED <<scheduleVars, clock, planVars, worldVars, blocked,
                 handlingVars, safeStop, result>>

CommitStep ==
  /\ MayDrive
  /\ StepIsValid
  /\ clock' = clock + 1
  /\ LET moving == {r \in Movers : From(r) # To(r)} IN
     /\ position' = [r \in Robots |-> IF r \in moving THEN To(r) ELSE position[r]]
     /\ battery' = [r \in Robots |-> IF r \in moving THEN battery[r] - Drain
                                     ELSE battery[r]]
     /\ status' = [r \in Robots |-> IF r \in moving THEN "MOVING" ELSE status[r]]
  /\ trace' = [r \in Driven |-> IF r \in Movers THEN Extend(trace[r], To(r), clock + 1)
                                ELSE trace[r]]
  /\ UNCHANGED <<scheduleVars, mode, paths, goals, offline, stopped, holds,
                 taskStatus, assignedTo, blocked, handlingVars, safeStop, result>>

-----------------------------------------------------------------------------
(* The verdict.                                                            *)

AllReached == \A r \in LiveRobots : position[r] = goals[r]

AnySafeStop == mode = "halted" \/ stopped # {} \/ safeStop

(* Seeded fault: a clean trace is a success, stopped or not.             *)
FinaliseByTrace ==
  /\ \/ mode = "halted"
     \/ mode = "running" /\ NothingDue /\ (AllDone \/ clock >= limit)
  /\ result' = IF HasProblems(trace, blocked) THEN "failed" ELSE "ok"
  /\ mode' = "done"
  /\ UNCHANGED <<scheduleVars, clock, planVars, worldVars, blocked,
                 handlingVars, safeStop>>

Finalise ==
  /\ \/ mode = "halted"
     \/ mode = "running" /\ NothingDue /\ (AllDone \/ clock >= limit)
  /\ result' = IF AnySafeStop THEN "safe_stop"
               ELSE IF AllReached /\ ~ HasProblems(trace, blocked) THEN "ok"
               ELSE "failed"
  /\ mode' = "done"
  /\ UNCHANGED <<scheduleVars, clock, planVars, worldVars, blocked,
                 handlingVars, safeStop>>

-----------------------------------------------------------------------------
Init ==
  /\ mode = "idle"
  /\ clock = 0
  /\ goals = [r \in {} |-> <<0, 0>>]
  /\ trace = [r \in {} |-> NoRobot]
  /\ offline = {}
  /\ stopped = {}
  /\ failing = NoRobot
  /\ released = NoTask
  /\ queue = {}
  /\ future = EmptyTable
  /\ safeStop = FALSE
  /\ result = "none"

Preflight == NothingToDrive \/ RejectPlan \/ RejectFleet \/ Start

HandleEvent == RecoverObstacle \/ RecoverFailure \/ RecoverTask \/ RerouteOthers \/ Replan

Next == Preflight \/ HandleEvent \/ Halt \/ CommitStep \/ Finalise
=============================================================================
