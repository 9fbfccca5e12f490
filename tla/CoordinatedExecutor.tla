------------------------ MODULE CoordinatedExecutor -------------------------
(***************************************************************************)
(* Driving a fleet along its timed paths on a shared clock                 *)
(* (robotics/coordination/coordinated_executor.py): pre-flight, then at    *)
(* every timestep first validate the whole joint move and only then commit *)
(* it, one Robot.move_to after the other.                                  *)
(*                                                                         *)
(* The world changes under the executor: between planning and execution a  *)
(* robot is moved, removed or taken offline and obstacles are dropped;     *)
(* between two timesteps obstacles and failures still come.  The commit    *)
(* loop is a loop over dict entries of one call: nothing comes in between. *)
(***************************************************************************)
EXTENDS ConflictCheck

CONSTANTS
  Drain,           \* battery_drain_per_move
  Charges,         \* the battery levels robots start with
  MaxDisturbances  \* bound on the changes of the world around one run

ASSUME ExecutorAssumption ==
  Drain \in Nat /\ Charges \subseteq Nat /\ MaxDisturbances \in Nat

VARIABLES
  paths,         \* CoordinationResult.successful_paths
  blocked,       \* cells under an obstacle, now
  position, battery, status, odometer,   \* the robots of the simulator
  mode,          \* "idle", "running", "committing", "finishing", "done", "raised"
  clock,         \* executed_timesteps
  uncommitted,   \* robots the commit loop has still to reach
  trace,         \* the executed steps, as timed paths
  moves, waits,  \* move_counts and wait_counts
  before,        \* battery_before and odometer_before
  conflicts,     \* vertex_conflicts + edge_conflicts
  result,        \* how the call ended
  disturbances   \* changes of the world so far

robotVars == <<position, battery, status, odometer>>
runVars == <<clock, uncommitted, trace, moves, waits, before, conflicts>>
vars == <<paths, blocked, robotVars, mode, runVars, result, disturbances>>

Driven == DOMAIN paths
Statuses == {"IDLE", "MOVING", "OFFLINE", "GONE"}

-----------------------------------------------------------------------------
(* Pre-flight.                                                             *)

NotReady(r) ==
  \/ status[r] \in {"GONE", "OFFLINE"}
  \/ position[r] # paths[r].at[paths[r].start]

Refuse(reason) ==
  /\ mode' = "done"
  /\ result' = reason
  /\ UNCHANGED <<paths, blocked, robotVars, runVars, disturbances>>

RejectPlan ==
  /\ mode = "idle"
  /\ HasProblems(paths, {})
  /\ Refuse("plan_rejected")

RejectFleet ==
  /\ mode = "idle"
  /\ ~ HasProblems(paths, {})
  /\ \E r \in Driven : NotReady(r)
  /\ Refuse("fleet_not_ready")

Start ==
  /\ mode = "idle"
  /\ ~ HasProblems(paths, {})
  /\ \A r \in Driven : ~ NotReady(r)
  /\ mode' = IF Driven = {} THEN "done" ELSE "running"
  /\ result' = IF Driven = {} THEN "ok" ELSE "none"
  /\ clock' = 0
  /\ before' = [r \in Driven |-> [battery |-> battery[r], odometer |-> odometer[r]]]
  /\ trace' = [r \in Driven |-> [start |-> 0, arrival |-> 0,
                                 at |-> [t \in {0} |-> position[r]]]]
  /\ moves' = [r \in Driven |-> 0]
  /\ waits' = [r \in Driven |-> 0]
  /\ UNCHANGED <<paths, blocked, robotVars, uncommitted, conflicts, disturbances>>

-----------------------------------------------------------------------------
(* Phase 1: the joint move from clock to clock + 1.                        *)

From(r) == PositionAt(paths[r], clock)
To(r) == PositionAt(paths[r], clock + 1)

IsTraversable(c) == c \in Cells \ blocked

(* Seeded fault: an obstacle on the next cell goes unseen.               *)
FeasibleBlindly(r) ==
  /\ status[r] # "OFFLINE"
  /\ position[r] = From(r)
  /\ From(r) # To(r) => AdjacentTo(From(r), To(r)) /\ battery[r] >= Drain

Feasible(r) ==
  /\ status[r] # "OFFLINE"
  /\ position[r] = From(r)
  /\ IsTraversable(To(r))
  /\ From(r) # To(r) => AdjacentTo(From(r), To(r)) /\ battery[r] >= Drain

JointConflict ==
  \E q, r \in Driven :
    /\ q # r
    /\ \/ To(q) = To(r)
       \/ From(q) = To(r) /\ From(r) = To(q)

ValidateStep ==
  /\ mode = "running"
  /\ WithinMakespan(paths, clock + 1)
  /\ IF \E r \in Driven : ~ Feasible(r)
     THEN mode' = "finishing" /\ UNCHANGED <<uncommitted, conflicts>>
     ELSE IF JointConflict
     THEN mode' = "finishing" /\ conflicts' = conflicts + 1 /\ UNCHANGED uncommitted
     ELSE mode' = "committing" /\ uncommitted' = Driven /\ UNCHANGED conflicts
  /\ result' = IF mode' = "finishing" THEN "stopped" ELSE result
  /\ UNCHANGED <<paths, blocked, robotVars, clock, trace, moves, waits, before,
                 disturbances>>

-----------------------------------------------------------------------------
(* Phase 2: commit, robot by robot.                                        *)

(* Robot.move_to accepts one step to an adjacent cell the battery can pay. *)
CanMoveTo(r, c) == AdjacentTo(position[r], c) /\ battery[r] >= Drain

(* _drain_battery clamps at zero.                                          *)
MoveTo(r, c) ==
  /\ position' = [position EXCEPT ![r] = c]
  /\ odometer' = [odometer EXCEPT ![r] = @ + 1]
  /\ battery' = [battery EXCEPT ![r] = IF @ >= Drain THEN @ - Drain ELSE 0]
  /\ status' = [status EXCEPT ![r] = "MOVING"]

Record(r) ==
  trace' = [trace EXCEPT ![r] =
              [start |-> 0, arrival |-> clock + 1,
               at |-> [t \in 0 .. clock + 1 |->
                         IF t = clock + 1 THEN To(r) ELSE trace[r].at[t]]]]

EndOfLoopBody(r) ==
  /\ uncommitted' = uncommitted \ {r}
  /\ IF uncommitted' = {}
     THEN mode' = "running" /\ clock' = clock + 1
     ELSE UNCHANGED <<mode, clock>>

(* A WAIT counts until the robot has arrived, then it is just parked.      *)
CommitWait(r) ==
  /\ From(r) = To(r)
  /\ waits' = [waits EXCEPT ![r] = IF clock + 1 <= paths[r].arrival THEN @ + 1 ELSE @]
  /\ Record(r)
  /\ EndOfLoopBody(r)
  /\ UNCHANGED <<robotVars, moves, result>>

(* InvalidMoveError in the middle of the loop leaves the fleet half moved. *)
CommitMove(r) ==
  /\ From(r) # To(r)
  /\ IF CanMoveTo(r, To(r))
     THEN /\ MoveTo(r, To(r))
          /\ moves' = [moves EXCEPT ![r] = @ + 1]
          /\ Record(r)
          /\ EndOfLoopBody(r)
     ELSE /\ mode' = "raised"
          /\ UNCHANGED <<robotVars, clock, uncommitted, trace, moves>>
  /\ UNCHANGED <<waits, result>>

(* The loop follows sorted ids; ids have no meaning here, so any order.    *)
Commit ==
  /\ mode = "committing"
  /\ \E r \in uncommitted : CommitWait(r) \/ CommitMove(r)
  /\ UNCHANGED <<paths, blocked, before, conflicts, disturbances>>

-----------------------------------------------------------------------------
(* The summary and the check of the trace against the warehouse as it is.  *)

(* Seeded fault: a clean trace is a success, stopped or not.             *)
FinishForgetsStop ==
  /\ \/ mode = "finishing"
     \/ mode = "running" /\ ~ WithinMakespan(paths, clock + 1)
  /\ result' = IF HasProblems(trace, blocked) THEN "trace_rejected" ELSE "ok"
  /\ mode' = "done"
  /\ UNCHANGED <<paths, blocked, robotVars, runVars, disturbances>>

Finish ==
  /\ \/ mode = "finishing"
     \/ mode = "running" /\ ~ WithinMakespan(paths, clock + 1)
  /\ result' = IF mode = "finishing" THEN "stopped"
               ELSE IF HasProblems(trace, blocked) THEN "trace_rejected" ELSE "ok"
  /\ mode' = "done"
  /\ UNCHANGED <<paths, blocked, robotVars, runVars, disturbances>>

-----------------------------------------------------------------------------
(* The world around the run.                                               *)

Disturbance ==
  /\ disturbances < MaxDisturbances
  /\ disturbances' = disturbances + 1
  /\ UNCHANGED <<paths, mode, runVars, result>>

(* Warehouse.add_dynamic_obstacle; it does not look for robots.            *)
DropObstacle ==
  /\ mode \in {"idle", "running"}
  /\ \E c \in Cells \ blocked : blocked' = blocked \cup {c}
  /\ Disturbance
  /\ UNCHANGED robotVars

TakeOffline ==
  /\ mode \in {"idle", "running"}
  /\ \E r \in Robots : /\ status[r] \in {"IDLE", "MOVING"}
                       /\ status' = [status EXCEPT ![r] = "OFFLINE"]
  /\ Disturbance
  /\ UNCHANGED <<blocked, position, battery, odometer>>

(* WarehouseSimulator.remove_robot.                                        *)
RemoveRobot ==
  /\ mode = "idle"
  /\ \E r \in Robots : /\ status[r] # "GONE"
                       /\ status' = [status EXCEPT ![r] = "GONE"]
  /\ Disturbance
  /\ UNCHANGED <<blocked, position, battery, odometer>>

(* WarehouseSimulator.move_robot: checked against obstacles and robots.    *)
MoveRobot ==
  /\ mode = "idle"
  /\ \E r \in Robots, c \in Cells \ blocked :
       /\ status[r] \in {"IDLE", "MOVING"}
       /\ \A q \in Robots : status[q] # "GONE" => position[q] # c
       /\ CanMoveTo(r, c)
       /\ MoveTo(r, c)
  /\ Disturbance
  /\ UNCHANGED blocked

-----------------------------------------------------------------------------
Init ==
  /\ mode = "idle"
  /\ status = [r \in Robots |-> "IDLE"]
  /\ battery \in [Robots -> Charges]
  /\ odometer = [r \in Robots |-> 0]
  /\ clock = 0
  /\ uncommitted = {}
  /\ trace = [r \in {} |-> {}]
  /\ moves = [r \in {} |-> 0]
  /\ waits = [r \in {} |-> 0]
  /\ before = [r \in {} |-> {}]
  /\ conflicts = 0
  /\ result = "none"
  /\ disturbances = 0

Execute == RejectPlan \/ RejectFleet \/ Start \/ ValidateStep \/ Commit \/ Finish

Disturb == DropObstacle \/ TakeOffline \/ RemoveRobot \/ MoveRobot

Next == Execute \/ Disturb
=============================================================================
