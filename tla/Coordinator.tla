---------------------------- MODULE Coordinator -----------------------------
(***************************************************************************)
(* Prioritized planning of a fleet (robotics/coordination/coordinator.py): *)
(* robots are planned one at a time in priority order around the           *)
(* reservations of the robots planned before them.  A robot that gets a    *)
(* route reserves it through the horizon; a robot that gets none reserves  *)
(* nothing, and planning goes on.                                          *)
(***************************************************************************)
EXTENDS SpaceTimePlanner, Sequences

CONSTANTS
  Layouts,        \* the sets of cells obstacles may cover
  GoalPositions,  \* goals a caller may ask for, some outside the grid
  Orders          \* priority orders a caller may pass, some malformed

ASSUME RequestAssumption ==
  /\ Layouts \subseteq SUBSET Cells
  /\ GoalPositions \subseteq Int \X Int
  /\ Orders \subseteq Seq(Robots) \ {<<>>}

VARIABLES
  stage,    \* "validate", "planning", "planned", "refused" or "raised"
  starts,   \* the request: where every robot stands,
  goals,    \*   where it must go,
  order,    \*   and the priority order
  turn,     \* index in order of the robot being planned
  paths,    \* the successful timed paths, by robot
  failed    \* robots for which no route was found

requestVars == <<starts, goals, order>>
vars == <<plannerVars, stage, requestVars, turn, paths, failed>>

Planned == DOMAIN paths

-----------------------------------------------------------------------------
(* _validate_request: distinct start cells and a permutation of the ids.   *)

IsPermutation(s) ==
  /\ {s[i] : i \in DOMAIN s} = Robots
  /\ \A i, j \in DOMAIN s : s[i] = s[j] => i = j

ValidRequest ==
  /\ \A q, r \in Robots : starts[q] = starts[r] => q = r
  /\ IsPermutation(order)

Refuse ==
  /\ stage = "validate"
  /\ ~ ValidRequest
  /\ stage' = "refused"
  /\ UNCHANGED <<plannerVars, requestVars, turn, paths, failed>>

(* Seeded fault: start and goal are swapped.                             *)
CallPlannerSwapped(r) == Call(r, goals[r], starts[r], 0)

CallPlannerFor(r) == Call(r, starts[r], goals[r], 0)

Begin ==
  /\ stage = "validate"
  /\ ValidRequest
  /\ stage' = "planning"
  /\ CallPlannerFor(order[1])
  /\ UNCHANGED <<blocked, table, requestVars, turn, paths, failed>>

-----------------------------------------------------------------------------
(* The planning loop.                                                      *)

Plan ==
  /\ stage = "planning"
  /\ PlannerStep
  /\ UNCHANGED <<stage, requestVars, turn, paths, failed>>

(* The end of one iteration: the next robot's turn, or the summary.        *)
Advance ==
  IF turn < Len(order)
  THEN /\ turn' = turn + 1
       /\ CallPlannerFor(order[turn + 1])
       /\ UNCHANGED stage
  ELSE /\ stage' = "planned"
       /\ UNCHANGED <<turn, request, phase, searchVars, outcome>>

(* reserve_timed_path raises ValueError on a clash, and plan() lets it     *)
(* through: that would be a planner bug.                                   *)
Reserve ==
  /\ stage = "planning"
  /\ phase = "done"
  /\ outcome = "found"
  /\ IF Clashes(table, request.robot, chain)
     THEN /\ stage' = "raised"
          /\ UNCHANGED <<table, paths, turn, request, phase, searchVars, outcome>>
     ELSE /\ table' = ReserveTimedPath(table, request.robot, chain)
          /\ paths' = [r \in Planned \cup {request.robot} |->
                         IF r = request.robot THEN chain ELSE paths[r]]
          /\ Advance
  /\ UNCHANGED <<blocked, requestVars, failed>>

(* Seeded fault: a failure throws the other routes away.                 *)
FailureForgetsRoutes ==
  /\ stage = "planning"
  /\ phase = "done"
  /\ outcome # "found"
  /\ failed' = failed \cup {request.robot}
  /\ paths' = [r \in {} |-> NoChain]
  /\ Advance
  /\ UNCHANGED <<blocked, table, requestVars>>

RecordFailure ==
  /\ stage = "planning"
  /\ phase = "done"
  /\ outcome # "found"
  /\ failed' = failed \cup {request.robot}
  /\ Advance
  /\ UNCHANGED <<blocked, table, requestVars, paths>>

Init ==
  /\ blocked \in Layouts
  /\ starts \in [Robots -> Cells]
  /\ goals \in [Robots -> GoalPositions]
  /\ order \in Orders
  /\ stage = "validate"
  /\ turn = 1
  /\ paths = [r \in {} |-> NoChain]
  /\ failed = {}
  /\ table = EmptyTable
  /\ request = [robot |-> order[1], start |-> starts[order[1]],
                goal |-> goals[order[1]], time |-> 0]
  /\ phase = "idle"
  /\ outcome = "none"
  /\ frontier = {}
  /\ tickets = 0
  /\ cameFrom = [s \in {} |-> s]
  /\ chain = NoChain

CoordinatorNext == Refuse \/ Begin \/ Plan \/ Reserve \/ RecordFailure

Spec == Init /\ [][CoordinatorNext]_vars
=============================================================================
