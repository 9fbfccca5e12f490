------------------------ MODULE SimulatorProperties -------------------------
(***************************************************************************)
(* What the simulator keeps true of robots, tasks and the assignments      *)
(* between them.                                                           *)
(***************************************************************************)
EXTENDS Simulator

(* Every registry and every field keeps its type. *)
TypeOK ==
  /\ FloorTypeOK
  /\ robots \in SUBSET Robots
  /\ position \in [Robots -> Cells]
  /\ status \in [Robots -> RobotStatuses]
  /\ battery \in [Robots -> 0 .. FullBattery]
  /\ holds \in [Robots -> tasks \cup {NoTask}]
  /\ tasks \in SUBSET Tasks
  /\ taskStatus \in [Tasks -> TaskStatuses]
  /\ assignedTo \in [Tasks -> Robots \cup {NoRobot}]
  /\ plan \in SUBSET (Robots \X Tasks)
  /\ toApply \in SUBSET (Robots \X Tasks)
  /\ raised \in BOOLEAN

InWork(t) == taskStatus[t] \in {"ASSIGNED", "IN_PROGRESS"}

(* The two pointers of an assignment never disagree: a task in work is     *)
(* held by exactly the robot it names, that robot is in the fleet, and a   *)
(* robot that holds nothing never looks busy with a task                   *)
(* (simulator.py:130-143, 356-361).                                        *)
PointersAgree ==
  /\ \A t \in Tasks : InWork(t) => /\ assignedTo[t] \in robots
                                   /\ holds[assignedTo[t]] = t
  /\ \A r \in Robots :
       /\ holds[r] # NoTask => r \in robots /\ assignedTo[holds[r]] = r
                                            /\ taskStatus[holds[r]] # "PENDING"
       /\ status[r] = "ASSIGNED" => holds[r] # NoTask
       /\ status[r] = "IDLE" => holds[r] = NoTask
  /\ \A t \in Tasks : taskStatus[t] = "PENDING" => assignedTo[t] = NoRobot

(* Two robots never stand on one cell, broken ones included                *)
(* (simulator.py:12, 147-163).                                             *)
OneCellEach ==
  \A q, r \in robots : q # r => position[q] # position[r]

(* A commit whose dry run passed is never left half way by an exception,   *)
(* however much the world changed since the plan was made                  *)
(* (commit.py:10-18, 99).                                                  *)
CommitsAreWhole == ~ raised

(* Assignments are made, taken back and committed as wholes.               *)
AssignmentsAreWhole == PointersAgree /\ CommitsAreWhole

-----------------------------------------------------------------------------
(* Why it holds: the inductive invariant of the proofs.                    *)

(* During a commit, what the dry run found still holds for the rest.       *)
RestCanBeApplied ==
  /\ IsMatching(plan)
  /\ IsMatching(toApply)
  /\ \A a \in toApply : MayAssign(a[1], a[2])

SInv == TypeOK /\ PointersAgree /\ RestCanBeApplied /\ CommitsAreWhole
=============================================================================
