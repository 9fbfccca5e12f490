------------------------------ MODULE FleetRun ------------------------------
(***************************************************************************)
(* Planning a fleet and driving it, over the same floor and the same       *)
(* robots: MultiRobotCoordinator.plan is given the cells the robots of the *)
(* simulator stand on, and its successful paths go to                      *)
(* CoordinatedExecutor.execute.  Robots it found no path for stay where    *)
(* they are.                                                               *)
(***************************************************************************)
EXTENDS CoordinatorProperties

CONSTANTS Drain, Charges, MaxDisturbances

ASSUME FleetAssumption ==
  Drain \in Nat /\ Charges \subseteq Nat /\ MaxDisturbances \in Nat

VARIABLES position, battery, status, odometer, mode, clock, uncommitted, trace,
          moves, waits, before, conflicts, result, disturbances

Drive == INSTANCE CoordinatedExecutor

fleetVars == <<position, battery, status, odometer, mode, clock, uncommitted,
               trace, moves, waits, before, conflicts, result, disturbances>>

Parked == Robots \ Planned

(* Robots of one simulator stand on different walkable cells.              *)
FleetInit ==
  /\ Init
  /\ Drive!Init
  /\ position = starts
  /\ \A r \in Robots : starts[r] \notin blocked
  /\ \A q, r \in Robots : starts[q] = starts[r] => q = r

PlanFleet == CoordinatorNext /\ UNCHANGED fleetVars

(* Execution begins with the result of a plan; planning does not go on.    *)
DriveFleet ==
  /\ stage = "planned"
  /\ Drive!Next
  /\ UNCHANGED <<stage, table, request, phase, searchVars, outcome, starts,
                 goals, order, turn, failed>>

FleetNext == PlanFleet \/ DriveFleet

FleetSpec == FleetInit /\ [][FleetNext]_<<vars, fleetVars>>

(* Planning and execution are calls that run to their end.                 *)
FairFleetSpec ==
  FleetSpec /\ WF_<<vars, fleetVars>>(PlanFleet)
            /\ WF_<<vars, fleetVars>>(DriveFleet /\ Drive!Execute)

-----------------------------------------------------------------------------
(* If nothing in the world changes and the batteries last, the run         *)
(* succeeds and every planned robot is at its goal when it ends            *)
(* (coordinated_executor.py:152-154, 287).                                 *)
UndisturbedRunsArrive ==
  mode = "done" /\ disturbances = 0 =>
    \/ result = "ok" /\ \A r \in Planned : position[r] = goals[r]
    \/ \E r \in Planned : battery[r] < Drain

(* Every request that is accepted ends with the fleet driven or the run    *)
(* called off (coordinator.py:118, coordinated_executor.py:147).           *)
EveryRunEnds == (stage = "validate" /\ ValidRequest) ~> mode = "done"

-----------------------------------------------------------------------------
(* Why undisturbed runs arrive: until execution begins the fleet stands    *)
(* where the request found it, nobody drops out, and only an empty battery *)
(* ends a run early.                                                       *)
AtRest ==
  mode = "idle" =>
    /\ position = starts
    /\ battery \in [Robots -> Nat]
    /\ status = [r \in Robots |-> "IDLE"]
    /\ odometer = [r \in Robots |-> 0]
    /\ clock = 0 /\ uncommitted = {} /\ conflicts = 0 /\ result = "none"

NobodyDropsOut ==
  /\ stage # "planned" => mode = "idle"
  /\ \A r \in Robots : status[r] \notin {"OFFLINE", "GONE"}

OnlyBatteriesStop ==
  mode = "finishing" \/ (mode = "done" /\ result # "ok") =>
    \E r \in Planned : battery[r] < Drain

QuietInv ==
  disturbances = 0 => IInv /\ AtRest /\ NobodyDropsOut /\ OnlyBatteriesStop
=============================================================================
