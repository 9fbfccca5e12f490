------------------------- MODULE ExecutorProperties -------------------------
(***************************************************************************)
(* The executor on its own, handed any plan whatsoever: what it does with  *)
(* a bad plan, with robots that are not where the plan says, and with a    *)
(* floor that changes under it.                                            *)
(***************************************************************************)
EXTENDS CoordinatedExecutor

CONSTANTS
  Routes,   \* the timed paths plans are made of, good and bad
  Fleets    \* the sets of robots a plan may be for

ASSUME PlanAssumption ==
  /\ Fleets \subseteq SUBSET Robots
  /\ \A p \in Routes :
       /\ p.start = 0
       /\ p.arrival \in 0 .. Horizon
       /\ p.at \in [0 .. p.arrival -> Int \X Int]

(* Robots stand on different cells, where the plan wants them or not.      *)
AnyPlan ==
  /\ Init
  /\ \E fleet \in Fleets : paths \in [fleet -> Routes]
  /\ blocked = {}
  /\ position \in [Robots -> Cells]
  /\ \A q, r \in Robots : position[q] = position[r] => q = r

Spec == AnyPlan /\ [][Next]_vars

-----------------------------------------------------------------------------
Modes == {"idle", "running", "committing", "finishing", "done", "raised"}
Results == {"none", "ok", "plan_rejected", "fleet_not_ready", "stopped",
            "trace_rejected"}

(* Every variable of the run and of the robots keeps its type. *)
TypeOK ==
  /\ blocked \in SUBSET Cells
  /\ position \in [Robots -> Cells]
  /\ battery \in [Robots -> Nat]
  /\ status \in [Robots -> Statuses]
  /\ odometer \in [Robots -> Nat]
  /\ mode \in Modes
  /\ clock \in Times
  /\ uncommitted \in SUBSET Driven
  /\ conflicts \in Nat
  /\ result \in Results
  /\ disturbances \in 0 .. MaxDisturbances
  /\ mode \notin {"idle", "done"} =>
       /\ moves \in [Driven -> Nat]
       /\ waits \in [Driven -> Nat]
       /\ before \in [Driven -> [battery : Nat, odometer : Nat]]
       /\ DOMAIN trace = Driven
       /\ \A r \in Driven : IsTimedPath(trace[r])

(* Seen between timesteps, the fleet moves in whole legal joint steps: the *)
(* commit loop is all or nothing (coordinated_executor.py:18-24).          *)
Joint ==
  INSTANCE JointSteps WITH
    stage <- CASE mode = "idle" -> "before"
               [] mode \in {"running", "committing", "finishing"} -> "moving"
               [] OTHER -> "over",
    floor <- blocked,
    position <- [r \in Driven |-> IF mode = "committing" THEN From(r)
                                  ELSE position[r]]

AllOrNothing == Joint!Spec

(* move_to never refuses what phase 1 let through, so no robot is left     *)
(* behind by an exception in the commit loop (coordinated_executor.py:259).*)
NeverRaises == mode # "raised"

(* The pre-flight replay finds every conflict the stepwise check could     *)
(* find: its conflict counters stay at zero (coordinated_executor.py:164). *)
PreflightIsComplete == conflicts = 0

(* A robot that went offline stays where it is (coordinated_executor.py:347). *)
OfflineStandsStill ==
  [][\A r \in Robots : status[r] = "OFFLINE" => position'[r] = position[r]]_vars

(* In the summary, moves, odometer and battery agree for every robot, so   *)
(* the drain was never clamped; moves and waits add up to the timesteps up *)
(* to its arrival (coordinated_executor.py:259-283).                       *)
BooksBalance ==
  mode \in {"running", "finishing"} =>
    \A r \in Driven :
      /\ odometer[r] = before[r].odometer + moves[r]
      /\ battery[r] + Drain * moves[r] = before[r].battery
      /\ moves[r] + waits[r] =
           IF clock <= paths[r].arrival THEN clock ELSE paths[r].arrival

(* A run reported as a success has brought every robot to its goal.        *)
SuccessMeansArrived ==
  mode = "done" /\ result = "ok" => \A r \in Driven : position[r] = Goal(paths[r])

(* Whatever happened, the executed trace holds no conflict and no jump: a  *)
(* trace is rejected for its obstacles only (coordinated_executor.py:293). *)
ExecutedTraceIsClean ==
  mode = "done" /\ result \in {"ok", "stopped", "trace_rejected"}
    => ~ HasProblems(trace, {})

(* What passes pre-flight can be driven: no step of it ever meets a        *)
(* conflict, nor an exception.                                             *)
PreflightSuffices == PreflightIsComplete /\ NeverRaises

(* The result is the truth: the summary adds up, a success has arrived and *)
(* the trace shows what happened.                                          *)
ResultIsHonest ==
  TypeOK /\ BooksBalance /\ SuccessMeansArrived /\ ExecutedTraceIsClean

-----------------------------------------------------------------------------
(* Why it holds: the inductive invariant of the proofs.                    *)

Underway == mode \in {"running", "committing", "finishing"}

PlanTypeOK == Driven \subseteq Robots /\ \A r \in Driven : paths[r] \in Routes

PlanIsSound == Underway => ~ HasProblems(paths, {})

(* Between timesteps every robot is where its path has it.                 *)
OnSchedule ==
  mode \in {"running", "finishing"} => \A r \in Driven : position[r] = From(r)

(* During a commit, what phase 1 found still holds for the robots to come. *)
HalfWay ==
  mode = "committing" =>
    /\ WithinMakespan(paths, clock + 1)
    /\ ~ JointConflict
    /\ uncommitted # {}
    /\ \A r \in Driven :
         /\ IsTraversable(To(r))
         /\ From(r) # To(r) => AdjacentTo(From(r), To(r))
         /\ IF r \in uncommitted
            THEN /\ position[r] = From(r) /\ status[r] # "OFFLINE"
                 /\ From(r) # To(r) => battery[r] >= Drain
            ELSE position[r] = To(r)

(* Timesteps robot r has behind it, the one being committed included.      *)
StepsTaken(r) ==
  IF mode = "committing" /\ r \notin uncommitted THEN clock + 1 ELSE clock

Books ==
  Underway =>
    \A r \in Driven :
      /\ trace[r].start = 0 /\ trace[r].arrival = StepsTaken(r)
      /\ odometer[r] = before[r].odometer + moves[r]
      /\ battery[r] + Drain * moves[r] = before[r].battery
      /\ moves[r] + waits[r] = IF StepsTaken(r) <= paths[r].arrival
                              THEN StepsTaken(r) ELSE paths[r].arrival

(* The trace is the plan, as far as it was driven.                         *)
TraceFollowsPlan ==
  Underway =>
    /\ clock = 0 \/ WithinMakespan(paths, clock)
    /\ \A r \in Driven, t \in Times :
         t <= StepsTaken(r) => trace[r].at[t] = PositionAt(paths[r], t)

TraceInv == TraceFollowsPlan /\ ExecutedTraceIsClean

EInv ==
  /\ TypeOK
  /\ PlanTypeOK
  /\ PlanIsSound
  /\ OnSchedule
  /\ HalfWay
  /\ Books
  /\ NeverRaises
  /\ PreflightIsComplete
  /\ SuccessMeansArrived
=============================================================================
