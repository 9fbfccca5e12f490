--------------------------- MODULE ExecutorProofs ---------------------------
(***************************************************************************)
(* Proofs about the coordinated executor, for every grid, fleet, plan,     *)
(* battery and number of disturbances: EInv is an inductive invariant, and *)
(* with it the run implements the abstract joint steps.                    *)
(***************************************************************************)
EXTENDS ExecutorProperties, TLAPS

-----------------------------------------------------------------------------
(* Paths of a plan that passed the pre-flight check.                       *)

LEMMA SoundPaths ==
  ASSUME PlanTypeOK, ~ HasProblems(paths, {}), NEW r \in Driven
  PROVE  /\ IsTimedPath(paths[r]) /\ paths[r].start = 0
         /\ paths[r].arrival \in Nat /\ paths[r].arrival <= Horizon
         /\ paths[r].at \in [0 .. paths[r].arrival -> Cells]
<1> DEFINE p == paths[r]
<1>1. p \in Routes
  BY DEF PlanTypeOK
<1>2. /\ p.start = 0 /\ p.arrival \in 0 .. Horizon
      /\ p.at \in [0 .. p.arrival -> Int \X Int]
  BY <1>1, PlanAssumption
<1>3. \A t \in 0 .. p.arrival : p.at[t] \in Cells
  <2>1. ~ PathProblem(p, {})
    BY DEF HasProblems, Driven
  <2>. QED  BY <1>2, <2>1 DEF PathProblem
<1>4. p.at \in [0 .. p.arrival -> Cells]
  BY <1>2, <1>3
<1>. QED  BY <1>2, <1>4, HorizonAssumption DEF IsTimedPath, Times

LEMMA OnThePath ==
  ASSUME NEW p, p.start = 0, p.arrival \in Nat,
         p.at \in [0 .. p.arrival -> Cells], NEW t \in Nat
  PROVE  /\ PositionAt(p, t) \in Cells
         /\ t <= p.arrival => PositionAt(p, t) = p.at[t]
         /\ t >= p.arrival => PositionAt(p, t) = Goal(p)
BY DEF PositionAt, Goal

LEMMA StepsStayOnTheFloor ==
  ASSUME PlanTypeOK, ~ HasProblems(paths, {}), clock \in Nat, NEW r \in Driven
  PROVE  /\ From(r) \in Cells /\ To(r) \in Cells
         /\ From(r) # To(r) => clock + 1 <= paths[r].arrival
<1>1. /\ paths[r].start = 0 /\ paths[r].arrival \in Nat
      /\ paths[r].at \in [0 .. paths[r].arrival -> Cells]
  BY SoundPaths
<1>2. /\ PositionAt(paths[r], clock) \in Cells
      /\ PositionAt(paths[r], clock + 1) \in Cells
  BY <1>1, OnThePath
<1>3. clock >= paths[r].arrival =>
        PositionAt(paths[r], clock) = PositionAt(paths[r], clock + 1)
  BY <1>1, OnThePath
<1>. QED  BY <1>1, <1>2, <1>3 DEF From, To

(* A step the replay would not find at fault needs no stepwise check.      *)
LEMMA NoJointConflict ==
  ASSUME PlanTypeOK, ~ HasProblems(paths, {}), clock \in Nat,
         WithinMakespan(paths, clock + 1)
  PROVE  ~ JointConflict
<1>1. clock \in ReplayTimes(paths) /\ clock + 1 \in ReplayTimes(paths)
  <2>1. PICK o \in Driven : clock + 1 <= paths[o].arrival
    BY DEF WithinMakespan, Driven
  <2>2. /\ paths[o].start = 0 /\ paths[o].arrival \in Nat
        /\ paths[o].arrival <= Horizon
    BY SoundPaths
  <2>. QED
    BY <2>1, <2>2, HorizonAssumption DEF ReplayTimes, WithinMakespan, Times, Driven
<1> SUFFICES ASSUME NEW q \in Driven, NEW r \in Driven, q # r,
                    \/ To(q) = To(r)
                    \/ From(q) = To(r) /\ From(r) = To(q)
             PROVE  FALSE
  BY DEF JointConflict
<1>2. ~ VertexConflict(paths) /\ ~ EdgeConflict(paths)
  BY DEF HasProblems
<1>3. CASE To(q) = To(r)
  BY <1>1, <1>2, <1>3 DEF VertexConflict, To, Driven
<1>4. CASE From(q) = To(r) /\ From(r) = To(q) /\ From(q) = To(q)
  BY <1>1, <1>2, <1>4 DEF VertexConflict, From, Driven
<1>5. CASE From(q) = To(r) /\ From(r) = To(q) /\ From(q) # To(q)
  BY <1>1, <1>2, <1>5 DEF EdgeConflict, From, To, Driven
<1>. QED  BY <1>3, <1>4, <1>5

-----------------------------------------------------------------------------
(* The first state, and the ends of a run.                                 *)

LEMMA InitEInv == AnyPlan => EInv
<1> SUFFICES ASSUME AnyPlan PROVE EInv
  OBVIOUS
<1>1. PlanTypeOK
  <2>1. PICK fleet \in Fleets : paths \in [fleet -> Routes]
    BY DEF AnyPlan
  <2>. QED  BY <2>1, PlanAssumption DEF PlanTypeOK, Driven
<1>2. TypeOK
  <2>1. battery \in [Robots -> Nat]
    BY ExecutorAssumption DEF AnyPlan, Init
  <2>2. /\ blocked \in SUBSET Cells /\ position \in [Robots -> Cells]
        /\ status \in [Robots -> Statuses] /\ odometer \in [Robots -> Nat]
        /\ mode = "idle" /\ clock \in Times /\ uncommitted \in SUBSET Driven
        /\ conflicts \in Nat /\ result \in Results
    BY HorizonAssumption DEF AnyPlan, Init, Statuses, Results, Times
  <2>3. disturbances \in 0 .. MaxDisturbances
    BY ExecutorAssumption DEF AnyPlan, Init
  <2>. QED  BY <2>1, <2>2, <2>3 DEF TypeOK, Modes
<1>. QED
  BY <1>1, <1>2 DEF AnyPlan, Init, EInv, PlanIsSound, OnSchedule, HalfWay, Books,
     Underway, NeverRaises, PreflightIsComplete, SuccessMeansArrived

LEMMA RefusalKeepsEInv == EInv /\ (RejectPlan \/ RejectFleet) => EInv'
<1> SUFFICES ASSUME EInv, RejectPlan \/ RejectFleet PROVE EInv'
  OBVIOUS
<1>1. /\ mode' = "done" /\ result' \in {"plan_rejected", "fleet_not_ready"}
      /\ UNCHANGED <<paths, blocked, position, battery, status, odometer, clock,
                     uncommitted, conflicts, disturbances>>
  BY DEF RejectPlan, RejectFleet, Refuse, robotVars, runVars
<1>2. TypeOK'
  BY <1>1 DEF EInv, TypeOK, Modes, Results, Driven
<1>. QED
  BY <1>1, <1>2 DEF EInv, PlanTypeOK, PlanIsSound, OnSchedule, HalfWay, Books,
     Underway, NeverRaises, PreflightIsComplete, SuccessMeansArrived, Driven

LEMMA StartKeepsEInv == EInv /\ Start => EInv'
<1> SUFFICES ASSUME EInv, Start PROVE EInv'
  OBVIOUS
<1>1. /\ mode' = (IF Driven = {} THEN "done" ELSE "running")
      /\ result' = (IF Driven = {} THEN "ok" ELSE "none")
      /\ clock' = 0
      /\ before' = [r \in Driven |-> [battery |-> battery[r], odometer |-> odometer[r]]]
      /\ trace' = [r \in Driven |-> [start |-> 0, arrival |-> 0,
                                     at |-> [t \in {0} |-> position[r]]]]
      /\ moves' = [r \in Driven |-> 0] /\ waits' = [r \in Driven |-> 0]
      /\ UNCHANGED <<paths, blocked, position, battery, status, odometer,
                     uncommitted, conflicts, disturbances>>
      /\ Driven' = Driven /\ ~ HasProblems(paths, {})
  BY DEF Start, robotVars, Driven
<1>2. PlanTypeOK /\ Driven \subseteq Robots
  BY DEF EInv, PlanTypeOK
<1>3. \A r \in Driven : position[r] = paths[r].at[0]
  <2>1. ASSUME NEW r \in Driven PROVE position[r] = paths[r].at[0]
    BY SoundPaths, <1>1, <1>2 DEF Start, NotReady
  <2>. QED  BY <2>1
<1>4. \A r \in Driven : IsTimedPath(trace'[r])
  <2>1. ASSUME NEW r \in Driven PROVE IsTimedPath(trace'[r])
    <3>1. /\ trace'[r].start = 0 /\ trace'[r].arrival = 0
          /\ trace'[r].at = [t \in {0} |-> position[r]]
      BY <1>1
    <3>2. position[r] \in Cells
      BY <1>2 DEF EInv, TypeOK
    <3>3. 0 .. 0 = {0} /\ 0 \in Times /\ 0 \in 0 .. Horizon
      BY HorizonAssumption DEF Times
    <3>. QED  BY <3>1, <3>2, <3>3 DEF IsTimedPath
  <2>. QED  BY <2>1
<1>5. before' \in [Driven -> [battery : Nat, odometer : Nat]]
  BY <1>1, <1>2 DEF EInv, TypeOK
<1>6. TypeOK'
  <2>1. /\ blocked' \in SUBSET Cells /\ position' \in [Robots -> Cells]
        /\ battery' \in [Robots -> Nat] /\ status' \in [Robots -> Statuses]
        /\ odometer' \in [Robots -> Nat] /\ uncommitted' \in SUBSET Driven
        /\ conflicts' \in Nat /\ disturbances' \in 0 .. MaxDisturbances
    BY <1>1 DEF EInv, TypeOK
  <2>2. mode' \in Modes /\ result' \in Results /\ clock' \in Times
    BY <1>1, HorizonAssumption DEF Modes, Results, Times
  <2>3. /\ moves' \in [Driven -> Nat] /\ waits' \in [Driven -> Nat]
        /\ DOMAIN trace' = Driven
    BY <1>1
  <2>. QED  BY <1>1, <1>4, <1>5, <2>1, <2>2, <2>3 DEF TypeOK
<1>7. OnSchedule'
  <2>1. ASSUME NEW r \in Driven PROVE position[r] = PositionAt(paths[r], 0)
    <3>1. /\ paths[r].start = 0 /\ paths[r].arrival \in Nat
          /\ paths[r].at \in [0 .. paths[r].arrival -> Cells]
      BY <1>1, <1>2, SoundPaths
    <3>2. PositionAt(paths[r], 0) = paths[r].at[0]
      BY <3>1, OnThePath
    <3>. QED  BY <1>3, <3>2
  <2>. QED  BY <1>1, <2>1 DEF OnSchedule, From
<1>8. Books'
  <2>1. ASSUME NEW r \in Driven
        PROVE  /\ battery[r] \in Nat /\ odometer[r] \in Nat
               /\ paths[r].arrival \in Nat
    BY <1>1, <1>2, SoundPaths DEF EInv, TypeOK
  <2>2. mode' # "committing"
    BY <1>1
  <2>3. ASSUME NEW r \in Driven PROVE StepsTaken(r)' = 0
    BY <1>1, <2>2 DEF StepsTaken
  <2>4. Drain * 0 = 0
    BY ExecutorAssumption
  <2>. QED  BY <1>1, <2>1, <2>3, <2>4 DEF Books
<1>. QED
  BY <1>1, <1>2, <1>6, <1>7, <1>8 DEF EInv, PlanTypeOK, PlanIsSound, HalfWay,
     NeverRaises, PreflightIsComplete, SuccessMeansArrived

LEMMA ValidateKeepsEInv == EInv /\ ValidateStep => EInv'
<1> SUFFICES ASSUME EInv, ValidateStep PROVE EInv'
  OBVIOUS
<1>1. /\ mode = "running" /\ WithinMakespan(paths, clock + 1)
      /\ UNCHANGED <<paths, blocked, position, battery, status, odometer, clock,
                     trace, moves, waits, before, disturbances>>
      /\ Driven' = Driven
  BY DEF ValidateStep, robotVars, Driven
<1>2. ~ HasProblems(paths, {}) /\ PlanTypeOK /\ clock \in Nat /\ TypeOK
  BY <1>1, HorizonAssumption DEF EInv, PlanIsSound, Underway, TypeOK, Times
<1>3. ~ JointConflict
  BY <1>1, <1>2, NoJointConflict
<1>4. CASE \E r \in Driven : ~ Feasible(r)
  <2>1. mode' = "finishing" /\ result' = "stopped" /\ UNCHANGED <<uncommitted, conflicts>>
    BY <1>4 DEF ValidateStep
  <2>2. TypeOK'
    BY <1>1, <2>1 DEF EInv, TypeOK, Modes, Results
  <2>3. OnSchedule' /\ PlanTypeOK' /\ PlanIsSound' /\ HalfWay'
    BY <1>1, <1>2, <2>1
       DEF EInv, OnSchedule, From, PlanTypeOK, PlanIsSound, HalfWay
  <2>4. Books'
    BY <1>1, <2>1 DEF EInv, Books, StepsTaken, Underway
  <2>. QED
    BY <1>1, <2>1, <2>2, <2>3, <2>4
       DEF EInv, NeverRaises, PreflightIsComplete, SuccessMeansArrived
<1>5. CASE \A r \in Driven : Feasible(r)
  <2>1. /\ mode' = "committing" /\ uncommitted' = Driven
        /\ UNCHANGED <<conflicts, result>>
    BY <1>3, <1>5 DEF ValidateStep
  <2>2. TypeOK'
    BY <1>1, <2>1 DEF EInv, TypeOK, Modes, Results
  <2>3. OnSchedule' /\ PlanTypeOK' /\ PlanIsSound'
    BY <1>1, <1>2, <2>1 DEF EInv, OnSchedule, PlanTypeOK, PlanIsSound
  <2>4. Books'
    BY <1>1, <2>1 DEF EInv, Books, StepsTaken, Underway
  <2>5. Driven # {}
    BY <1>1 DEF WithinMakespan, Driven
  <2>6. JointConflict' = JointConflict
    BY <1>1 DEF JointConflict, From, To
  <2>7. HalfWay'
    BY <1>1, <1>3, <1>5, <2>1, <2>5, <2>6
       DEF HalfWay, Feasible, IsTraversable, From, To, WithinMakespan
  <2>. QED
    BY <1>1, <2>1, <2>2, <2>3, <2>4, <2>7
       DEF EInv, NeverRaises, PreflightIsComplete, SuccessMeansArrived
<1>. QED  BY <1>4, <1>5

LEMMA FinishKeepsEInv == EInv /\ Finish => EInv'
<1> SUFFICES ASSUME EInv, Finish PROVE EInv'
  OBVIOUS
<1>1. /\ mode' = "done" /\ result' \in {"stopped", "trace_rejected", "ok"}
      /\ UNCHANGED <<paths, blocked, position, battery, status, odometer, clock,
                     uncommitted, conflicts, disturbances>>
      /\ Driven' = Driven
  BY DEF Finish, robotVars, runVars, Driven
<1>2. TypeOK'
  BY <1>1 DEF EInv, TypeOK, Modes, Results
<1>3. ASSUME result' = "ok", NEW r \in Driven PROVE position[r] = Goal(paths[r])
  <2>1. mode = "running" /\ ~ WithinMakespan(paths, clock + 1)
    BY <1>3 DEF Finish
  <2>2. ~ HasProblems(paths, {}) /\ PlanTypeOK /\ clock \in Nat
        /\ position[r] = From(r)
    BY <2>1, HorizonAssumption
       DEF EInv, PlanIsSound, Underway, TypeOK, Times, OnSchedule
  <2>3. /\ paths[r].start = 0 /\ paths[r].arrival \in Nat
        /\ paths[r].at \in [0 .. paths[r].arrival -> Cells]
    BY <2>2, SoundPaths
  <2>4. clock >= paths[r].arrival
    BY <2>1, <2>2, <2>3 DEF WithinMakespan, Driven
  <2>. QED  BY <2>2, <2>3, <2>4, OnThePath DEF From
<1>4. SuccessMeansArrived'
  BY <1>1, <1>3 DEF SuccessMeansArrived
<1>. QED
  BY <1>1, <1>2, <1>4 DEF EInv, PlanTypeOK, PlanIsSound, OnSchedule, HalfWay,
     Books, Underway, NeverRaises, PreflightIsComplete

LEMMA DisturbKeepsEInv == EInv /\ Disturb => EInv'
<1> SUFFICES ASSUME EInv, Disturb PROVE EInv'
  OBVIOUS
<1>1. /\ mode \in {"idle", "running"} /\ disturbances < MaxDisturbances
      /\ disturbances' = disturbances + 1
      /\ UNCHANGED <<paths, mode, clock, uncommitted, trace, moves, waits, before,
                     conflicts, result>>
      /\ Driven' = Driven
  BY DEF Disturb, DropObstacle, TakeOffline, RemoveRobot, MoveRobot, Disturbance,
     runVars, Driven
<1>2. disturbances' \in 0 .. MaxDisturbances
  BY <1>1, ExecutorAssumption DEF EInv, TypeOK
<1>3. /\ blocked' \in SUBSET Cells /\ status' \in [Robots -> Statuses]
      /\ position' \in [Robots -> Cells] /\ battery' \in [Robots -> Nat]
      /\ odometer' \in [Robots -> Nat]
      /\ mode = "running" => UNCHANGED <<position, battery, odometer>>
  <2>1. CASE DropObstacle
    BY <2>1 DEF DropObstacle, robotVars, EInv, TypeOK
  <2>2. CASE TakeOffline
    BY <2>2 DEF TakeOffline, EInv, TypeOK, Statuses
  <2>3. CASE RemoveRobot
    BY <2>3 DEF RemoveRobot, EInv, TypeOK, Statuses
  <2>4. CASE MoveRobot
    BY <2>4, ExecutorAssumption
       DEF MoveRobot, MoveTo, CanMoveTo, EInv, TypeOK, Statuses
  <2>. QED  BY <2>1, <2>2, <2>3, <2>4 DEF Disturb
<1>4. TypeOK'
  BY <1>1, <1>2, <1>3 DEF EInv, TypeOK
<1>5. OnSchedule' /\ PlanTypeOK' /\ PlanIsSound' /\ HalfWay'
  BY <1>1, <1>3
     DEF EInv, OnSchedule, From, PlanTypeOK, PlanIsSound, HalfWay, Underway
<1>6. Books'
  BY <1>1, <1>3 DEF EInv, Books, StepsTaken, Underway
<1>. QED
  BY <1>1, <1>4, <1>5, <1>6
     DEF EInv, NeverRaises, PreflightIsComplete, SuccessMeansArrived

-----------------------------------------------------------------------------
(* One iteration of the commit loop.                                       *)

(* What a wait and a move of robot r have in common: r is where its path   *)
(* has it at clock + 1, and nobody else is touched.                        *)
Committed(r) ==
  /\ mode = "committing" /\ r \in uncommitted
  /\ position' = [position EXCEPT ![r] = To(r)]
  /\ \A q \in Driven \ {r} :
       UNCHANGED <<battery[q], status[q], odometer[q], moves[q], waits[q], trace[q]>>
  /\ battery' \in [Robots -> Nat] /\ status' \in [Robots -> Statuses]
  /\ odometer' \in [Robots -> Nat]
  /\ moves' \in [Driven -> Nat] /\ waits' \in [Driven -> Nat]
  /\ odometer'[r] + moves[r] = odometer[r] + moves'[r]
  /\ battery'[r] + Drain * moves'[r] = battery[r] + Drain * moves[r]
  /\ moves'[r] + waits'[r] = IF clock + 1 <= paths[r].arrival
                             THEN moves[r] + waits[r] + 1 ELSE moves[r] + waits[r]
  /\ Record(r)
  /\ EndOfLoopBody(r)
  /\ UNCHANGED <<paths, blocked, before, conflicts, disturbances, result>>

LEMMA CommitsAreClean ==
  ASSUME EInv, Commit
  PROVE  \E r \in uncommitted : Committed(r)
<1>1. PICK r \in uncommitted : CommitWait(r) \/ CommitMove(r)
  BY DEF Commit
<1>2. /\ mode = "committing" /\ TypeOK /\ PlanTypeOK /\ r \in Driven /\ r \in Robots
      /\ clock \in Nat /\ ~ HasProblems(paths, {})
      /\ UNCHANGED <<paths, blocked, before, conflicts, disturbances>>
      /\ position[r] = From(r) /\ (From(r) # To(r) => battery[r] >= Drain)
      /\ (From(r) # To(r) => AdjacentTo(From(r), To(r)))
  BY HorizonAssumption
     DEF Commit, EInv, TypeOK, PlanTypeOK, HalfWay, PlanIsSound, Underway, Times
<1>3. /\ position \in [Robots -> Cells] /\ battery \in [Robots -> Nat]
      /\ status \in [Robots -> Statuses] /\ odometer \in [Robots -> Nat]
      /\ moves \in [Driven -> Nat] /\ waits \in [Driven -> Nat]
      /\ DOMAIN trace = Driven /\ Driven \subseteq Robots
  BY <1>2 DEF TypeOK, PlanTypeOK
<1>4. \A q \in Driven \ {r} : Record(r) => UNCHANGED trace[q]
  BY <1>3 DEF Record
<1>5. CASE CommitWait(r)
  <2>1. /\ From(r) = To(r) /\ Record(r) /\ EndOfLoopBody(r)
        /\ UNCHANGED <<position, battery, status, odometer, moves, result>>
        /\ waits' = [waits EXCEPT ![r] = IF clock + 1 <= paths[r].arrival
                                         THEN @ + 1 ELSE @]
    BY <1>5 DEF CommitWait, robotVars
  <2>2. position' = [position EXCEPT ![r] = To(r)]
    BY <1>2, <1>3, <2>1
  <2>3. /\ waits' \in [Driven -> Nat]
        /\ waits'[r] = IF clock + 1 <= paths[r].arrival THEN waits[r] + 1 ELSE waits[r]
        /\ \A q \in Driven \ {r} : waits'[q] = waits[q]
    BY <1>2, <1>3, <2>1
  <2>4. moves'[r] + waits'[r] = IF clock + 1 <= paths[r].arrival
                                THEN moves[r] + waits[r] + 1 ELSE moves[r] + waits[r]
    BY <1>2, <1>3, <2>1, <2>3
  <2>. QED  BY <1>2, <1>3, <1>4, <2>1, <2>2, <2>3, <2>4 DEF Committed
<1>6. CASE CommitMove(r)
  <2>1. From(r) # To(r) /\ CanMoveTo(r, To(r))
    BY <1>2, <1>6 DEF CommitMove, CanMoveTo
  <2>2. /\ MoveTo(r, To(r)) /\ Record(r) /\ EndOfLoopBody(r)
        /\ moves' = [moves EXCEPT ![r] = @ + 1]
        /\ UNCHANGED <<waits, result>>
    BY <1>6, <2>1 DEF CommitMove
  <2>3. /\ position' = [position EXCEPT ![r] = To(r)]
        /\ odometer' = [odometer EXCEPT ![r] = @ + 1]
        /\ battery' = [battery EXCEPT ![r] = @ - Drain]
        /\ status' = [status EXCEPT ![r] = "MOVING"]
    BY <1>2, <1>3, <2>1, <2>2 DEF MoveTo
  <2>4. /\ battery' \in [Robots -> Nat] /\ battery'[r] = battery[r] - Drain
        /\ odometer' \in [Robots -> Nat] /\ odometer'[r] = odometer[r] + 1
        /\ status' \in [Robots -> Statuses]
        /\ moves' \in [Driven -> Nat] /\ moves'[r] = moves[r] + 1
    BY <1>2, <1>3, <2>1, <2>2, <2>3, ExecutorAssumption DEF Statuses
  <2>5. \A q \in Driven \ {r} :
          UNCHANGED <<battery[q], status[q], odometer[q], moves[q], waits[q]>>
    BY <1>3, <2>2, <2>3
  <2>6. /\ odometer'[r] + moves[r] = odometer[r] + moves'[r]
        /\ moves'[r] + waits'[r] = moves[r] + waits[r] + 1
    BY <1>2, <1>3, <2>2, <2>4
  <2>7. battery'[r] + Drain * moves'[r] = battery[r] + Drain * moves[r]
    <3>1. battery[r] \in Nat /\ moves[r] \in Nat
      BY <1>2, <1>3
    <3>2. Drain * (moves[r] + 1) = Drain * moves[r] + Drain
      BY <3>1, ExecutorAssumption
    <3>3. Drain * moves[r] \in Nat
      BY <3>1, ExecutorAssumption
    <3>. QED  BY <2>4, <3>1, <3>2, <3>3, ExecutorAssumption
  <2>8. clock + 1 <= paths[r].arrival
    BY <1>2, <2>1, StepsStayOnTheFloor
  <2>. QED
    BY <1>2, <1>3, <1>4, <2>2, <2>3, <2>4, <2>5, <2>6, <2>7, <2>8 DEF Committed
<1>. QED  BY <1>1, <1>5, <1>6

(* The books of the committed robot after its wait or move.                *)
LEMMA BooksOfTheRobot ==
  ASSUME EInv, NEW r \in Driven, Committed(r)
  PROVE  /\ trace'[r].start = 0 /\ trace'[r].arrival = clock + 1
         /\ odometer'[r] = before'[r].odometer + moves'[r]
         /\ battery'[r] + Drain * moves'[r] = before'[r].battery
         /\ moves'[r] + waits'[r] = IF clock + 1 <= paths'[r].arrival
                                    THEN clock + 1 ELSE paths'[r].arrival
<1>1. /\ mode = "committing" /\ r \in uncommitted /\ r \in Robots
      /\ TypeOK /\ Books /\ clock \in Nat /\ ~ HasProblems(paths, {}) /\ PlanTypeOK
      /\ UNCHANGED <<paths, before>>
  BY HorizonAssumption
     DEF Committed, EInv, TypeOK, PlanTypeOK, PlanIsSound, Underway, Times
<1>2. /\ trace'[r].start = 0 /\ trace'[r].arrival = clock + 1
  BY <1>1 DEF Committed, Record, TypeOK
<1>3. /\ odometer[r] = before[r].odometer + moves[r]
      /\ battery[r] + Drain * moves[r] = before[r].battery
      /\ moves[r] + waits[r] = IF clock <= paths[r].arrival
                              THEN clock ELSE paths[r].arrival
  BY <1>1 DEF Books, Underway, StepsTaken
<1>4. /\ odometer[r] \in Nat /\ moves[r] \in Nat /\ waits[r] \in Nat
      /\ odometer'[r] \in Nat /\ moves'[r] \in Nat /\ waits'[r] \in Nat
      /\ before[r].odometer \in Nat
  BY <1>1 DEF Committed, TypeOK
<1>5. paths[r].arrival \in Nat
  BY <1>1, SoundPaths
<1>6. /\ odometer'[r] + moves[r] = odometer[r] + moves'[r]
      /\ battery'[r] + Drain * moves'[r] = battery[r] + Drain * moves[r]
      /\ moves'[r] + waits'[r] = IF clock + 1 <= paths[r].arrival
                                THEN moves[r] + waits[r] + 1 ELSE moves[r] + waits[r]
  BY DEF Committed
<1>7. odometer'[r] = before[r].odometer + moves'[r]
  BY <1>3, <1>4, <1>6
<1>8. moves'[r] + waits'[r] = IF clock + 1 <= paths[r].arrival
                             THEN clock + 1 ELSE paths[r].arrival
  BY <1>1, <1>3, <1>5, <1>6
<1>. QED  BY <1>1, <1>2, <1>3, <1>6, <1>7, <1>8

LEMMA CommitKeepsEInv == EInv /\ Commit => EInv'
<1> SUFFICES ASSUME EInv, Commit PROVE EInv'
  OBVIOUS
<1>1. PICK r \in uncommitted : Committed(r)
  BY CommitsAreClean
<1>2. /\ mode = "committing" /\ TypeOK /\ PlanTypeOK /\ r \in Driven /\ r \in Robots
      /\ clock \in Nat /\ ~ HasProblems(paths, {}) /\ WithinMakespan(paths, clock + 1)
      /\ UNCHANGED <<paths, blocked, before, conflicts, disturbances, result>>
      /\ Driven' = Driven
  BY <1>1, HorizonAssumption
     DEF Committed, EInv, TypeOK, PlanTypeOK, HalfWay, PlanIsSound, Underway,
         Times, Driven
<1>3. /\ position \in [Robots -> Cells] /\ Driven \subseteq Robots
      /\ uncommitted \subseteq Driven
      /\ position' = [position EXCEPT ![r] = To(r)]
      /\ uncommitted' = uncommitted \ {r}
      /\ \/ uncommitted' # {} /\ mode' = "committing" /\ clock' = clock
         \/ uncommitted' = {} /\ mode' = "running" /\ clock' = clock + 1
  BY <1>1, <1>2 DEF Committed, EndOfLoopBody, TypeOK, PlanTypeOK
<1>4. \A q \in Driven : From(q) \in Cells /\ To(q) \in Cells
  BY <1>2, StepsStayOnTheFloor
<1>5. position' \in [Robots -> Cells] /\ position'[r] = To(r)
      /\ \A q \in Driven \ {r} : position'[q] = position[q]
  BY <1>2, <1>3, <1>4
<1>6. clock + 1 \in Times /\ clock' \in Times
  <2>1. PICK o \in Driven : clock + 1 <= paths[o].arrival
    BY <1>2 DEF WithinMakespan, Driven
  <2>2. paths[o].arrival \in Nat /\ paths[o].arrival <= Horizon
    BY <1>2, SoundPaths
  <2>3. clock + 1 \in Times
    BY <1>2, <2>1, <2>2, HorizonAssumption DEF Times
  <2>. QED  BY <1>2, <1>3, <2>3 DEF TypeOK
<1>7. /\ DOMAIN trace' = Driven
      /\ trace'[r].start = 0 /\ trace'[r].arrival = clock + 1
      /\ \A q \in Driven \ {r} : trace'[q] = trace[q]
      /\ IsTimedPath(trace'[r])
  <2>1. DOMAIN trace = Driven /\ trace[r].start = 0 /\ trace[r].arrival = clock
        /\ trace[r].at \in [0 .. clock -> Cells]
    BY <1>1, <1>2 DEF TypeOK, EInv, Books, Underway, StepsTaken, IsTimedPath, Committed
  <2>2. /\ trace'[r] = [start |-> 0, arrival |-> clock + 1,
                        at |-> [t \in 0 .. clock + 1 |->
                                  IF t = clock + 1 THEN To(r) ELSE trace[r].at[t]]]
        /\ DOMAIN trace' = Driven
        /\ \A q \in Driven \ {r} : trace'[q] = trace[q]
    BY <1>1, <1>2, <2>1 DEF Committed, Record
  <2>3. [t \in 0 .. clock + 1 |->
           IF t = clock + 1 THEN To(r) ELSE trace[r].at[t]] \in [0 .. clock + 1 -> Cells]
    BY <1>2, <1>4, <2>1
  <2>. QED  BY <1>2, <1>6, <2>2, <2>3, HorizonAssumption DEF IsTimedPath, Times
<1>8. TypeOK'
  <2>1. \A q \in Driven : IsTimedPath(trace'[q])
    BY <1>2, <1>7 DEF TypeOK
  <2>2. mode' \in Modes /\ uncommitted' \in SUBSET Driven
    BY <1>3 DEF Modes
  <2>3. /\ battery' \in [Robots -> Nat] /\ status' \in [Robots -> Statuses]
        /\ odometer' \in [Robots -> Nat]
        /\ moves' \in [Driven -> Nat] /\ waits' \in [Driven -> Nat]
    BY <1>1 DEF Committed
  <2>. QED  BY <1>2, <1>5, <1>6, <1>7, <2>1, <2>2, <2>3 DEF TypeOK
<1>9. PlanTypeOK' /\ PlanIsSound'
  BY <1>2 DEF PlanTypeOK, PlanIsSound
<1>10. \A q \in Driven : q \notin uncommitted' => position'[q] = To(q)
  BY <1>2, <1>3, <1>5 DEF EInv, HalfWay
<1>11. CASE uncommitted' # {}
  <2>1. mode' = "committing" /\ clock' = clock
    BY <1>3, <1>11
  <2>2. ASSUME NEW q \in Driven
        PROVE  From(q)' = From(q) /\ To(q)' = To(q)
    BY <1>2, <2>1 DEF From, To
  <2>3. JointConflict' = JointConflict
    BY <1>2, <2>1 DEF JointConflict, From, To
  <2>4. \A q \in uncommitted' : status'[q] = status[q] /\ battery'[q] = battery[q]
                                /\ position'[q] = position[q]
    BY <1>1, <1>3, <1>5 DEF Committed
  <2>5. HalfWay'
    BY <1>2, <1>3, <1>10, <1>11, <2>1, <2>2, <2>3, <2>4
       DEF EInv, HalfWay, IsTraversable, WithinMakespan
  <2>6. OnSchedule'
    BY <2>1 DEF OnSchedule
  <2>7. Books'
    <3>1. ASSUME NEW q \in Driven \ {r}
          PROVE  /\ StepsTaken(q)' = StepsTaken(q)
                 /\ UNCHANGED <<battery[q], odometer[q], moves[q], waits[q], trace[q]>>
      BY <1>1, <1>2, <1>3, <2>1 DEF Committed, StepsTaken
    <3>2. StepsTaken(r) = clock /\ StepsTaken(r)' = clock + 1
      BY <1>2, <1>3, <2>1 DEF StepsTaken
    <3>. QED  BY <1>1, <1>2, <2>1, <3>1, <3>2, BooksOfTheRobot DEF EInv, Books, Underway
  <2>. QED
    BY <1>2, <1>8, <1>9, <2>1, <2>5, <2>6, <2>7
       DEF EInv, NeverRaises, PreflightIsComplete, SuccessMeansArrived
<1>12. CASE uncommitted' = {}
  <2>1. mode' = "running" /\ clock' = clock + 1 /\ uncommitted = {r}
    BY <1>3, <1>12
  <2>2. OnSchedule'
    BY <1>2, <1>10, <1>12, <2>1 DEF OnSchedule, From, To
  <2>3. HalfWay'
    BY <2>1 DEF HalfWay
  <2>4. Books'
    <3>1. ASSUME NEW q \in Driven \ {r}
          PROVE  /\ StepsTaken(q)' = StepsTaken(q)
                 /\ UNCHANGED <<battery[q], odometer[q], moves[q], waits[q], trace[q]>>
      BY <1>1, <1>2, <1>3, <2>1 DEF Committed, StepsTaken
    <3>2. StepsTaken(r) = clock /\ StepsTaken(r)' = clock + 1
      BY <1>2, <1>3, <2>1 DEF StepsTaken
    <3>. QED  BY <1>1, <1>2, <2>1, <3>1, <3>2, BooksOfTheRobot DEF EInv, Books, Underway
  <2>. QED
    BY <1>2, <1>8, <1>9, <2>1, <2>2, <2>3, <2>4
       DEF EInv, NeverRaises, PreflightIsComplete, SuccessMeansArrived
<1>. QED  BY <1>11, <1>12

-----------------------------------------------------------------------------
(* The trace is the plan as far as it was driven, so it is as clean as the *)
(* plan was.                                                               *)

(* At any time the fleet has reached, the plan is replayed too.            *)
LEMMA ReachedTimesAreReplayed ==
  ASSUME PlanTypeOK, ~ HasProblems(paths, {}), clock \in Times,
         clock = 0 \/ WithinMakespan(paths, clock),
         NEW q \in Driven, NEW t \in 0 .. clock
  PROVE  t \in ReplayTimes(paths)
<1>1. \A r \in Driven : paths[r].start = 0 /\ paths[r].arrival \in Nat
  BY SoundPaths
<1>2. t \in Times /\ t \in Nat /\ clock \in Nat
  BY HorizonAssumption DEF Times
<1>3. WithinMakespan(paths, t)
  <2>1. CASE clock = 0
    BY <1>1, <1>2, <2>1 DEF WithinMakespan, Driven
  <2>2. CASE WithinMakespan(paths, clock)
    <3>1. PICK o \in Driven : clock <= paths[o].arrival
      BY <2>2 DEF WithinMakespan, Driven
    <3>. QED  BY <1>1, <1>2, <3>1 DEF WithinMakespan, Driven
  <2>. QED  BY <2>1, <2>2
<1>. QED  BY <1>1, <1>2, <1>3 DEF ReplayTimes, Driven

(* A sound plan walks: from one time to the next a robot goes at most to   *)
(* an adjacent cell, also after its arrival.                               *)
LEMMA SoundPathsWalk ==
  ASSUME PlanTypeOK, ~ HasProblems(paths, {}), NEW r \in Driven, NEW t \in Nat
  PROVE  ManhattanDistance(PositionAt(paths[r], t), PositionAt(paths[r], t + 1))
           \in {0, 1}
<1> DEFINE p == paths[r]
<1>1. /\ p.start = 0 /\ p.arrival \in Nat
      /\ p.at \in [0 .. p.arrival -> Cells]
  BY SoundPaths
<1>2. CASE t + 1 <= p.arrival
  <2>1. PositionAt(p, t) = p.at[t] /\ PositionAt(p, t + 1) = p.at[t+1]
    BY <1>1, <1>2, OnThePath
  <2>2. ~ PathProblem(p, {})
    BY DEF HasProblems, Driven
  <2>3. t \in p.start .. p.arrival - 1
    BY <1>1, <1>2
  <2>. QED  BY <2>1, <2>2, <2>3 DEF PathProblem
<1>3. CASE t >= p.arrival
  <2>1. PositionAt(p, t) = PositionAt(p, t + 1) /\ PositionAt(p, t) \in Cells
    BY <1>1, <1>3, OnThePath
  <2>2. \A c \in Cells : ManhattanDistance(c, c) = 0
    BY DEF ManhattanDistance, Distance, Cells
  <2>. QED  BY <2>1, <2>2
<1>. QED  BY <1>1, <1>2, <1>3

LEMMA DrivenTraceIsClean ==
  ASSUME EInv, TraceFollowsPlan, mode \in {"running", "finishing"}
  PROVE  ~ HasProblems(trace, {})
<1>1. /\ PlanTypeOK /\ ~ HasProblems(paths, {}) /\ clock \in Times /\ clock \in Nat
      /\ clock = 0 \/ WithinMakespan(paths, clock)
      /\ DOMAIN trace = Driven /\ Underway
  BY HorizonAssumption
     DEF EInv, TypeOK, PlanIsSound, Underway, TraceFollowsPlan, Times
<1>2. \A r \in Driven : StepsTaken(r) = clock
  BY DEF StepsTaken
<1>3. \A r \in Driven : /\ trace[r].start = 0 /\ trace[r].arrival = clock
                        /\ trace[r].at \in [0 .. clock -> Cells]
  <2>1. \A r \in Driven : IsTimedPath(trace[r]) /\ trace[r].start = 0 /\ trace[r].arrival = StepsTaken(r)
    BY <1>1 DEF EInv, TypeOK, Books
  <2>2. \A r \in Driven : trace[r].at \in [trace[r].start .. trace[r].arrival -> Cells]
    BY <2>1 DEF IsTimedPath
  <2>. QED  BY <2>1, <2>2, <1>2
<1>4. \A r \in Driven : \A t \in 0 .. clock :
        /\ trace[r].at[t] = PositionAt(paths[r], t)
        /\ PositionAt(trace[r], t) = PositionAt(paths[r], t)
  <2>1. ASSUME NEW r \in Driven, NEW t \in 0 .. clock
        PROVE  /\ trace[r].at[t] = PositionAt(paths[r], t)
               /\ PositionAt(trace[r], t) = PositionAt(paths[r], t)
    <3>1. t \in Times /\ t \in Nat /\ t <= StepsTaken(r)
      BY <1>1, <1>2, HorizonAssumption DEF Times
    <3>2. trace[r].at[t] = PositionAt(paths[r], t)
      BY <1>1, <3>1 DEF TraceFollowsPlan
    <3>3. PositionAt(trace[r], t) = trace[r].at[t]
      BY <1>1, <1>3, <3>1 DEF PositionAt, Goal
    <3>. QED  BY <3>2, <3>3
  <2>. QED  BY <2>1
<1>5. ASSUME NEW t \in ReplayTimes(trace)
      PROVE  t \in 0 .. clock /\ t \in Nat
  BY <1>1, <1>3, HorizonAssumption DEF ReplayTimes, WithinMakespan, Times
<1>6. ASSUME NEW r \in Driven PROVE ~ PathProblem(trace[r], {})
  <2>1. \A t \in 0 .. clock : trace[r].at[t] \in Cells
    BY <1>3
  <2>2. ASSUME NEW t \in 0 .. clock - 1
        PROVE  ManhattanDistance(trace[r].at[t], trace[r].at[t+1]) \in {0, 1}
    <3>1. t \in Nat /\ t \in 0 .. clock /\ t + 1 \in 0 .. clock
      BY <1>1
    <3>2. /\ trace[r].at[t] = PositionAt(paths[r], t)
          /\ trace[r].at[t+1] = PositionAt(paths[r], t + 1)
      BY <1>4, <3>1
    <3>. QED  BY <1>1, <3>1, <3>2, SoundPathsWalk
  <2>. QED  BY <1>3, <2>1, <2>2 DEF PathProblem
<1>7. ASSUME NEW q \in Driven, NEW r \in Driven, q # r, NEW t \in 0 .. clock
      PROVE  PositionAt(trace[q], t) # PositionAt(trace[r], t)
  <2>1. t \in ReplayTimes(paths)
    BY <1>1, ReachedTimesAreReplayed
  <2>2. PositionAt(paths[q], t) # PositionAt(paths[r], t)
    BY <1>1, <1>7, <2>1 DEF HasProblems, VertexConflict, Driven
  <2>. QED  BY <1>4, <2>2
<1>8. ~ VertexConflict(trace)
  BY <1>1, <1>5, <1>7 DEF VertexConflict
<1>9. ~ EdgeConflict(trace)
  <2> SUFFICES ASSUME NEW t \in ReplayTimes(trace), NEW q \in Driven, NEW r \in Driven,
                      WithinMakespan(trace, t + 1),
                      PositionAt(trace[q], t) # PositionAt(trace[q], t + 1),
                      PositionAt(trace[r], t) = PositionAt(trace[q], t + 1),
                      PositionAt(trace[r], t + 1) = PositionAt(trace[q], t)
               PROVE  FALSE
    BY <1>1 DEF EdgeConflict
  <2>1. t \in 0 .. clock /\ t + 1 \in 0 .. clock
    BY <1>1, <1>3, <1>5 DEF WithinMakespan
  <2>2. /\ PositionAt(paths[q], t) # PositionAt(paths[q], t + 1)
        /\ PositionAt(paths[r], t) = PositionAt(paths[q], t + 1)
        /\ PositionAt(paths[r], t + 1) = PositionAt(paths[q], t)
    BY <1>4, <2>1
  <2>3. t \in ReplayTimes(paths) /\ t + 1 \in ReplayTimes(paths)
    BY <1>1, <2>1, ReachedTimesAreReplayed
  <2>4. WithinMakespan(paths, t + 1)
    BY <2>3 DEF ReplayTimes
  <2>. QED  BY <1>1, <2>2, <2>3, <2>4 DEF HasProblems, EdgeConflict, Driven
<1>10. ~ GoalOccupied(trace)
  <2> SUFFICES ASSUME NEW t \in ReplayTimes(trace), NEW q \in Driven, NEW r \in Driven,
                      q # r, t >= trace[q].arrival,
                      PositionAt(trace[r], t) = Goal(trace[q])
               PROVE  FALSE
    BY <1>1 DEF GoalOccupied
  <2>1. t = clock /\ t \in 0 .. clock
    BY <1>1, <1>3, <1>5
  <2>2. Goal(trace[q]) = PositionAt(trace[q], t)
    BY <1>3, <1>4, <2>1 DEF Goal
  <2>. QED  BY <1>7, <2>1, <2>2
<1>. QED  BY <1>1, <1>6, <1>8, <1>9, <1>10 DEF HasProblems

LEMMA InitTraceInv == AnyPlan => TraceInv
BY DEF AnyPlan, Init, TraceInv, TraceFollowsPlan, Underway, ExecutedTraceIsClean

LEMMA StartKeepsTrace == EInv /\ Start => TraceInv'
<1> SUFFICES ASSUME EInv, Start PROVE TraceInv'
  OBVIOUS
<1>1. /\ mode' = (IF Driven = {} THEN "done" ELSE "running")
      /\ clock' = 0 /\ paths' = paths /\ Driven' = Driven
      /\ trace' = [r \in Driven |-> [start |-> 0, arrival |-> 0,
                                     at |-> [t \in {0} |-> position[r]]]]
      /\ ~ HasProblems(paths, {}) /\ PlanTypeOK
  BY DEF Start, EInv, Driven
<1>2. ASSUME NEW r \in Driven
      PROVE  trace'[r].at[0] = PositionAt(paths[r], 0)
  <2>1. position[r] = paths[r].at[paths[r].start]
    BY DEF Start, NotReady
  <2>2. paths[r].start = 0
    BY <1>1, SoundPaths
  <2>3. trace'[r].at[0] = position[r]
    BY <1>1
  <2>. QED  BY <2>1, <2>2, <2>3 DEF PositionAt
<1>3. TraceFollowsPlan'
  <2>1. mode' # "committing"
    BY <1>1
  <2>2. ASSUME NEW r \in Driven, NEW t \in Times, t <= StepsTaken(r)'
        PROVE  trace'[r].at[t] = PositionAt(paths'[r], t)
    <3>1. StepsTaken(r)' = 0
      BY <1>1, <2>1 DEF StepsTaken
    <3>2. t = 0
      BY <2>2, <3>1, HorizonAssumption DEF Times
    <3>. QED  BY <1>1, <1>2, <3>2
  <2>. QED  BY <1>1, <2>2 DEF TraceFollowsPlan
<1>4. ExecutedTraceIsClean'
  <2>1. SUFFICES ASSUME Driven = {} PROVE ~ HasProblems(trace', {})
    BY <1>1 DEF ExecutedTraceIsClean
  <2>2. DOMAIN trace' = {}
    BY <1>1, <2>1
  <2>. QED
    BY <2>2 DEF HasProblems, VertexConflict, EdgeConflict, GoalOccupied
<1>. QED  BY <1>3, <1>4 DEF TraceInv

LEMMA CommitKeepsTrace == EInv /\ TraceInv /\ Commit => TraceInv'
<1> SUFFICES ASSUME EInv, TraceInv, Commit PROVE TraceInv'
  OBVIOUS
<1>1. PICK r \in uncommitted : Committed(r)
  BY CommitsAreClean
<1>2. /\ mode = "committing" /\ TypeOK /\ r \in Driven /\ paths' = paths
      /\ clock \in Times /\ clock \in Nat /\ WithinMakespan(paths, clock + 1)
      /\ Driven' = Driven /\ uncommitted \subseteq Driven /\ Underway
  BY <1>1, HorizonAssumption
     DEF Committed, EInv, TypeOK, HalfWay, Times, Driven, Underway
<1>3. /\ uncommitted' = uncommitted \ {r}
      /\ \/ uncommitted' # {} /\ mode' = "committing" /\ clock' = clock
         \/ uncommitted' = {} /\ mode' = "running" /\ clock' = clock + 1
  BY <1>1, <1>2 DEF Committed, EndOfLoopBody
<1>4. \A q \in Driven : StepsTaken(q)' = IF q = r THEN clock + 1 ELSE StepsTaken(q)
  BY <1>2, <1>3 DEF StepsTaken
<1>5. /\ \A q \in Driven \ {r} : trace'[q] = trace[q]
      /\ trace'[r].at = [t \in 0 .. clock + 1 |->
                           IF t = clock + 1 THEN To(r) ELSE trace[r].at[t]]
  BY <1>1, <1>2 DEF Committed, Record, TypeOK
<1>6. StepsTaken(r) = clock
  BY <1>1 DEF StepsTaken
<1>7. ASSUME NEW q \in Driven, NEW t \in Times, t <= StepsTaken(q)'
      PROVE  trace'[q].at[t] = PositionAt(paths[q], t)
  <2>1. CASE q # r
    BY <1>2, <1>4, <1>5, <1>7, <2>1 DEF TraceInv, TraceFollowsPlan
  <2>2. CASE q = r /\ t = clock + 1
    BY <1>2, <1>5, <2>2 DEF To
  <2>3. CASE q = r /\ t # clock + 1
    <3>1. t \in Nat /\ t <= clock
      BY <1>2, <1>4, <1>7, <2>3, HorizonAssumption DEF Times
    <3>2. trace'[r].at[t] = trace[r].at[t]
      BY <1>2, <1>5, <3>1
    <3>. QED  BY <1>2, <1>6, <2>3, <3>1, <3>2 DEF TraceInv, TraceFollowsPlan
  <2>. QED  BY <2>1, <2>2, <2>3
<1>8. clock' = 0 \/ WithinMakespan(paths', clock')
  BY <1>2, <1>3 DEF TraceInv, TraceFollowsPlan, Underway
<1>9. mode' # "done"
  BY <1>3
<1>. QED
  BY <1>2, <1>7, <1>8, <1>9 DEF TraceInv, TraceFollowsPlan, ExecutedTraceIsClean

LEMMA FinishKeepsTrace == EInv /\ TraceInv /\ Finish => TraceInv'
<1> SUFFICES ASSUME EInv, TraceInv, Finish PROVE TraceInv'
  OBVIOUS
<1>1. mode \in {"running", "finishing"} /\ mode' = "done" /\ trace' = trace
  BY DEF Finish, runVars
<1>2. ~ HasProblems(trace, {})
  BY <1>1, DrivenTraceIsClean DEF TraceInv
<1>. QED
  BY <1>1, <1>2 DEF TraceInv, TraceFollowsPlan, Underway, ExecutedTraceIsClean

LEMMA NextKeepsTrace == EInv /\ TraceInv /\ [Next]_vars => TraceInv'
<1> SUFFICES ASSUME EInv, TraceInv, [Next]_vars PROVE TraceInv'
  OBVIOUS
<1>1. CASE RejectPlan \/ RejectFleet
  BY <1>1 DEF RejectPlan, RejectFleet, Refuse, TraceInv, TraceFollowsPlan, Underway,
     ExecutedTraceIsClean
<1>2. CASE ValidateStep
  <2>1. /\ mode = "running" /\ mode' \in {"finishing", "committing"}
        /\ UNCHANGED <<paths, clock, trace>> /\ Driven' = Driven
        /\ mode' = "committing" => uncommitted' = Driven
    BY <1>2 DEF ValidateStep, Driven
  <2>2. \A r \in Driven : StepsTaken(r)' = StepsTaken(r)
    BY <2>1 DEF StepsTaken
  <2>. QED
    BY <2>1, <2>2 DEF TraceInv, TraceFollowsPlan, Underway, ExecutedTraceIsClean
<1>3. CASE Disturb \/ UNCHANGED vars
  <2>1. UNCHANGED <<paths, mode, clock, uncommitted, trace, result>> /\ Driven' = Driven
    BY <1>3 DEF Disturb, DropObstacle, TakeOffline, RemoveRobot, MoveRobot,
       Disturbance, runVars, vars, robotVars, Driven
  <2>2. \A r \in Driven : StepsTaken(r)' = StepsTaken(r)
    BY <2>1 DEF StepsTaken
  <2>. QED
    BY <2>1, <2>2 DEF TraceInv, TraceFollowsPlan, Underway, ExecutedTraceIsClean
<1>. QED
  BY <1>1, <1>2, <1>3, StartKeepsTrace, CommitKeepsTrace, FinishKeepsTrace
     DEF Next, Execute

-----------------------------------------------------------------------------
(* The theorems.                                                           *)

LEMMA NextKeepsEInv == EInv /\ [Next]_vars => EInv'
<1> SUFFICES ASSUME EInv, [Next]_vars PROVE EInv'
  OBVIOUS
<1>1. CASE Execute
  BY <1>1, RefusalKeepsEInv, StartKeepsEInv, ValidateKeepsEInv, CommitKeepsEInv,
     FinishKeepsEInv DEF Execute
<1>2. CASE Disturb
  BY <1>2, DisturbKeepsEInv
<1>3. CASE UNCHANGED vars
  <2>1. /\ UNCHANGED <<paths, blocked, position, battery, status, odometer, mode,
                       clock, uncommitted, trace, moves, waits, before, conflicts,
                       result, disturbances>>
        /\ Driven' = Driven
    BY <1>3 DEF vars, robotVars, runVars, Driven
  <2>2. TypeOK' /\ PlanTypeOK' /\ PlanIsSound'
    BY <2>1 DEF EInv, TypeOK, PlanTypeOK, PlanIsSound, Underway
  <2>3. OnSchedule' /\ HalfWay'
    BY <2>1 DEF EInv, OnSchedule, HalfWay, JointConflict, From, To, IsTraversable
  <2>4. Books'
    BY <2>1 DEF EInv, Books, StepsTaken, Underway
  <2>. QED
    BY <2>1, <2>2, <2>3, <2>4
       DEF EInv, NeverRaises, PreflightIsComplete, SuccessMeansArrived
<1>. QED  BY <1>1, <1>2, <1>3 DEF Next

(* The invariant is inductive: true at first, kept by every step of the    *)
(* executor and by every change of the world around it.                    *)
THEOREM RunInvariance == Spec => []EInv
BY InitEInv, NextKeepsEInv, PTL DEF Spec

(* A plan that passes pre-flight is driven without a conflict and without  *)
(* an exception, for every plan, fleet and sequence of disturbances.       *)
THEOREM SoundPlansCanBeDriven == Spec => []PreflightSuffices
<1>1. EInv => PreflightSuffices
  BY DEF EInv, PreflightSuffices
<1>. QED  BY <1>1, RunInvariance, PTL

(* No exception ever leaves the commit loop half way.                      *)
THEOREM CommitNeverRaises == Spec => []NeverRaises
<1>1. EInv => NeverRaises
  BY DEF EInv
<1>. QED  BY <1>1, RunInvariance, PTL

(* Whatever plan is handed in, the stepwise conflict checks never fire     *)
(* once the pre-flight replay has passed.                                  *)
THEOREM PreflightFindsAll == Spec => []PreflightIsComplete
<1>1. EInv => PreflightIsComplete
  BY DEF EInv
<1>. QED  BY <1>1, RunInvariance, PTL

(* A run reported as a success has brought every driven robot to its goal. *)
THEOREM SuccessIsArrival == Spec => []SuccessMeansArrived
<1>1. EInv => SuccessMeansArrived
  BY DEF EInv
<1>. QED  BY <1>1, RunInvariance, PTL

(* The summary adds up: moves, odometer, battery, waits and timesteps.     *)
THEOREM SummaryAddsUp == Spec => []BooksBalance
<1>1. EInv => BooksBalance
  BY DEF EInv, Books, BooksBalance, Underway, StepsTaken
<1>. QED  BY <1>1, RunInvariance, PTL

(* The result is the truth: the summary adds up, a success has arrived,    *)
(* and the executed trace, however the run ended, holds no conflict, no    *)
(* jump and no cell off the floor (coordinated_executor.py:259-293).       *)
THEOREM TheResultIsTrue == Spec => []ResultIsHonest
<1>1. Spec => []TraceInv
  BY InitTraceInv, NextKeepsTrace, RunInvariance, PTL DEF Spec
<1>2. EInv /\ TraceInv => ResultIsHonest
  <2>1. EInv => BooksBalance
    BY DEF EInv, Books, BooksBalance, Underway, StepsTaken
  <2>. QED  BY <2>1 DEF EInv, TraceInv, ResultIsHonest
<1>. QED  BY <1>1, <1>2, RunInvariance, PTL

(* An offline robot is never moved, not even by a commit under way.        *)
THEOREM OfflineRobotsStandStill == Spec => OfflineStandsStill
<1>1. ASSUME EInv, [Next]_vars, NEW r \in Robots, status[r] = "OFFLINE"
      PROVE  position'[r] = position[r]
  <2>1. CASE Commit
    <3>1. PICK q \in uncommitted : Committed(q)
      BY <1>1, <2>1, CommitsAreClean
    <3>2. /\ position \in [Robots -> Cells] /\ q \in Robots /\ status[q] # "OFFLINE"
          /\ position' = [position EXCEPT ![q] = To(q)]
      BY <1>1, <3>1 DEF Committed, EInv, TypeOK, PlanTypeOK, HalfWay
    <3>. QED  BY <1>1, <3>2
  <2>2. CASE MoveRobot
    BY <1>1, <2>2 DEF MoveRobot, MoveTo, EInv, TypeOK
  <2>3. CASE RejectPlan \/ RejectFleet \/ Start \/ ValidateStep \/ Finish
             \/ DropObstacle \/ TakeOffline \/ RemoveRobot \/ UNCHANGED vars
    BY <2>3 DEF RejectPlan, RejectFleet, Refuse, Start, ValidateStep, Finish,
       DropObstacle, TakeOffline, RemoveRobot, vars, robotVars
  <2>. QED  BY <1>1, <2>1, <2>2, <2>3 DEF Next, Execute, Disturb
<1>2. EInv /\ [Next]_vars =>
        [\A r \in Robots : status[r] = "OFFLINE" => position'[r] = position[r]]_vars
  BY <1>1
<1>. QED  BY <1>2, RunInvariance, PTL DEF Spec, OfflineStandsStill

-----------------------------------------------------------------------------
(* Refinement: seen between timesteps, the fleet moves in joint steps.     *)

(* The position of the fleet as the abstract specification sees it.        *)
FleetAt == [r \in Driven |-> IF mode = "committing" THEN From(r) ELSE position[r]]

LEMMA JointFleet == Joint!Fleet = Driven
BY DEF Joint!Fleet

(* A whole commit is one legal joint step.                                 *)
LEMMA CommitIsJointStep ==
  ASSUME EInv, Commit
  PROVE  Joint!Step \/ UNCHANGED Joint!vars
<1>1. PICK r \in uncommitted : Committed(r)
  BY CommitsAreClean
<1>2. /\ mode = "committing" /\ TypeOK /\ PlanTypeOK /\ HalfWay
      /\ clock \in Nat /\ ~ HasProblems(paths, {})
      /\ UNCHANGED <<paths, blocked>> /\ Driven' = Driven
      /\ uncommitted \subseteq Driven /\ r \in Driven /\ Driven \subseteq Robots
  BY <1>1, HorizonAssumption
     DEF Committed, EInv, TypeOK, PlanTypeOK, PlanIsSound, Underway, Times, Driven
<1>3. /\ uncommitted' = uncommitted \ {r}
      /\ \/ uncommitted' # {} /\ mode' = "committing" /\ clock' = clock
         \/ uncommitted' = {} /\ mode' = "running" /\ clock' = clock + 1
      /\ position' = [position EXCEPT ![r] = To(r)]
  BY <1>1, <1>2 DEF Committed, EndOfLoopBody
<1>4. CASE uncommitted' # {}
  BY <1>2, <1>3, <1>4 DEF Joint!vars, From
<1>5. CASE uncommitted' = {}
  <2>1. mode' = "running" /\ uncommitted = {r}
    BY <1>2, <1>3, <1>5
  <2>2. \A q \in Driven : position'[q] = To(q)
    BY <1>2, <1>3, <2>1 DEF HalfWay, TypeOK
  <2>3. FleetAt = [q \in Driven |-> From(q)] /\ FleetAt' = [q \in Driven |-> To(q)]
    BY <1>2, <2>1, <2>2 DEF FleetAt
  <2>4. \A q \in Driven : From(q) \in Cells /\ To(q) \in Cells \ blocked
    BY <1>2, StepsStayOnTheFloor DEF HalfWay, IsTraversable
  <2>5. \A q \in Driven : To(q) = From(q) \/ AdjacentTo(From(q), To(q))
    BY <1>2 DEF HalfWay
  <2>6. \A p, q \in Driven : p # q => /\ To(p) # To(q)
                                     /\ ~ (From(p) = To(q) /\ From(q) = To(p))
    BY <1>2 DEF HalfWay, JointConflict
  <2>7. Joint!IsJointStep(FleetAt, FleetAt')
    BY <2>3, <2>4, <2>5, <2>6, JointFleet
       DEF Joint!IsJointStep, Joint!Apart, Joint!AdjacentTo, Joint!ManhattanDistance,
           Joint!Distance, Joint!Cells, AdjacentTo, ManhattanDistance, Distance, Cells
  <2>. QED
    BY <1>2, <2>1, <2>7, JointFleet DEF Joint!Step, FleetAt
<1>. QED  BY <1>4, <1>5

LEMMA StartIsSettingOff ==
  ASSUME EInv, Start
  PROVE  Joint!SetOff \/ Joint!Halt
<1>1. /\ mode = "idle" /\ ~ HasProblems(paths, {}) /\ PlanTypeOK
      /\ UNCHANGED <<paths, blocked, position>> /\ Driven' = Driven
      /\ mode' = (IF Driven = {} THEN "done" ELSE "running")
  BY DEF Start, EInv, robotVars, Driven
<1>2. CASE Driven = {}
  BY <1>1, <1>2 DEF Joint!Halt
<1>3. CASE Driven # {}
  <2>1. ASSUME NEW q \in Driven, NEW r \in Driven, q # r
        PROVE  position[q] # position[r]
    <3>1. 0 \in ReplayTimes(paths)
      BY <1>1, <2>1, SoundPaths, HorizonAssumption
         DEF ReplayTimes, WithinMakespan, Times, Driven
    <3>2. PositionAt(paths[q], 0) # PositionAt(paths[r], 0)
      BY <1>1, <2>1, <3>1 DEF HasProblems, VertexConflict, Driven
    <3>3. \A o \in Driven : position[o] = PositionAt(paths[o], 0)
      <4>1. ASSUME NEW o \in Driven PROVE position[o] = PositionAt(paths[o], 0)
        BY <1>1, SoundPaths DEF Start, NotReady, PositionAt
      <4>. QED  BY <4>1
    <3>. QED  BY <3>2, <3>3
  <2>2. Joint!Apart(FleetAt)
    BY <1>1, <2>1, JointFleet DEF Joint!Apart, FleetAt
  <2>. QED  BY <1>1, <1>3, <2>2 DEF Joint!SetOff, FleetAt
<1>. QED  BY <1>2, <1>3

(* The commit loop is all or nothing, for every plan and disturbance: the  *)
(* run implements the abstract joint steps (coordinated_executor.py:18-24).*)
THEOREM ImplementsJointSteps == Spec => AllOrNothing
<1>1. AnyPlan => Joint!Init
  BY DEF AnyPlan, Init, Joint!Init
<1>2. ASSUME EInv, [Next]_vars
      PROVE  [Joint!Next]_(Joint!vars)
  <2>1. CASE Commit
    BY <1>2, <2>1, CommitIsJointStep DEF Joint!Next
  <2>2. CASE Start
    BY <1>2, <2>2, StartIsSettingOff DEF Joint!Next
  <2>3. CASE RejectPlan \/ RejectFleet
    <3>1. /\ mode = "idle" /\ mode' = "done"
          /\ UNCHANGED <<paths, blocked, position>> /\ Driven' = Driven
      BY <2>3 DEF RejectPlan, RejectFleet, Refuse, robotVars, Driven
    <3>. QED  BY <3>1 DEF Joint!Next, Joint!Halt
  <2>4. CASE Finish
    <3>1. /\ mode \in {"running", "finishing"} /\ mode' = "done"
          /\ UNCHANGED <<paths, blocked, position>> /\ Driven' = Driven
      BY <2>4 DEF Finish, robotVars, Driven
    <3>. QED  BY <3>1 DEF Joint!Next, Joint!Halt
  <2>5. CASE ValidateStep
    <3>1. /\ mode = "running" /\ mode' \in {"finishing", "committing"}
          /\ UNCHANGED <<paths, blocked, position, clock>> /\ Driven' = Driven
      BY <2>5 DEF ValidateStep, robotVars, Driven
    <3>2. \A r \in Driven : position[r] = From(r) /\ From(r)' = From(r)
      BY <1>2, <3>1 DEF EInv, OnSchedule, From
    <3>3. FleetAt' = FleetAt
      BY <3>1, <3>2 DEF FleetAt
    <3>. QED  BY <3>1, <3>3 DEF Joint!vars, FleetAt
  <2>6. CASE Disturb
    <3>1. /\ mode \in {"idle", "running"} /\ UNCHANGED <<paths, mode>>
          /\ mode = "running" => UNCHANGED position
          /\ Driven' = Driven
      BY <2>6 DEF Disturb, DropObstacle, TakeOffline, RemoveRobot, MoveRobot,
         Disturbance, robotVars, Driven
    <3>2. CASE mode = "idle"
      BY <3>1, <3>2 DEF Joint!Next, Joint!Arrange
    <3>3. CASE mode = "running"
      BY <3>1, <3>3 DEF Joint!Next, Joint!Obstruct
    <3>. QED  BY <3>1, <3>2, <3>3
  <2>7. CASE UNCHANGED vars
    BY <2>7 DEF vars, robotVars, runVars, Joint!vars, From, Driven
  <2>. QED
    BY <1>2, <2>1, <2>2, <2>3, <2>4, <2>5, <2>6, <2>7 DEF Next, Execute
<1>. QED  BY <1>1, <1>2, RunInvariance, PTL DEF Spec, AllOrNothing, Joint!Spec
=============================================================================
