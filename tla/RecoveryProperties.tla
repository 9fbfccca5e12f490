------------------------- MODULE RecoveryProperties -------------------------
(***************************************************************************)
(* A fleet with some sound plan, driven through any of a set of schedules, *)
(* and what recovery owes it.                                              *)
(***************************************************************************)
EXTENDS Recovery

CONSTANT
  Scenarios   \* records of what a run may start from:
              \*   plans      maps from robots to timed paths that start at 0
              \*   schedules  [failures |-> set of <<t, robot>>, drops |-> set of <<t, cell>>]
              \*   settings   the values of recovery_enabled
              \*   charges    battery levels
              \*   owners     who may hold tasks, NoRobot for none
              \*   progress   how far those tasks may have come
              \*   spares     cells for the robots without a route
              \*   placed     the others stand at the starts of their routes

ASSUME ScenarioAssumption ==
  \A s \in Scenarios :
    /\ \A P \in s.plans : /\ DOMAIN P \subseteq Robots
                          /\ \A r \in DOMAIN P : IsTimedPath(P[r]) /\ P[r].start = 0
    /\ \A e \in s.schedules : /\ e.failures \subseteq Times \X Robots
                               /\ e.drops \subseteq Times \X Cells
    /\ s.settings \subseteq BOOLEAN /\ s.placed \in BOOLEAN
    /\ s.charges \subseteq Nat
    /\ s.owners \subseteq Robots \cup {NoRobot}
    /\ s.progress \subseteq {"ASSIGNED", "IN_PROGRESS", "COMPLETED"}
    /\ s.spares \subseteq Cells

LastTimestep ==
  LET times == {0} \cup {e[1] : e \in failures} \cup {e[1] : e \in drops} IN
  CHOOSE n \in times : \A t \in times : t <= n

(* Tasks are with distinct robots or nobody; a robot without one is IDLE.  *)
SomeAssignment(owners, progress) ==
  \E given \in [Tasks -> owners] :
    /\ \A t, u \in Tasks : t # u /\ given[t] = given[u] => given[t] = NoRobot
    /\ assignedTo = given
    /\ \E made \in [Tasks -> progress] :
         taskStatus = [t \in Tasks |-> IF given[t] = NoRobot THEN "PENDING"
                                       ELSE made[t]]
    /\ holds = [r \in Robots |-> IF \E t \in Tasks : given[t] = r
                                 THEN CHOOSE t \in Tasks : given[t] = r
                                 ELSE NoTask]
    /\ status = [r \in Robots |-> IF holds[r] = NoTask THEN "IDLE" ELSE "ASSIGNED"]

(* Robots stand where a coordinator found them, the spare ones off every   *)
(* route (FleetRun has the others).                                        *)
StandInPlace ==
  \A r \in Driven :
    /\ position[r] = paths[r].at[0]
    /\ \A s \in Robots \ Driven : ~ RouteTouchesCell(paths[r], position[s], 0)

SomeRun ==
  /\ Init
  /\ \E s \in Scenarios :
       /\ paths \in s.plans
       /\ position \in [Robots -> Cells]
       /\ \A q, r \in Robots : position[q] = position[r] => q = r
       /\ \A r \in Robots \ Driven : position[r] \in s.spares
       /\ s.placed => StandInPlace
       /\ \E e \in s.schedules : failures = e.failures /\ drops = e.drops
       /\ limit = LastTimestep + 4 * (Width + Height)
       /\ enabled \in s.settings
       /\ battery \in [Robots -> s.charges]
       /\ \A r \in Robots \ Driven, n \in s.charges : battery[r] >= n
       /\ SomeAssignment(s.owners, s.progress)
  /\ blocked = {}

Spec == SomeRun /\ [][Next]_vars /\ WF_vars(Next)

-----------------------------------------------------------------------------
Modes == {"idle", "running", "reassigning", "rerouting", "replanning", "halted",
          "raised", "done"}
Results == {"none", "ok", "safe_stop", "failed", "plan_rejected", "fleet_not_ready"}

(* Every variable of the run and of the simulator keeps its type. *)
TypeOK ==
  /\ mode \in Modes
  /\ result \in Results
  /\ clock \in Times
  /\ Driven \subseteq Robots
  /\ \A r \in Driven : IsTimedPath(paths[r])
  /\ mode \notin {"idle", "done"} =>
       /\ goals \in [Driven -> Cells]
       /\ DOMAIN trace = Driven
       /\ \A r \in Driven : IsTimedPath(trace[r])
  /\ offline \subseteq Robots /\ stopped \subseteq Robots
  /\ position \in [Robots -> Cells]
  /\ battery \in [Robots -> Nat]
  /\ status \in [Robots -> {"IDLE", "ASSIGNED", "MOVING", "OFFLINE"}]
  /\ holds \in [Robots -> Tasks \cup {NoTask}]
  /\ taskStatus \in [Tasks -> {"PENDING", "ASSIGNED", "IN_PROGRESS", "COMPLETED",
                               "FAILED"}]
  /\ assignedTo \in [Tasks -> Robots \cup {NoRobot}]
  /\ blocked \subseteq Cells
  /\ queue \subseteq Driven
  /\ future \in Tables
  /\ failing \in Robots \cup {NoRobot}
  /\ released \in Tasks \cup {NoTask}
  /\ safeStop \in BOOLEAN

-----------------------------------------------------------------------------
Remaining(r, t) == PositionAt(paths[r], t)

(* No robot failed on a cell it shared.  One under control never does; one *)
(* without a route may, because nobody reserves the cell it stands on.     *)
FailedAlone ==
  \A o \in offline : \A q \in Robots \ {o} : position[q] # position[o]

(* Recovery leaves a "conflict-free continuation": as long as no robot had *)
(* to stop, the routes still to be driven neither meet each other, nor an  *)
(* obstacle, nor a failed robot, through the horizon, however many events  *)
(* were handled (recovery_manager.py:30-32, 551-579).                      *)
ContinuationIsSafe ==
  mode = "running" /\ enabled /\ stopped = {} /\ FailedAlone /\ Driven # {} =>
    \A r \in LiveRobots :
      /\ \A t \in clock .. Horizon :
           /\ Remaining(r, t) \notin blocked
           /\ \A o \in offline : Remaining(r, t) # position[o]
      /\ \A q \in LiveRobots \ {r} :
           /\ \A t \in clock .. Horizon : Remaining(q, t) # Remaining(r, t)
           /\ \A t \in clock .. Horizon - 1 :
                ~ /\ Remaining(q, t) = Remaining(r, t + 1)
                  /\ Remaining(r, t) = Remaining(q, t + 1)

(* What a robot drove is kept and is what its route says: a repair changes *)
(* the future only (dynamic_replanner.py:3-12).                            *)
OnCourse ==
  mode \notin {"idle", "done"} =>
    \A r \in Driven :
      /\ position[r] = Here(r)
      /\ r \in Movers => trace[r].arrival = clock
      /\ paths[r].start = trace[r].start
      /\ \A t \in trace[r].start .. trace[r].arrival : PositionAt(paths[r], t) = trace[r].at[t]

(* A run in which every replan succeeded and no battery ran low is neither *)
(* stopped by the check of a joint step nor left by an exception: "never a *)
(* crash" (recovery_manager.py:666-676, test_fault_recovery.py:164).       *)
RecoveredRunsGoOn ==
  mode \in {"halted", "raised"} =>
    \/ stopped # {} \/ ~ enabled \/ ~ FailedAlone
    \/ \E r \in Movers : battery[r] < Drain

(* A repair is one with the past, safe in the future, and is driven.       *)
RecoveryIsSafe == TypeOK /\ ContinuationIsSafe /\ OnCourse /\ RecoveredRunsGoOn

(* Robot and task agree on every assignment, through release, offer and    *)
(* undo, and no task stays assigned to a robot that failed                 *)
(* (recovery_manager.py:22-24, 397-455).                                   *)
TasksAreServed ==
  mode \in {"running", "done"} =>
    /\ \A t \in Tasks :
         taskStatus[t] = "ASSIGNED" =>
           /\ assignedTo[t] \in Robots
           /\ holds[assignedTo[t]] = t
           /\ enabled => assignedTo[t] \notin offline
    /\ \A r \in Robots :
         holds[r] # NoTask =>
           assignedTo[holds[r]] = r /\ taskStatus[holds[r]] # "PENDING"

(* A failed or stopped robot is never moved again, and no robot is driven  *)
(* onto a failed one (recovery_manager.py:15-21, 606-614).                 *)
KeepsClearOfFailed ==
  \A r \in Robots :
    position'[r] # position[r] =>
      /\ r \notin offline \cup stopped
      /\ \A o \in offline : position'[r] # position[o]

(* "Unaffected robots are never touched" (recovery_manager.py:13-14): a    *)
(* route changes only if the robot failed, was in the way of the event, or *)
(* takes a task over.                                                      *)
OthersKeepTheirRoutes ==
  \A r \in Driven :
    paths'[r] # paths[r] =>
      \/ r \in offline'
      \/ assignedTo' # assignedTo
      \/ \E c \in blocked' \cup {position[o] : o \in offline} :
           RouteTouchesCell(paths[r], c, clock)

(* No step moves a robot that is out, nor one onto it, and none gives a    *)
(* new route to a robot nothing happened to.                               *)
OnlyTheAffectedMove == [][KeepsClearOfFailed /\ OthersKeepTheirRoutes]_vars

(* Success means what its comment says: every robot that did not fail is   *)
(* at its goal, and at no time did two robots under control share a cell   *)
(* or trade cells (recovery_manager.py:787-797).                           *)
SuccessIsHonest ==
  result = "ok" /\ Driven # {} =>
    /\ \A r \in Driven \ offline : position[r] = goals[r]
    /\ \A q, r \in Driven : q # r =>
         /\ \A t \in 0 .. clock : PositionAt(trace[q], t) # PositionAt(trace[r], t)
         /\ \A t \in 0 .. clock - 1 :
              ~ /\ PositionAt(trace[q], t) = PositionAt(trace[r], t + 1)
                /\ PositionAt(trace[r], t) = PositionAt(trace[q], t + 1)

(* Recovery does not get in the way: a fleet that nothing happened to,     *)
(* whose batteries last and whose routes end within the limit of the loop  *)
(* arrives and reports it (test_recovery_manager.py:44).                   *)
UndisturbedRunsArrive ==
  mode = "done" /\ offline = {} /\ blocked = {}
    /\ (\A r \in Driven : battery[r] >= Drain /\ paths[r].arrival <= limit) =>
      result \in {"ok", "plan_rejected", "fleet_not_ready"}

(* The verdict of a run says no more than is true, and no less than is due.*)
VerdictIsRight == SuccessIsHonest /\ UndisturbedRunsArrive

(* run() returns or raises, whatever is scheduled (recovery_manager.py:182).*)
RunEnds == <>(mode \in {"done", "raised"})

-----------------------------------------------------------------------------
(* What the code says and does not keep.                                   *)

(* "if a robot cannot be replanned it stops safely where it is"            *)
(* (recovery_manager.py:15): no robot under control is driven onto another.*)
StopsAreSafe ==
  \A q, r \in Driven : q # r => position[q] # position[r]

-----------------------------------------------------------------------------
(* Why it holds: the inductive invariants of the proofs.                   *)

(* The run has passed pre-flight, with somebody to drive.                  *)
Underway ==
  \/ mode \notin {"idle", "done"}
  \/ mode = "done" /\ result \in {"ok", "safe_stop", "failed"} /\ Driven # {}

ScheduleIsKnown ==
  failures \subseteq Times \X Robots /\ drops \subseteq Times \X Cells /\ limit \in Nat

BeforeTheStart ==
  mode = "idle" =>
    /\ clock = 0 /\ result = "none" /\ ~ safeStop
    /\ offline = {} /\ stopped = {} /\ blocked = {}
    /\ \A r \in Driven : paths[r].start = 0

IsWalk(p) ==
  \A t \in p.start .. p.arrival - 1 : p.at[t] = p.at[t+1] \/ AdjacentTo(p.at[t], p.at[t+1])

(* Routes are walks, begin with what was driven of them, and those of the  *)
(* robots still to be moved end at their goals.                            *)
RoutesAreDriven ==
  Underway =>
    /\ goals \in [Driven -> Cells]
    /\ DOMAIN trace = Driven
    /\ \A r \in Driven :
         /\ IsTimedPath(trace[r])
         /\ IsWalk(paths[r])
         /\ position[r] = Here(r)
         /\ paths[r].start = trace[r].start
         /\ \A t \in trace[r].start .. trace[r].arrival :
              PositionAt(paths[r], t) = trace[r].at[t]
    /\ \A r \in Movers : trace[r].arrival = clock /\ Goal(paths[r]) = goals[r]

(* What is at hand while an event is handled.                              *)
HandlingIsSound ==
  /\ mode \in {"reassigning", "rerouting"} => failing \in offline
  /\ mode = "replanning" =>
       /\ queue \subseteq Movers /\ queue # {}
       /\ \A r \in queue : \E c \in blocked \cup {position[o] : o \in offline} :
            RouteTouchesCell(paths[r], c, clock)

OnlyFailedAreOffline == \A r \in Robots : status[r] = "OFFLINE" => r \in offline

CourseInv ==
  /\ TypeOK
  /\ ScheduleIsKnown
  /\ BeforeTheStart
  /\ RoutesAreDriven
  /\ HandlingIsSound
  /\ OnlyFailedAreOffline

(* The pointers of an assignment, and the task that is between two robots. *)
TaskInv ==
  /\ \A t \in Tasks :
       taskStatus[t] = "ASSIGNED" =>
         /\ assignedTo[t] \in Robots
         /\ holds[assignedTo[t]] = t
         /\ enabled => assignedTo[t] \notin offline
  /\ \A r \in Robots :
       holds[r] # NoTask =>
         assignedTo[holds[r]] = r /\ taskStatus[holds[r]] # "PENDING"
  /\ mode = "reassigning" =>
       /\ released \in Tasks
       /\ taskStatus[released] = "PENDING" /\ assignedTo[released] = NoRobot

(* The robots whose routes stay as they are: all but those to be replanned.*)
Settled ==
  {r \in LiveRobots :
     /\ mode = "replanning" => r \notin queue
     /\ mode \in {"reassigning", "rerouting"} =>
          ~ RouteTouchesCell(paths[r], position[failing], clock)}

ClearRoute(r) ==
  \A t \in clock .. Horizon :
    Remaining(r, t) \notin blocked /\ \A o \in offline : Remaining(r, t) # position[o]

ClearOfEachOther(q, r) ==
  /\ \A t \in clock .. Horizon : Remaining(q, t) # Remaining(r, t)
  /\ \A t \in clock .. Horizon - 1 :
       ~ (Remaining(q, t) = Remaining(r, t + 1) /\ Remaining(r, t) = Remaining(q, t + 1))

SettledRoutesAreSafe ==
  \A r \in Settled :
    ClearRoute(r) /\ \A q \in Settled \ {r} : ClearOfEachOther(q, r)

(* A robot on the cell of a failed one is there to stay.                   *)
SharersStay ==
  \A r \in Settled, o \in offline :
    position[r] = position[o] =>
      \A t \in clock .. Horizon : Remaining(r, t) = position[r]

(* The table of a replan holds the failed robots' cells and the routes     *)
(* that stay.                                                              *)
Holds(tbl, r) ==
  /\ \A t \in clock .. Horizon : <<Remaining(r, t), t, r>> \in tbl.vertices
  /\ \A t \in clock .. Horizon - 1 :
       Remaining(r, t) # Remaining(r, t + 1) =>
         <<Remaining(r, t), Remaining(r, t + 1), t, r>> \in tbl.edges

Pins(tbl) ==
  \A o \in offline, t \in clock .. Horizon : <<position[o], t, o>> \in tbl.vertices

TableIsCurrent ==
  mode = "replanning" =>
    /\ Pins(future)
    /\ FailedAlone => \A r \in Settled : Holds(future, r)

Handling == mode \in {"running", "reassigning", "rerouting", "replanning"}

SafeInv ==
  /\ enabled /\ stopped = {} /\ Handling =>
       /\ FailedAlone => SettledRoutesAreSafe
       /\ SharersStay
       /\ TableIsCurrent
  /\ RecoveredRunsGoOn

(* As long as nothing happens the plan that passed pre-flight is driven.   *)
QuietInv ==
  offline = {} /\ blocked = {} =>
    /\ mode \in {"idle", "running", "halted", "done"}
    /\ stopped = {} /\ ~ safeStop
    /\ mode # "idle" /\ Underway =>
         /\ ~ HasProblems(paths, {})
         /\ mode = "halted" => \E r \in Driven : battery[r] < Drain
    /\ UndisturbedRunsArrive

VerdictInv ==
  /\ result # "none" => mode = "done"
  /\ SuccessIsHonest
  /\ QuietInv
=============================================================================
