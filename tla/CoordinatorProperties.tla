----------------------- MODULE CoordinatorProperties ------------------------
(***************************************************************************)
(* What prioritized planning promises, and the reference its search is     *)
(* compared with.                                                          *)
(***************************************************************************)
EXTENDS Coordinator, ConflictCheck

Phases == {"idle", "called", "search", "reconstruct", "done"}
Stages == {"validate", "planning", "planned", "refused", "raised"}

PlannerTypeOK ==
  /\ blocked \in SUBSET Cells
  /\ table \in Tables
  /\ request \in [robot : Robots, start : Cells, goal : Int \X Int, time : Times]
  /\ phase \in Phases
  /\ frontier \in SUBSET [cell : Cells, t : Times, ticket : Nat]
  /\ tickets \in Nat
  /\ DOMAIN cameFrom \in SUBSET States
  /\ \A s \in DOMAIN cameFrom : cameFrom[s] \in States
  /\ chain = NoChain \/ IsTimedPath(chain)
  /\ outcome \in Outcomes

FleetTypeOK ==
  /\ stage \in Stages
  /\ starts \in [Robots -> Cells]
  /\ goals \in [Robots -> Int \X Int]
  /\ order \in Seq(Robots)
  /\ turn \in 1 .. Len(order)
  /\ Planned \in SUBSET Robots
  /\ \A r \in Planned : IsTimedPath(paths[r])
  /\ failed \in SUBSET Robots

(* Every variable of the planner and of the loop around it keeps the type  *)
(* the classes give it.                                                    *)
TypeOK == PlannerTypeOK /\ FleetTypeOK

-----------------------------------------------------------------------------
(* Planning hands out routes one by one, each clear of all handed out      *)
(* before, and takes none back (coordinator.py:23-28).                     *)
Promise == INSTANCE PrioritizedPlanning

KeepsThePromise == Promise!Spec

(* The routes handed out never meet, through the horizon: a robot planned  *)
(* late neither crosses an earlier one nor the cell it parks on            *)
(* (coordinator.py:23-28, reservation_table.py:104-115).                   *)
ConflictFree ==
  \A q, r \in Planned : q # r => Promise!Compatible(paths[q], paths[r])

(* A route starts where its robot stands at time 0, ends at its goal, and  *)
(* walks: every step waits or goes to a walkable adjacent cell.            *)
RoutesAreWalks ==
  \A r \in Planned : LET p == paths[r] IN
    /\ p.start = 0 /\ p.at[0] = starts[r] /\ Goal(p) = goals[r]
    /\ \A t \in 0 .. p.arrival : p.at[t] \notin blocked
    /\ \A t \in 0 .. p.arrival - 1 :
         p.at[t+1] = p.at[t] \/ AdjacentTo(p.at[t], p.at[t+1])

(* What planning hands out passes the replay of conflicts.py, which knows  *)
(* nothing of reservations or priorities (conflicts.py:1-22).              *)
PassesTheCheck == ~ HasProblems(paths, blocked)

(* reserve_timed_path never meets a foreign reservation, so plan() never   *)
(* lets a ValueError out (coordinator.py:130-133).                         *)
NeverRaises == stage # "raised"

(* The table holds the routes handed out and nothing else: a robot that    *)
(* could not be planned leaves no reservation behind (coordinator.py:25).  *)
TableHoldsThePlans ==
  /\ table.vertices = UNION {{<<k[1], k[2], r>> : k \in PathVertices(paths[r])} :
                              r \in Planned}
  /\ table.edges = UNION {{<<k[1], k[2], k[3], r>> : k \in PathEdges(paths[r])} :
                           r \in Planned}

-----------------------------------------------------------------------------
(* Reference for the search: the cells the robot can occupy at each time,  *)
(* computed forwards layer by layer.                                       *)

Layers ==
  LET layer[t \in Times] ==
        IF t < request.time THEN {}
        ELSE IF t = request.time THEN {request.start}
        ELSE LET before == layer[t-1] IN
             {n \in Cells \ blocked :
                \E c \in before :
                  /\ n = c \/ AdjacentTo(c, n)
                  /\ IsMoveAllowed(table, c, n, t - 1, request.robot)}
  IN  layer

ParkingTimes ==
  LET layer == Layers IN
  {t \in request.time .. Horizon : request.goal \in layer[t] /\ HoldableFrom(t)}

(* A-star is exact: it finds a route whenever one fits in the horizon and  *)
(* the route arrives as early as any does; when it gives up, or plan()     *)
(* refuses to search, there is none (space_time_planner.py:80-217).        *)
SearchIsExact ==
  stage = "planning" /\ phase = "done" =>
    LET times == ParkingTimes IN
    IF outcome = "found"
    THEN chain.arrival \in times /\ \A t \in times : chain.arrival <= t
    ELSE IF outcome \in {"unreachable", "goal_held", "horizon"}
    THEN times = {}
    ELSE TRUE

(* When plan() returns, every robot of the request has a route or is on    *)
(* the list of failures, never both (coordinator.py:118).                  *)
EveryRobotAnswered ==
  stage = "planned" => Planned \cup failed = Robots /\ Planned \cap failed = {}

(* A plan may be driven: its routes lead from the robots to their goals,   *)
(* clear of obstacles and of each other, and an independent replay agrees. *)
PlansAreSafe == RoutesAreWalks /\ ConflictFree /\ PassesTheCheck

(* The books agree with the plan at every moment: reserving never raises,  *)
(* the table holds what was handed out, and every robot is answered.       *)
BooksMatchThePlan == NeverRaises /\ TableHoldsThePlans /\ EveryRobotAnswered

-----------------------------------------------------------------------------
(* Why it holds: the inductive invariant of the proofs.                    *)

(* From cell c at t to cell d at t + 1, as the search allows it.           *)
LegalStep(c, d, t) ==
  /\ d = c \/ AdjacentTo(c, d)
  /\ d \in Cells \ blocked
  /\ IsMoveAllowed(table, c, d, t, request.robot)

(* came_from is a forest of legal steps rooted in the start state.         *)
SearchTree ==
  stage = "planning" /\ phase \in {"search", "reconstruct"} =>
    /\ request.start \in Cells \ blocked
    /\ IsVertexFree(table, request.start, request.time, request.robot)
    /\ \A e \in frontier : <<e.cell, e.t>> \in Generated
    /\ \A s \in DOMAIN cameFrom :
         /\ cameFrom[s] \in Generated
         /\ s[2] = cameFrom[s][2] + 1
         /\ LegalStep(cameFrom[s][1], s[1], cameFrom[s][2])

(* The part of the route rebuilt so far is a legal suffix.                 *)
LegalSuffix ==
  /\ IsTimedPath(chain)
  /\ Goal(chain) = request.goal
  /\ HoldableFrom(chain.arrival)
  /\ \A t \in chain.start .. chain.arrival - 1 :
       LegalStep(chain.at[t], chain.at[t+1], t)

SuffixIsLegal ==
  /\ stage = "planning" /\ phase = "reconstruct" =>
       LegalSuffix /\ Current \in Generated
  /\ stage = "planning" /\ phase = "done" /\ outcome = "found" =>
       /\ LegalSuffix
       /\ chain.start = request.time
       /\ chain.at[chain.start] = request.start
       /\ request.start \in Cells \ blocked
       /\ IsVertexFree(table, request.start, request.time, request.robot)

(* Robots are answered in the order given.                                 *)
TurnOrder ==
  /\ stage \in {"validate", "refused"} => Planned = {} /\ failed = {}
  /\ stage = "planning" =>
       /\ IsPermutation(order)
       /\ phase # "idle"
       /\ request.robot = order[turn]
       /\ request.start = starts[order[turn]]
       /\ request.goal = goals[order[turn]]
       /\ Planned \cup failed = {order[i] : i \in 1 .. turn - 1}
  /\ stage \in {"validate", "planning"} => request.time = 0
  /\ stage = "validate" => turn = 1 /\ phase = "idle"

(* A robot is answered once, and a plan is over when all of them are.      *)
AnsweredOnce ==
  /\ Planned \cap failed = {}
  /\ EveryRobotAnswered

(* A state off the heap is no place to stop, and every step from it has    *)
(* been generated.                                                         *)
Explored(s) ==
  /\ ~ (s[1] = request.goal /\ s[2] >= EarliestGoalHold)
  /\ s[2] < Horizon =>
       \A d \in Cells : LegalStep(s[1], d, s[2]) => <<d, s[2] + 1>> \in Generated

SearchIsThorough ==
  stage = "planning" /\ phase = "search" =>
    \A s \in Generated : Explored(s) \/ \E e \in frontier : s = <<e.cell, e.t>>

(* The route being rebuilt arrives as early as any; without one none fits. *)
ArrivesFirst ==
  stage = "planning" /\ (phase = "reconstruct" \/ (phase = "done" /\ outcome = "found"))
    => \A t \in ParkingTimes : chain.arrival <= t

GivesUpRightly ==
  /\ stage = "planning" /\ phase \in {"called", "search", "reconstruct"}
       => outcome = "none"
  /\ stage = "planning" /\ phase = "done"
        /\ outcome \in {"unreachable", "goal_held", "horizon"}
       => ParkingTimes = {}

SearchInv == SearchIsThorough /\ ArrivesFirst /\ GivesUpRightly

IInv ==
  /\ TypeOK
  /\ TurnOrder
  /\ SearchTree
  /\ SuffixIsLegal
  /\ TableHoldsThePlans
  /\ RoutesAreWalks
  /\ ConflictFree
  /\ NeverRaises
=============================================================================
