----------------------------- MODULE Allocation -----------------------------
(***************************************************************************)
(* One allocation cycle: pricing the pairings (allocation/feasibility.py   *)
(* and cost_estimator.py), the two allocators (greedy_allocator.py, task   *)
(* by task, and cp_sat_allocator.py, up to its solver) and the result they *)
(* build (allocation_result.py).  An allocator proposes and changes        *)
(* neither robots, tasks nor floor; Simulator and FleetService commit.     *)
(*                                                                         *)
(* Ids are numbers in the order of the ids.  The solver is external: when  *)
(* it says OPTIMAL the values it returns maximise the objective it was     *)
(* given, when it says FEASIBLE they satisfy the constraints.              *)
(***************************************************************************)
EXTENDS Grid, FiniteSets, FiniteSetsExt

CONSTANTS
  Robots, Tasks,   \* ids
  RobotKinds,      \* the robots there may be, as records
  TaskKinds,       \* the tasks there may be
  Floors           \* the sets of blocked cells there may be

ASSUME AllocationAssumption ==
  /\ Robots \subseteq Nat /\ Tasks \subseteq Nat
  /\ IsFiniteSet(Robots) /\ IsFiniteSet(Tasks)
  /\ RobotKinds \subseteq [cell : Cells, status : {"idle", "moving", "offline"},
                           holds : BOOLEAN, capacity : Nat, battery : Nat, drain : Nat]
  /\ TaskKinds \subseteq [pickup : Cells, dropoff : Cells, weight : Nat,
                          priority : 1 .. 4, status : {"pending", "assigned"}]
  /\ Floors \subseteq SUBSET Cells

VARIABLES
  blocked,   \* the floor
  robot,     \* the robots as the cycle finds them
  task,      \* the tasks
  phase,     \* where the call stands: "price", "greedy", "solve", "done"
  price,     \* the candidate pairs <<r, t>>, each with its estimate
  todo,      \* greedy: the tasks not looked at yet
  chosen,    \* the pairs chosen so far
  result     \* what the call returned

cycle == <<blocked, robot, task>>
vars == <<blocked, robot, task, phase, price, todo, chosen, result>>

-----------------------------------------------------------------------------
(* Pricing.                                                                *)

NoRoute == -1

(* The planner's answer; the estimator's cache only spares the second call *)
(* for a pair of cells, the floor being the same for the whole cycle.      *)
PathCost(a, b) ==
  LET steps == StepsFrom(a, blocked)
  IN IF {a, b} \cap blocked = {} /\ b \in DOMAIN steps THEN steps[b] ELSE NoRoute

Estimate(r, t) == [toPickup |-> PathCost(robot[r].cell, task[t].pickup),
                   delivery |-> PathCost(task[t].pickup, task[t].dropoff)]

IsAvailable(r) == robot[r].status = "idle" /\ ~ robot[r].holds
IsPending(t) == task[t].status = "pending"
CanCarry(r, t) == task[t].weight <= robot[r].capacity

(* Without a drain the charge pays for any route.                          *)
IsBatteryFeasible(r, moves) == moves * robot[r].drain <= robot[r].battery

IsCandidate(r, t) ==
  /\ IsAvailable(r) /\ IsPending(t)
  /\ CanCarry(r, t)
  /\ LET cost == Estimate(r, t) IN
       /\ cost.toPickup # NoRoute /\ cost.delivery # NoRoute
       /\ IsBatteryFeasible(r, cost.toPickup + cost.delivery)

(* What the allocators work with from here on.                             *)
Feasible == DOMAIN price
TotalCost(p) == price[p].toPickup + price[p].delivery

PendingTasks == {t \in Tasks : IsPending(t)}

(* Seeded fault: the least urgent first.                                 *)
CalmFirst(t, u) == \/ task[t].priority < task[u].priority
                   \/ task[t].priority = task[u].priority /\ t < u

(* The order of the pending tasks: most urgent first, then by id.          *)
Before(t, u) == \/ task[t].priority > task[u].priority
                \/ task[t].priority = task[u].priority /\ t < u

BuildCandidatePairs ==
  /\ phase = "price"
  /\ LET pairs == {p \in Robots \X Tasks : IsCandidate(p[1], p[2])}
     IN price' = [p \in pairs |-> Estimate(p[1], p[2])]
  /\ todo' = PendingTasks
  /\ phase' \in {"greedy", "solve"}
  /\ UNCHANGED <<blocked, robot, task, chosen, result>>

-----------------------------------------------------------------------------
(* The result.                                                             *)

NoResult == [status |-> "none", success |-> FALSE, pairs |-> {}, unassigned |-> {},
             total |-> 0]

SumOfCosts(pairs) == MapThenSumSet(TotalCost, pairs)

BuildResult(status, success, pairs) ==
  [status |-> status, success |-> success, pairs |-> pairs,
   unassigned |-> {t \in PendingTasks : \A p \in pairs : p[2] # t},
   total |-> SumOfCosts(pairs)]

Return(status, success, pairs) ==
  /\ result' = BuildResult(status, success, pairs)
  /\ phase' = "done"
  /\ UNCHANGED <<blocked, robot, task, price, todo>>

-----------------------------------------------------------------------------
(* Greedy: the tasks in their order, each to its cheapest free robot.      *)

UsedRobots == {p[1] : p \in chosen}

FreeRobotsFor(t) == {r \in Robots : <<r, t>> \in Feasible /\ r \notin UsedRobots}

Cheaper(r, q, t) ==
  \/ TotalCost(<<r, t>>) < TotalCost(<<q, t>>)
  \/ TotalCost(<<r, t>>) = TotalCost(<<q, t>>) /\ r < q

IsCheapestFree(r, t) ==
  /\ r \in FreeRobotsFor(t)
  /\ \A q \in FreeRobotsFor(t) \ {r} : Cheaper(r, q, t)

GreedyStep ==
  \E t \in todo :
    /\ phase = "greedy"
    /\ \A u \in todo \ {t} : Before(t, u)
    /\ todo' = todo \ {t}
    /\ \/ \E r \in Robots : IsCheapestFree(r, t) /\ chosen' = chosen \cup {<<r, t>>}
       \/ FreeRobotsFor(t) = {} /\ UNCHANGED chosen
    /\ UNCHANGED <<blocked, robot, task, phase, price, result>>

GreedyReturn ==
  /\ phase = "greedy" /\ todo = {}
  /\ Return("GREEDY", TRUE, chosen)
  /\ UNCHANGED chosen

-----------------------------------------------------------------------------
(* CP-SAT: the model handed to the solver.                                 *)

(* Seeded fault: the constraint of one task per robot is missing.        *)
TasksOnce(pairs) == \A p, q \in pairs : p # q => p[2] # q[2]

(* (C1) and (C2).                                                          *)
IsMatching(pairs) == \A p, q \in pairs : p # q => p[1] # q[1] /\ p[2] # q[2]

(* The order in which the pairs are created.                               *)
CreatedBefore(p, q) == p[1] < q[1] \/ (p[1] = q[1] /\ Before(p[2], q[2]))
Index(p) == Cardinality({q \in Feasible : CreatedBefore(q, p)})

(* Seeded fault: the index is not scaled away.                           *)
UnitScale == 1

Scale == Cardinality(Feasible) * Cardinality(Feasible) + 1

EffectiveCost(p) == TotalCost(p) * Scale + Index(p)

Reward == MapThenSumSet(EffectiveCost, Feasible) + 1

(* The sum over the pairs of Reward - EffectiveCost.                       *)
Objective(pairs) ==
  Cardinality(pairs) * Reward - MapThenSumSet(EffectiveCost, pairs)

Allowed == {m \in SUBSET Feasible : IsMatching(m)}

Optima ==
  LET best == Max({Objective(m) : m \in Allowed})
  IN {m \in Allowed : Objective(m) = best}

NoPairs ==
  /\ phase = "solve" /\ Feasible = {}
  /\ Return("OPTIMAL", TRUE, {})
  /\ UNCHANGED chosen

Solve ==
  /\ phase = "solve" /\ Feasible # {}
  /\ \E m \in Allowed :
       /\ chosen' = m
       /\ \/ m \in Optima /\ Return("OPTIMAL", TRUE, m)
          \/ Return("FEASIBLE", TRUE, m)

(* No solution within the time limit.                                      *)
GiveUp ==
  /\ phase = "solve" /\ Feasible # {}
  /\ Return("UNKNOWN", FALSE, {})
  /\ UNCHANGED chosen

-----------------------------------------------------------------------------
Init ==
  /\ blocked \in Floors
  /\ robot \in [Robots -> RobotKinds] /\ task \in [Tasks -> TaskKinds]
  /\ \A r \in Robots : robot[r].cell \notin blocked
  /\ phase = "price"
  /\ price = << >> /\ todo = {} /\ chosen = {}
  /\ result = NoResult

Greedy == GreedyStep \/ GreedyReturn
CpSat == NoPairs \/ Solve \/ GiveUp
Next == BuildCandidatePairs \/ Greedy \/ CpSat

Spec == Init /\ [][Next]_vars
=============================================================================
