-------------------------- MODULE SpaceTimePlanner --------------------------
(***************************************************************************)
(* Planning one robot's timed route around a reservation table             *)
(* (robotics/coordination/space_time_planner.py): the cheap rejections,    *)
(* A-star over (cell, timestep) states one loop iteration at a time, and   *)
(* the walk back along came_from that rebuilds the route.                  *)
(*                                                                         *)
(* Every way of reaching a state <<cell, t>> costs t - start_time, so the  *)
(* comparison with best_g in _relax accepts a state exactly when it has    *)
(* not been generated before; a state is therefore pushed once, and the    *)
(* `state in closed` test never fires.  The table is only read.            *)
(***************************************************************************)
EXTENDS ReservationTable

VARIABLES
  blocked,    \* cells under an obstacle of either kind
  table,      \* the reservations of the robots planned before
  request,    \* the arguments of plan(): robot, start, goal, time
  phase,      \* where the call is
  frontier,   \* the heap: entries [cell, t, ticket]
  tickets,    \* itertools.count(): entries pushed before this expansion
  cameFrom,   \* predecessor of every generated state but the first
  chain,      \* the route rebuilt so far, from its end backwards
  outcome     \* "none", "found", or the reason the call failed

searchVars == <<frontier, tickets, cameFrom, chain>>
plannerVars == <<blocked, table, request, phase, searchVars, outcome>>

States == Cells \X Times

NoChain == [start |-> 0, arrival |-> 0, at |-> [t \in 1 .. 0 |-> <<0, 0>>]]

-----------------------------------------------------------------------------
(* The rejections that need no search, in the order plan() tries them.     *)

IsTraversable(c) == c \in Cells \ blocked

(* The smallest arrival time from which the goal stays free to the horizon.*)
HoldableFrom(h) ==
  \A t \in h .. Horizon : IsVertexFree(table, request.goal, t, request.robot)

EarliestGoalHold ==
  CHOOSE h \in request.time .. Horizon + 1 :
    /\ HoldableFrom(h)
    /\ \A g \in request.time .. h - 1 : ~ HoldableFrom(g)

Rejection(reason) ==
  CASE reason = "start_out_of_bounds" -> request.start \notin Cells
    [] reason = "goal_out_of_bounds"  -> request.goal \notin Cells
    [] reason = "start_blocked"       -> ~ IsTraversable(request.start)
    [] reason = "goal_blocked"        -> ~ IsTraversable(request.goal)
    [] reason = "start_reserved" ->
         ~ IsVertexFree(table, request.start, request.time, request.robot)
    [] reason = "unreachable" ->
         ~ SpatiallyReachable(request.start, request.goal, blocked)
    [] reason = "goal_held" -> EarliestGoalHold > Horizon

Rejections == <<"start_out_of_bounds", "goal_out_of_bounds", "start_blocked",
                "goal_blocked", "start_reserved", "unreachable", "goal_held">>

Outcomes ==
  {"none", "found", "horizon"} \cup {Rejections[i] : i \in DOMAIN Rejections}

(* plan() returns at the first rejection that applies.                     *)
Reject ==
  /\ phase = "called"
  /\ \E i \in DOMAIN Rejections :
       /\ Rejection(Rejections[i])
       /\ \A j \in 1 .. i - 1 : ~ Rejection(Rejections[j])
       /\ outcome' = Rejections[i]
  /\ phase' = "done"
  /\ UNCHANGED <<blocked, table, request, searchVars>>

-----------------------------------------------------------------------------
(* The search.                                                             *)

StartState == <<request.start, request.time>>

Generated == {StartState} \cup DOMAIN cameFrom

OpenSearch ==
  /\ phase = "called"
  /\ \A i \in DOMAIN Rejections : ~ Rejection(Rejections[i])
  /\ phase' = "search"
  /\ frontier' = {[cell |-> request.start, t |-> request.time, ticket |-> 0]}
  /\ tickets' = 1
  /\ cameFrom' = [s \in {} |-> s]
  /\ chain' = NoChain
  /\ UNCHANGED <<blocked, table, request, outcome>>

HValue(e) == ManhattanDistance(e.cell, request.goal)
FValue(e) == (e.t - request.time) + HValue(e)

(* heapq order on (f, h, ticket).                                          *)
PopsBefore(a, b) ==
  \/ FValue(a) < FValue(b)
  \/ /\ FValue(a) = FValue(b)
     /\ \/ HValue(a) < HValue(b)
        \/ HValue(a) = HValue(b) /\ a.ticket <= b.ticket

Popped(e) == e \in frontier /\ \A o \in frontier : PopsBefore(e, o)

(* Seeded fault: stops at the goal at any time.                          *)
AtGoalAnyTime(e) == e.cell = request.goal

AtGoal(e) == e.cell = request.goal /\ e.t >= EarliestGoalHold

(* WAIT, then a MOVE to each walkable neighbour.                           *)
Successors(e) ==
  {<<c, e.t + 1>> : c \in
     {n \in {e.cell} \cup Neighbors(e.cell, blocked) :
        /\ IsTraversable(n)
        /\ IsMoveAllowed(table, e.cell, n, e.t, request.robot)}}

(* The order in which one expansion pushes: the WAIT, then Direction order.*)
PushOrder(from, to) ==
  IF from = to THEN 0
  ELSE CHOOSE i \in DOMAIN Direction : ApplyTo(Direction[i], from) = to

PushesPerExpansion == 5

Arrive ==
  /\ phase = "search"
  /\ \E e \in frontier :
       /\ Popped(e)
       /\ AtGoal(e)
       /\ chain' = [start |-> e.t, arrival |-> e.t,
                    at |-> [t \in {e.t} |-> e.cell]]
       /\ frontier' = frontier \ {e}
  /\ phase' = "reconstruct"
  /\ UNCHANGED <<blocked, table, request, tickets, cameFrom, outcome>>

(* Seeded fault: a state at the horizon is looked at, not popped.        *)
CutOffPeeks ==
  /\ phase = "search"
  /\ \E e \in frontier : Popped(e) /\ ~ AtGoal(e) /\ e.t >= Horizon
  /\ UNCHANGED plannerVars

(* A state at the horizon is dropped; any other is expanded.               *)
CutOff ==
  /\ phase = "search"
  /\ \E e \in frontier :
       /\ Popped(e)
       /\ ~ AtGoal(e)
       /\ e.t >= Horizon
       /\ frontier' = frontier \ {e}
  /\ UNCHANGED <<blocked, table, request, phase, tickets, cameFrom, chain,
                 outcome>>

Expand ==
  /\ phase = "search"
  /\ \E e \in frontier :
       LET fresh == Successors(e) \ Generated IN
       /\ Popped(e)
       /\ ~ AtGoal(e)
       /\ e.t < Horizon
       /\ cameFrom' = [s \in DOMAIN cameFrom \cup fresh |->
                         IF s \in fresh THEN <<e.cell, e.t>> ELSE cameFrom[s]]
       /\ frontier' = (frontier \ {e}) \cup
            {[cell |-> s[1], t |-> s[2],
              ticket |-> tickets + PushOrder(e.cell, s[1])] : s \in fresh}
       /\ tickets' = tickets + PushesPerExpansion
  /\ UNCHANGED <<blocked, table, request, phase, chain, outcome>>

GiveUp ==
  /\ phase = "search"
  /\ frontier = {}
  /\ outcome' = "horizon"
  /\ phase' = "done"
  /\ UNCHANGED <<blocked, table, request, searchVars>>

-----------------------------------------------------------------------------
(* _reconstruct: follow came_from until the start state.                   *)

Current == <<chain.at[chain.start], chain.start>>

TraceBack ==
  /\ phase = "reconstruct"
  /\ Current # StartState
  /\ LET previous == cameFrom[Current] IN
       chain' = [start   |-> previous[2],
                 arrival |-> chain.arrival,
                 at      |-> [t \in previous[2] .. chain.arrival |->
                                IF t = previous[2] THEN previous[1]
                                ELSE chain.at[t]]]
  /\ UNCHANGED <<blocked, table, request, phase, frontier, tickets, cameFrom,
                 outcome>>

ReturnRoute ==
  /\ phase = "reconstruct"
  /\ Current = StartState
  /\ outcome' = "found"
  /\ phase' = "done"
  /\ UNCHANGED <<blocked, table, request, searchVars>>

PlannerStep ==
  \/ Reject \/ OpenSearch
  \/ Arrive \/ CutOff \/ Expand \/ GiveUp
  \/ TraceBack \/ ReturnRoute

(* A call of plan() for robot r.                                           *)
Call(r, start, goal, time) ==
  /\ request' = [robot |-> r, start |-> start, goal |-> goal, time |-> time]
  /\ phase' = "called"
  /\ outcome' = "none"
  /\ frontier' = {}
  /\ tickets' = 0
  /\ cameFrom' = [s \in {} |-> s]
  /\ chain' = NoChain
=============================================================================
