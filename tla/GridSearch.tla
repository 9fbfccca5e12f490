----------------------------- MODULE GridSearch -----------------------------
(***************************************************************************)
(* The single-robot planners (planning/dijkstra.py and planning/astar.py), *)
(* which share everything but the order of their frontier: the check of    *)
(* the request, the loop pop by pop with its stale entries, the relaxation *)
(* of the neighbours, and the walk back along came_from                    *)
(* (planning/path_result.py).  Nothing moves while a planner runs.         *)
(***************************************************************************)
EXTENDS Grid, FiniteSets, Sequences, Functions

CONSTANTS
  OffTheFloor,   \* positions outside the warehouse, as a request may name
  Floors         \* the sets of cells under obstacles there may be

ASSUME SearchAssumption == OffTheFloor \cap Cells = {} /\ Floors \subseteq SUBSET Cells

VARIABLES
  blocked,     \* the cells under an obstacle
  call,        \* the arguments: planner, start, goal
  phase,       \* "idle", "called", "search", "rebuild", "answered"
  frontier,    \* the heap: entries [cell, g, ticket]
  tickets,     \* itertools.count()
  gScore,      \* best_cost: cell -> cheapest cost found so far
  cameFrom,    \* cell -> the cell it is best reached from
  finalized,   \* cells popped for good, each of them one node expanded
  path,        \* the route, rebuilt from its end
  answer       \* what the planner returned

searchVars == <<call, phase, frontier, tickets, gScore, cameFrom, finalized, path,
                answer>>

Planners == {"dijkstra", "astar"}

NoCall == [planner |-> "dijkstra", start |-> <<0, 0>>, goal |-> <<0, 0>>]

IsWalkable(c) == c \in Cells \ blocked

NothingAsked ==
  /\ call = NoCall /\ phase = "idle"
  /\ frontier = {} /\ tickets = 0
  /\ gScore = << >> /\ cameFrom = << >> /\ finalized = {}
  /\ path = << >> /\ answer = "none"

(* A caller asks for a route.                                              *)
Ask(planner, start, goal) ==
  /\ phase = "idle"
  /\ call' = [planner |-> planner, start |-> start, goal |-> goal]
  /\ phase' = "called"
  /\ UNCHANGED <<frontier, tickets, gScore, cameFrom, finalized, path, answer>>

Answer(what, route) ==
  /\ phase' = "answered" /\ answer' = what /\ path' = route
  /\ UNCHANGED <<call, frontier, tickets, gScore, cameFrom, finalized>>

-----------------------------------------------------------------------------
(* Before the search, in the order of check_planning_request and plan().   *)

Refuse ==
  /\ phase = "called"
  /\ \/ {call.start, call.goal} \cap OffTheFloor # {} /\ Answer("raised", << >>)
     \/ /\ {call.start, call.goal} \subseteq Cells
        /\ \/ ~ IsWalkable(call.start) /\ Answer("start_blocked", << >>)
           \/ /\ IsWalkable(call.start) /\ ~ IsWalkable(call.goal)
              /\ Answer("goal_blocked", << >>)

AlreadyThere ==
  /\ phase = "called" /\ call.start = call.goal /\ IsWalkable(call.start)
  /\ Answer("found", <<call.start>>)

Open ==
  /\ phase = "called" /\ call.start # call.goal
  /\ IsWalkable(call.start) /\ IsWalkable(call.goal)
  /\ phase' = "search"
  /\ gScore' = [c \in {call.start} |-> 0]
  /\ frontier' = {[cell |-> call.start, g |-> 0, ticket |-> 0]}
  /\ tickets' = 1
  /\ UNCHANGED <<call, cameFrom, finalized, path, answer>>

-----------------------------------------------------------------------------
(* The search.                                                             *)

(* Dijkstra sorts by g alone, which is A* with an estimate of zero.        *)
Heuristic(c) ==
  IF call.planner = "astar" THEN ManhattanDistance(c, call.goal) ELSE 0

(* Seeded fault: A* sorts by what it has spent, nearest the goal last.   *)
SpentFirst(e) == IF call.planner = "astar" THEN e.g - Heuristic(e.cell) ELSE e.g

Priority(e) == e.g + Heuristic(e.cell)

(* heapq's order of (f, h, insertion order).                               *)
PopsBefore(a, b) ==
  \/ Priority(a) < Priority(b)
  \/ /\ Priority(a) = Priority(b)
     /\ \/ Heuristic(a.cell) < Heuristic(b.cell)
        \/ Heuristic(a.cell) = Heuristic(b.cell) /\ a.ticket <= b.ticket

Popped(e) == e \in frontier /\ \A o \in frontier : PopsBefore(e, o)

(* Seeded fault: a stale entry is looked at, not popped.                 *)
LeaveStale ==
  /\ phase = "search"
  /\ \E e \in frontier : Popped(e) /\ e.cell \in finalized
  /\ UNCHANGED searchVars

DropStale ==
  /\ phase = "search"
  /\ \E e \in frontier :
       Popped(e) /\ e.cell \in finalized /\ frontier' = frontier \ {e}
  /\ UNCHANGED <<call, phase, tickets, gScore, cameFrom, finalized, path, answer>>

WalkableNeighbours(c) == Neighbors(c, blocked)

(* The neighbours that are cheaper through c than by any way found before. *)
Improved(c) ==
  {n \in WalkableNeighbours(c) \ finalized :
     n \in DOMAIN gScore => gScore[c] + 1 < gScore[n]}

(* Entries are pushed in the order of the directions.                      *)
PushOrder(from, to) ==
  CHOOSE i \in DOMAIN Direction : ApplyTo(Direction[i], from) = to

Expand ==
  /\ phase = "search"
  /\ \E e \in frontier :
       /\ Popped(e) /\ e.cell \notin finalized /\ e.cell # call.goal
       /\ finalized' = finalized \cup {e.cell}
       /\ LET better == Improved(e.cell) IN
          /\ gScore' = [c \in DOMAIN gScore \cup better |->
                          IF c \in better THEN gScore[e.cell] + 1 ELSE gScore[c]]
          /\ cameFrom' = [c \in DOMAIN cameFrom \cup better |->
                            IF c \in better THEN e.cell ELSE cameFrom[c]]
          /\ frontier' = (frontier \ {e}) \cup
               {[cell |-> c, g |-> gScore[e.cell] + 1,
                 ticket |-> tickets + PushOrder(e.cell, c)] : c \in better}
       /\ tickets' = tickets + Len(Direction)
  /\ UNCHANGED <<call, phase, path, answer>>

(* The goal is popped: walk back from it.                                  *)
Arrive ==
  /\ phase = "search"
  /\ \E e \in frontier :
       /\ Popped(e) /\ e.cell \notin finalized /\ e.cell = call.goal
       /\ finalized' = finalized \cup {e.cell}
       /\ frontier' = frontier \ {e}
  /\ phase' = "rebuild"
  /\ path' = <<call.goal>>
  /\ UNCHANGED <<call, tickets, gScore, cameFrom, answer>>

Exhausted ==
  /\ phase = "search" /\ frontier = {}
  /\ Answer("unreachable", << >>)

(* Seeded fault: the start is left out.                                  *)
StopsBefore == cameFrom[Head(path)] = call.start

IsRebuilt == Head(path) = call.start

TraceBack ==
  /\ phase = "rebuild" /\ ~ IsRebuilt
  /\ path' = <<cameFrom[Head(path)]>> \o path
  /\ UNCHANGED <<call, phase, frontier, tickets, gScore, cameFrom, finalized, answer>>

ReturnRoute ==
  /\ phase = "rebuild" /\ IsRebuilt
  /\ Answer("found", path)

PlannerStep ==
  \/ Refuse \/ AlreadyThere \/ Open
  \/ DropStale \/ Expand \/ Arrive \/ Exhausted
  \/ TraceBack \/ ReturnRoute

-----------------------------------------------------------------------------
SearchInit == blocked \in Floors /\ NothingAsked

SearchNext ==
  /\ \/ \E p \in Planners, s, g \in Cells \cup OffTheFloor : Ask(p, s, g)
     \/ PlannerStep
  /\ UNCHANGED blocked

(* A planner runs to its end.                                              *)
Fairness == WF_<<blocked, searchVars>>(PlannerStep /\ UNCHANGED blocked)

SearchSpec ==
  SearchInit /\ [][SearchNext]_<<blocked, searchVars>> /\ Fairness

-----------------------------------------------------------------------------
(* What the single-robot planners promise, measured against a search that  *)
(* is too simple to be wrong: the cells within n steps of the start.       *)

Entries == [cell : Cells, g : Nat, ticket : Nat]
Answers == {"none", "found", "raised", "start_blocked", "goal_blocked", "unreachable"}

(* Variables keep their types.                                             *)
SearchTypeOK ==
  /\ call \in [planner : Planners, start : Cells \cup OffTheFloor,
               goal : Cells \cup OffTheFloor]
  /\ phase \in {"idle", "called", "search", "rebuild", "answered"}
  /\ frontier \subseteq Entries /\ tickets \in Nat
  /\ DOMAIN gScore \subseteq Cells \ blocked
  /\ \A c \in DOMAIN gScore : gScore[c] \in Nat
  /\ DOMAIN cameFrom \subseteq DOMAIN gScore
  /\ \A c \in DOMAIN cameFrom : cameFrom[c] \in DOMAIN gScore
  /\ finalized \subseteq DOMAIN gScore
  /\ path \in Seq(Cells) /\ answer \in Answers

IsWalk(p) ==
  /\ \A i \in 1 .. Len(p) : p[i] \in Cells \ blocked
  /\ \A i \in 1 .. Len(p) - 1 : AdjacentTo(p[i], p[i+1])
  /\ IsInjective(p)

(* "find a genuinely shortest path, or report cleanly that no path exists" *)
(* (planning/__init__.py): a route found is walkable, joins start and goal *)
(* and has as few steps as any walk; and "unreachable" is said of no goal  *)
(* that can be reached.  find_path_problems has nothing to say of either.  *)
RoutesAreShortest ==
  answer \in {"found", "unreachable"} =>
    LET steps == StepsFrom(call.start, blocked) IN
    IF answer = "found"
    THEN /\ path # << >> /\ IsWalk(path)
         /\ path[1] = call.start /\ path[Len(path)] = call.goal
         /\ Len(path) - 1 = steps[call.goal]
    ELSE path = << >> /\ call.goal \notin DOMAIN steps

(* "safe to finalise a cell the first time it is popped" (heuristics.py):  *)
(* a finalized cell's cost is final, the cheapest there is, although the   *)
(* heap still holds older and dearer entries for some cells; and no cell   *)
(* is finalized through a route longer than the best one to the goal.      *)
(* And the guide never costs: the cells A* has expanded when it finds a    *)
(* route are among those Dijkstra cannot avoid, which are all cells nearer *)
(* than the goal; so A* never expands more nodes (astar.py, the benchmark).*)
SearchIsDirected ==
  /\ SearchTypeOK
  /\ finalized # {} =>
       LET steps == StepsFrom(call.start, blocked)
           nearer == {c \in DOMAIN steps : steps[c] < steps[call.goal]}
       IN
       /\ \A c \in finalized :
            /\ gScore[c] = steps[c]
            /\ call.goal \in DOMAIN steps =>
                 gScore[c] + Heuristic(c) <= steps[call.goal]
       /\ answer = "found" /\ call.planner = "astar" =>
            finalized \ {call.goal} \subseteq nearer
       /\ answer = "found" /\ call.planner = "dijkstra" => nearer \subseteq finalized

(* A planner that was asked answers: the heap empties, and the walk back   *)
(* along came_from meets the start.                                        *)
PlannersAnswer == phase = "called" ~> phase = "answered"

-----------------------------------------------------------------------------
(* Why it holds: the inductive invariant of the proofs.                    *)

NothingSearched ==
  phase \in {"idle", "called"} =>
    /\ gScore = << >> /\ cameFrom = << >> /\ finalized = {} /\ answer = "none"

IsSearching == phase \in {"search", "rebuild"}

SearchesWellFormed ==
  IsSearching =>
    /\ answer = "none" /\ call.start # call.goal
    /\ IsWalkable(call.start) /\ IsWalkable(call.goal)
    /\ call.start \in DOMAIN gScore /\ gScore[call.start] = 0
    /\ phase = "search" => call.goal \notin finalized

(* No cost is below the number of steps, and a finalized cell's is it.     *)
CostsAreBounds ==
  IsSearching =>
    LET steps == StepsFrom(call.start, blocked) IN
    /\ DOMAIN gScore \subseteq DOMAIN steps
    /\ \A c \in DOMAIN gScore : steps[c] <= gScore[c]
    /\ \A c \in finalized : gScore[c] = steps[c]
    /\ \A c \in finalized :
         call.goal \in DOMAIN steps => steps[c] + Heuristic(c) <= steps[call.goal]

(* The way to a cell leads through finalized ones.                         *)
CameFromFinalized ==
  IsSearching =>
    \A c \in DOMAIN gScore \ {call.start} :
      /\ c \in DOMAIN cameFrom
      /\ cameFrom[c] \in finalized /\ c \in WalkableNeighbours(cameFrom[c])
      /\ gScore[c] = gScore[cameFrom[c]] + 1

(* What is finalized has all its neighbours relaxed, and every cell that   *)
(* is not has an entry at its present cost.                                *)
SearchGoesOn ==
  phase = "search" =>
    /\ \A e \in frontier : e.cell \in DOMAIN gScore /\ gScore[e.cell] <= e.g
    /\ \A c \in DOMAIN gScore \ finalized :
         \E e \in frontier : e.cell = c /\ e.g = gScore[c]
    /\ \A c \in finalized : \A n \in WalkableNeighbours(c) :
         n \in DOMAIN gScore /\ gScore[n] <= gScore[c] + 1

(* The part of the route that is rebuilt: it costs one more at each cell.  *)
RebuiltSoFar ==
  phase = "rebuild" =>
    /\ path # << >> /\ path[Len(path)] = call.goal
    /\ \A i \in 1 .. Len(path) :
         path[i] \in finalized /\ gScore[path[i]] = gScore[path[1]] + i - 1
    /\ \A i \in 1 .. Len(path) - 1 : AdjacentTo(path[i], path[i+1])

(* What A* saves and Dijkstra cannot.                                      *)
ExpandedCells ==
  phase = "rebuild" =>
    LET steps == StepsFrom(call.start, blocked)
        nearer == {c \in DOMAIN steps : steps[c] < steps[call.goal]}
    IN /\ call.goal \in finalized
       /\ call.planner = "astar" => finalized \ {call.goal} \subseteq nearer
       /\ call.planner = "dijkstra" => nearer \subseteq finalized

SearchInv ==
  /\ SearchTypeOK /\ blocked \in SUBSET Cells
  /\ NothingSearched /\ SearchesWellFormed
  /\ CostsAreBounds /\ CameFromFinalized /\ SearchGoesOn
  /\ RebuiltSoFar /\ ExpandedCells
  /\ RoutesAreShortest /\ SearchIsDirected
=============================================================================
