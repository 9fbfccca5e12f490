------------------------- MODULE CoordinatorProofs --------------------------
(***************************************************************************)
(* Prioritized planning is safe for every grid, fleet, horizon, layout and *)
(* priority order.  The argument: came_from is a tree of steps the table   *)
(* allows, so the route rebuilt from it is legal; the table holds exactly  *)
(* the routes handed out, so a legal route meets none of them.             *)
(*                                                                         *)
(* A planned fleet that is left alone arrives unless a battery runs out:   *)
(* what the coordinator promises (IInv) is what the executor needs; what   *)
(* is known of the executor alone is taken over from its own proofs.       *)
(***************************************************************************)
EXTENDS FleetRun, GridProofs, WellFoundedInduction, TLAPS

-----------------------------------------------------------------------------
(* Timed paths.                                                            *)

(* Where a robot on a timed path is, before and after its arrival.         *)
LEMMA PositionOnPath ==
  ASSUME NEW p, IsTimedPath(p), NEW t \in Times
  PROVE  /\ PositionAt(p, t) \in Cells
         /\ t \in p.start .. p.arrival => PositionAt(p, t) = p.at[t]
         /\ t \in p.arrival .. Horizon => PositionAt(p, t) = Goal(p)
<1>1. /\ p.start \in Nat /\ p.arrival \in Nat /\ p.start <= p.arrival
      /\ p.arrival <= Horizon
  BY HorizonAssumption DEF IsTimedPath, Times
<1>2. p.at[p.start] \in Cells /\ p.at[p.arrival] \in Cells
  BY <1>1 DEF IsTimedPath
<1>3. t \in p.start .. p.arrival => p.at[t] \in Cells
  BY DEF IsTimedPath
<1>. QED
  BY <1>1, <1>2, <1>3 DEF PositionAt, Goal, Times

(* The edges a path reserves are the timesteps at which it changes cell.   *)
LEMMA EdgesArePositions ==
  ASSUME NEW p, IsTimedPath(p), NEW k \in PathEdges(p)
  PROVE  /\ k[3] \in p.start .. p.arrival - 1
         /\ k = <<p.at[k[3]], p.at[k[3]+1], k[3]>>
         /\ p.at[k[3]] # p.at[k[3]+1]
BY DEF PathEdges

(* A clash in the table is a meeting of two routes: the robot holding an   *)
(* edge also holds the cell the edge leads to.                             *)
LEMMA TableOfRoutes ==
  ASSUME TableHoldsThePlans, NEW q \in Planned, IsTimedPath(paths[q]),
         paths[q].start = 0
  PROVE  /\ \A t \in Times :
              <<PositionAt(paths[q], t), t, q>> \in table.vertices
         /\ \A t \in 0 .. paths[q].arrival - 1 :
              paths[q].at[t] # paths[q].at[t+1] =>
                <<paths[q].at[t], paths[q].at[t+1], t, q>> \in table.edges
<1>1. ASSUME NEW t \in Times
      PROVE  <<PositionAt(paths[q], t), t, q>> \in table.vertices
  <2>1. <<PositionAt(paths[q], t), t>> \in PathVertices(paths[q])
    BY DEF PathVertices, Times
  <2>2. <<PositionAt(paths[q], t), t, q>> \in
          {<<k[1], k[2], q>> : k \in PathVertices(paths[q])}
    BY <2>1
  <2>. QED  BY <2>2 DEF TableHoldsThePlans
<1>2. ASSUME NEW t \in 0 .. paths[q].arrival - 1,
             paths[q].at[t] # paths[q].at[t+1]
      PROVE  <<paths[q].at[t], paths[q].at[t+1], t, q>> \in table.edges
  <2>1. <<paths[q].at[t], paths[q].at[t+1], t>> \in PathEdges(paths[q])
    BY <1>2 DEF PathEdges
  <2>2. <<paths[q].at[t], paths[q].at[t+1], t, q>> \in
          {<<k[1], k[2], k[3], q>> : k \in PathEdges(paths[q])}
    BY <2>1
  <2>. QED  BY <2>2 DEF TableHoldsThePlans
<1>. QED  BY <1>1, <1>2

(* Nobody else's reservation is in the table.                              *)
LEMMA TableHasNothingElse ==
  ASSUME TableHoldsThePlans
  PROVE  /\ \A c, t, o : <<c, t, o>> \in table.vertices =>
              o \in Planned /\ <<c, t>> \in PathVertices(paths[o])
         /\ \A c, d, t, o : <<c, d, t, o>> \in table.edges =>
              o \in Planned /\ <<c, d, t>> \in PathEdges(paths[o])
<1>1. ASSUME NEW c, NEW t, NEW o, <<c, t, o>> \in table.vertices
      PROVE  o \in Planned /\ <<c, t>> \in PathVertices(paths[o])
  <2>1. PICK r \in Planned : \E k \in PathVertices(paths[r]) :
          <<c, t, o>> = <<k[1], k[2], r>>
    BY <1>1 DEF TableHoldsThePlans
  <2>2. \A k \in PathVertices(paths[r]) : k = <<k[1], k[2]>>
    BY DEF PathVertices
  <2>. QED  BY <2>1, <2>2
<1>2. ASSUME NEW c, NEW d, NEW t, NEW o, <<c, d, t, o>> \in table.edges
      PROVE  o \in Planned /\ <<c, d, t>> \in PathEdges(paths[o])
  <2>1. PICK r \in Planned : \E k \in PathEdges(paths[r]) :
          <<c, d, t, o>> = <<k[1], k[2], k[3], r>>
    BY <1>2 DEF TableHoldsThePlans
  <2>2. \A k \in PathEdges(paths[r]) : k = <<k[1], k[2], k[3]>>
    BY DEF PathEdges
  <2>. QED  BY <2>1, <2>2
<1>. QED  BY <1>1, <1>2

-----------------------------------------------------------------------------
(* The goal hold.                                                          *)

(* _earliest_goal_hold always finds a time from which the goal is free,    *)
(* possibly one past the horizon; any later time will do, no earlier one.  *)
LEMMA EarliestHold ==
  ASSUME request.time \in Times
  PROVE  /\ EarliestGoalHold \in request.time .. Horizon + 1
         /\ \A t \in Times : t >= EarliestGoalHold => HoldableFrom(t)
         /\ \A t \in request.time .. EarliestGoalHold - 1 : ~ HoldableFrom(t)
<1> DEFINE T == {h \in request.time .. Horizon + 1 : HoldableFrom(h)}
<1>0. request.time \in Nat /\ request.time <= Horizon /\ Horizon \in Nat
  BY HorizonAssumption DEF Times
<1>1. Horizon + 1 \in T
  BY <1>0 DEF HoldableFrom
<1>2. T \subseteq Nat
  BY <1>0
<1>3. PICK h \in T : \A g \in T : ~ (<<g, h>> \in OpToRel(<, Nat))
  <2> HIDE DEF T
  <2>. QED  BY <1>1, <1>2, NatLessThanWellFounded, WFMin
<1>4. \A g \in T : h <= g
  <2>1. \A m, n \in Nat : m < n => <<m, n>> \in OpToRel(<, Nat)
    BY Zenon DEF OpToRel
  <2> HIDE DEF T
  <2>2. \A g \in T : ~ (g < h)
    BY <1>2, <1>3, <2>1
  <2>. QED  BY <1>2, <2>2
<1>5. /\ HoldableFrom(h)
      /\ \A g \in request.time .. h - 1 : ~ HoldableFrom(g)
  BY <1>0, <1>4
<1>6. /\ EarliestGoalHold \in request.time .. Horizon + 1
      /\ HoldableFrom(EarliestGoalHold)
      /\ \A g \in request.time .. EarliestGoalHold - 1 : ~ HoldableFrom(g)
  BY <1>5 DEF EarliestGoalHold
<1>7. \A t \in Times : t >= EarliestGoalHold => HoldableFrom(t)
  BY <1>0, <1>6 DEF HoldableFrom, Times
<1>. QED  BY <1>6, <1>7

-----------------------------------------------------------------------------
(* A legal route meets nothing.                                            *)

(* Every cell of the route handed back is free at its time: the start by   *)
(* the cheap rejections, a step by is_move_allowed, the parking by the     *)
(* goal hold.                                                              *)
LEMMA RouteIsFree ==
  ASSUME IInv, phase = "done", outcome = "found", stage = "planning",
         NEW t \in Times
  PROVE  IsVertexFree(table, PositionAt(chain, t), t, request.robot)
<1>1. /\ IsTimedPath(chain) /\ chain.start = 0 /\ chain.at[0] = request.start
      /\ chain.arrival \in Nat /\ t \in Nat /\ t <= Horizon
      /\ IsVertexFree(table, request.start, 0, request.robot)
      /\ Goal(chain) = request.goal /\ HoldableFrom(chain.arrival)
  BY HorizonAssumption
     DEF IInv, TurnOrder, SuffixIsLegal, LegalSuffix, IsTimedPath, Times
<1>2. CASE t = 0
  BY <1>1, <1>2, PositionOnPath
<1>3. CASE t \in 1 .. chain.arrival
  <2>0. t - 1 \in chain.start .. chain.arrival - 1
    BY <1>1, <1>3
  <2>1. LegalStep(chain.at[t-1], chain.at[(t-1)+1], t-1)
    BY <2>0 DEF IInv, SuffixIsLegal, LegalSuffix
  <2>2. (t - 1) + 1 = t
    BY <1>1
  <2>3. PositionAt(chain, t) = chain.at[t]
    BY <1>1, <1>3, PositionOnPath
  <2>. QED  BY <2>1, <2>2, <2>3 DEF LegalStep, IsMoveAllowed
<1>4. CASE t \in chain.arrival .. Horizon
  BY <1>1, <1>4, PositionOnPath DEF HoldableFrom
<1>. QED  BY <1>1, <1>2, <1>3, <1>4

(* A robot on its way changes cell only along an edge it reserved.         *)
LEMMA MovesBeforeArrival ==
  ASSUME NEW p, IsTimedPath(p), p.start = 0, NEW t \in 0 .. Horizon - 1,
         PositionAt(p, t) # PositionAt(p, t + 1)
  PROVE  /\ t \in 0 .. p.arrival - 1
         /\ PositionAt(p, t) = p.at[t] /\ PositionAt(p, t + 1) = p.at[t+1]
<1>1. t \in Times /\ t + 1 \in Times /\ p.arrival \in Times
  BY HorizonAssumption DEF Times, IsTimedPath
<1>2. CASE t >= p.arrival
  <2>1. t \in p.arrival .. Horizon /\ t + 1 \in p.arrival .. Horizon
    BY <1>1, <1>2 DEF Times
  <2>. QED  BY <1>1, <2>1, PositionOnPath
<1>3. CASE t < p.arrival
  <2>1. t \in 0 .. p.arrival /\ t + 1 \in 0 .. p.arrival
    BY <1>1, <1>3 DEF Times
  <2>. QED  BY <1>1, <1>3, <2>1, PositionOnPath DEF Times
<1>. QED  BY <1>1, <1>2, <1>3 DEF Times

(* The route handed back keeps clear of every route handed out before.     *)
LEMMA RouteIsCompatible ==
  ASSUME IInv, phase = "done", outcome = "found", stage = "planning",
         NEW q \in Planned, q # request.robot
  PROVE  Promise!Compatible(chain, paths[q])
<1>1. /\ IsTimedPath(chain) /\ chain.start = 0
      /\ IsTimedPath(paths[q]) /\ paths[q].start = 0
      /\ TableHoldsThePlans /\ q \in Robots
  BY DEF IInv, TurnOrder, SuffixIsLegal, LegalSuffix, TypeOK, FleetTypeOK,
         RoutesAreWalks
<1>2. ASSUME NEW t \in Times
      PROVE  PositionAt(chain, t) # PositionAt(paths[q], t)
  <2>1. <<PositionAt(paths[q], t), t, q>> \in table.vertices
    BY <1>1, TableOfRoutes
  <2>. QED  BY <1>1, <2>1, RouteIsFree DEF IsVertexFree
<1>3. ASSUME NEW t \in 0 .. Horizon - 1,
             PositionAt(chain, t) = PositionAt(paths[q], t + 1),
             PositionAt(paths[q], t) = PositionAt(chain, t + 1)
      PROVE  FALSE
  <2>1. t \in Times /\ t + 1 \in Times
    BY HorizonAssumption DEF Times
  <2>2. PositionAt(chain, t) # PositionAt(chain, t + 1)
    BY <1>2, <1>3, <2>1
  <2>3. PositionAt(paths[q], t) # PositionAt(paths[q], t + 1)
    BY <1>3, <2>2
  <2>4. /\ t \in 0 .. chain.arrival - 1
        /\ PositionAt(chain, t) = chain.at[t]
        /\ PositionAt(chain, t + 1) = chain.at[t+1]
    BY <1>1, <2>2, MovesBeforeArrival
  <2>5. /\ t \in 0 .. paths[q].arrival - 1
        /\ PositionAt(paths[q], t) = paths[q].at[t]
        /\ PositionAt(paths[q], t + 1) = paths[q].at[t+1]
    BY <1>1, <2>3, MovesBeforeArrival
  <2>6. LegalStep(chain.at[t], chain.at[t+1], t)
    BY <1>1, <2>4 DEF IInv, SuffixIsLegal, LegalSuffix
  <2>7. ~ IsSwapConflict(table, chain.at[t], chain.at[t+1], t, request.robot)
    BY <2>2, <2>4, <2>6 DEF LegalStep, IsMoveAllowed
  <2>8. <<chain.at[t+1], chain.at[t], t, q>> \in table.edges
    BY <1>1, <1>3, <2>3, <2>4, <2>5, TableOfRoutes
  <2>. QED  BY <1>1, <2>7, <2>8 DEF IsSwapConflict
<1>. QED  BY <1>2, <1>3 DEF Promise!Compatible, Promise!Times, Promise!PositionAt,
            Promise!Goal, Times, PositionAt, Goal

(* Reserving it never raises.                                              *)
LEMMA RouteDoesNotClash ==
  ASSUME IInv, phase = "done", outcome = "found", stage = "planning"
  PROVE  ~ Clashes(table, request.robot, chain)
<1>1. /\ IsTimedPath(chain) /\ chain.start = 0 /\ TableHoldsThePlans
  BY DEF IInv, TurnOrder, SuffixIsLegal, LegalSuffix
<1>2. ASSUME NEW k \in PathVertices(chain)
      PROVE  IsVertexFree(table, k[1], k[2], request.robot)
  <2>1. PICK t \in Times : k = <<PositionAt(chain, t), t>>
    BY <1>1 DEF PathVertices, Times
  <2>. QED  BY <2>1, RouteIsFree
<1>3. ASSUME NEW k \in PathEdges(chain), NEW o \in Robots \ {request.robot},
             <<k[1], k[2], k[3], o>> \in table.edges
      PROVE  FALSE
  <2>1. o \in Planned /\ <<k[1], k[2], k[3]>> \in PathEdges(paths[o])
    BY <1>1, <1>3, TableHasNothingElse
  <2>2. IsTimedPath(paths[o]) /\ paths[o].start = 0
    BY <2>1 DEF IInv, TypeOK, FleetTypeOK, RoutesAreWalks
  <2>3. /\ k[3] \in 0 .. paths[o].arrival - 1 /\ k[2] = paths[o].at[k[3]+1]
        /\ k[3] \in 0 .. chain.arrival - 1 /\ k[2] = chain.at[k[3]+1]
    BY <1>1, <2>1, <2>2, EdgesArePositions
  <2>4. /\ k[3] + 1 \in Times
        /\ k[3] + 1 \in 0 .. paths[o].arrival /\ k[3] + 1 \in 0 .. chain.arrival
    BY <1>1, <2>2, <2>3, HorizonAssumption DEF IsTimedPath, Times
  <2>5. /\ PositionAt(paths[o], k[3] + 1) = k[2]
        /\ PositionAt(chain, k[3] + 1) = k[2]
    BY <1>1, <2>2, <2>3, <2>4, PositionOnPath
  <2>6. <<k[2], k[3] + 1, o>> \in table.vertices
    BY <1>1, <2>1, <2>2, <2>4, <2>5, TableOfRoutes
  <2>. QED  BY <2>4, <2>5, <2>6, RouteIsFree DEF IsVertexFree
<1>. QED  BY <1>2, <1>3 DEF Clashes

-----------------------------------------------------------------------------
(* The invariant holds at first and is kept by every action.               *)

LEMMA InitInvariant == Init => IInv
<1> SUFFICES ASSUME Init PROVE IInv
  OBVIOUS
<1>1. order \in Seq(Robots) /\ order # <<>> /\ order[1] \in Robots
      /\ 1 \in 1 .. Len(order)
  BY RequestAssumption DEF Init
<1>2. 0 \in Times
  BY HorizonAssumption DEF Times
<1>3. PlannerTypeOK
  BY <1>1, <1>2, RequestAssumption
     DEF Init, PlannerTypeOK, Tables, EmptyTable, Phases, Outcomes, States
<1>4. FleetTypeOK
  BY <1>1, RequestAssumption DEF Init, FleetTypeOK, Stages, Planned
<1>. QED
  BY <1>1, <1>3, <1>4 DEF Init, IInv, TypeOK, TurnOrder, SearchTree,
     SuffixIsLegal, TableHoldsThePlans, RoutesAreWalks, ConflictFree,
     NeverRaises, EmptyTable, Planned

(* What a call of plan() finds ready.                                      *)
LEMMA CallIsReady ==
  ASSUME TypeOK, NEW i \in 1 .. Len(order), CallPlannerFor(order[i]),
         blocked' \in SUBSET Cells, table' \in Tables
  PROVE  /\ PlannerTypeOK'
         /\ phase' = "called"
         /\ request'.robot = order[i] /\ request'.time = 0
         /\ request'.start = starts[order[i]] /\ request'.goal = goals[order[i]]
<1>1. order[i] \in Robots
  BY DEF TypeOK, FleetTypeOK
<1>2. 0 \in Times
  BY HorizonAssumption DEF Times
<1>3. request' \in [robot : Robots, start : Cells, goal : Int \X Int,
                   time : Times]
  BY <1>1, <1>2 DEF CallPlannerFor, Call, TypeOK, FleetTypeOK
<1>. QED
  BY <1>3 DEF CallPlannerFor, Call, PlannerTypeOK, Phases, Outcomes, States

LEMMA BeginKeepsInvariant == IInv /\ Begin => IInv'
<1> SUFFICES ASSUME IInv, Begin PROVE IInv'
  OBVIOUS
<1>0. /\ CallPlannerFor(order[1]) /\ 1 \in 1 .. Len(order) /\ TypeOK
      /\ blocked' \in SUBSET Cells /\ table' \in Tables
      /\ UNCHANGED <<table, paths, failed, turn, starts, goals, order, blocked>>
      /\ stage = "validate" /\ stage' = "planning" /\ ValidRequest
  <2>1. /\ CallPlannerFor(order[1]) /\ stage = "validate" /\ stage' = "planning"
        /\ ValidRequest /\ TypeOK
        /\ UNCHANGED <<table, paths, failed, turn, starts, goals, order, blocked>>
    BY DEF Begin, IInv, requestVars
  <2>2. blocked' \in SUBSET Cells /\ table' \in Tables
    BY <2>1 DEF TypeOK, PlannerTypeOK
  <2>3. 1 \in 1 .. Len(order)
    BY <2>1 DEF TypeOK, FleetTypeOK
  <2>. QED  BY <2>1, <2>2, <2>3
<1>1. PlannerTypeOK' /\ phase' = "called"
  BY <1>0, CallIsReady
<1>2. FleetTypeOK'
  BY <1>0 DEF TypeOK, FleetTypeOK, Stages, Planned
<1>3. TurnOrder'
  BY <1>0, <1>1, CallIsReady DEF IInv, TurnOrder, ValidRequest, IsPermutation,
     Planned
<1>4. SearchTree' /\ SuffixIsLegal' /\ NeverRaises'
  BY <1>0, <1>1 DEF SearchTree, SuffixIsLegal, NeverRaises
<1>5. TableHoldsThePlans' /\ RoutesAreWalks' /\ ConflictFree'
  BY <1>0 DEF IInv, TurnOrder, TableHoldsThePlans, RoutesAreWalks, ConflictFree,
     Planned
<1>. QED  BY <1>1, <1>2, <1>3, <1>4, <1>5 DEF IInv, TypeOK

(* What holds of the fleet holds while plan() runs: it changes none of it. *)
LEMMA FleetUnchanged ==
  ASSUME IInv,
         UNCHANGED <<table, paths, failed, turn, starts, goals, order, blocked,
                     stage>>
  PROVE  FleetTypeOK' /\ TableHoldsThePlans' /\ RoutesAreWalks' /\ ConflictFree'
         /\ NeverRaises'
<1>1. FleetTypeOK'
  BY DEF IInv, TypeOK, FleetTypeOK, Planned
<1>2. TableHoldsThePlans' /\ RoutesAreWalks' /\ NeverRaises'
  BY DEF IInv, TableHoldsThePlans, RoutesAreWalks, NeverRaises, Planned
<1>3. ConflictFree'
  BY DEF IInv, ConflictFree, Planned
<1>. QED  BY <1>1, <1>2, <1>3

LEMMA RefuseKeepsInvariant == IInv /\ Refuse => IInv'
<1> SUFFICES ASSUME IInv, Refuse PROVE IInv'
  OBVIOUS
<1>0. /\ UNCHANGED <<table, paths, failed, turn, starts, goals, order, blocked>>
      /\ UNCHANGED plannerVars
      /\ stage = "validate" /\ stage' = "refused"
  BY DEF Refuse, requestVars, plannerVars
<1>1. PlannerTypeOK'
  BY <1>0 DEF IInv, TypeOK, PlannerTypeOK, plannerVars, searchVars
<1>2. FleetTypeOK'
  BY <1>0 DEF IInv, TypeOK, FleetTypeOK, Planned, Stages
<1>3. TurnOrder' /\ SearchTree' /\ SuffixIsLegal' /\ NeverRaises'
  BY <1>0 DEF IInv, TurnOrder, SearchTree, SuffixIsLegal, NeverRaises, Planned
<1>4. TableHoldsThePlans' /\ RoutesAreWalks' /\ ConflictFree'
  BY <1>0 DEF IInv, TurnOrder, TableHoldsThePlans, RoutesAreWalks, ConflictFree,
     Planned
<1>. QED  BY <1>1, <1>2, <1>3, <1>4 DEF IInv, TypeOK

-----------------------------------------------------------------------------
(* The steps of plan() itself.                                             *)

(* What a step of the planner leaves to be shown.                          *)
LEMMA PlannerStepReduces ==
  ASSUME IInv, stage = "planning", UNCHANGED <<blocked, table, request>>,
         UNCHANGED <<stage, requestVars, turn, paths, failed>>,
         phase' # "idle", PlannerTypeOK', SearchTree', SuffixIsLegal'
  PROVE  IInv'
<1>1. UNCHANGED <<table, paths, failed, turn, starts, goals, order, blocked,
                  stage>>
  BY DEF requestVars
<1>2. FleetTypeOK' /\ TableHoldsThePlans' /\ RoutesAreWalks' /\ ConflictFree'
      /\ NeverRaises'
  BY <1>1, FleetUnchanged
<1>3. TurnOrder'
  BY <1>1 DEF IInv, TurnOrder, IsPermutation, Planned
<1>. QED  BY <1>2, <1>3 DEF IInv, TypeOK

LEMMA RejectionsAreOutcomes ==
  \A i \in DOMAIN Rejections : Rejections[i] \in Outcomes /\ Rejections[i] # "found"
BY DEF Rejections, Outcomes

LEMMA RejectIsSafe ==
  ASSUME IInv, stage = "planning", Reject,
         UNCHANGED <<stage, requestVars, turn, paths, failed>>
  PROVE  IInv'
<1>1. /\ phase' = "done" /\ outcome' \in Outcomes /\ outcome' # "found"
      /\ UNCHANGED <<blocked, table, request, searchVars>>
  BY RejectionsAreOutcomes DEF Reject
<1>2. PlannerTypeOK'
  BY <1>1 DEF IInv, TypeOK, PlannerTypeOK, searchVars, Phases
<1>3. SearchTree' /\ SuffixIsLegal'
  BY <1>1 DEF SearchTree, SuffixIsLegal
<1>. QED  BY <1>1, <1>2, <1>3, PlannerStepReduces

(* The search opens only on a start that is walkable and free.             *)
LEMMA OpenSearchIsSafe ==
  ASSUME IInv, stage = "planning", OpenSearch,
         UNCHANGED <<stage, requestVars, turn, paths, failed>>
  PROVE  IInv'
<1>1. /\ phase' = "search" /\ tickets' = 1 /\ DOMAIN cameFrom' = {}
      /\ frontier' = {[cell |-> request.start, t |-> request.time, ticket |-> 0]}
      /\ chain' = NoChain
      /\ UNCHANGED <<blocked, table, request, outcome>>
  BY DEF OpenSearch
<1>2. /\ ~ Rejection("start_blocked") /\ ~ Rejection("start_reserved")
  BY DEF OpenSearch, Rejections
<1>3. /\ request.start \in Cells \ blocked
      /\ IsVertexFree(table, request.start, request.time, request.robot)
  BY <1>2 DEF Rejection, IsTraversable
<1>4. PlannerTypeOK'
  BY <1>1 DEF IInv, TypeOK, PlannerTypeOK, Phases, States
<1>5. SearchTree'
  BY <1>1, <1>3 DEF SearchTree, Generated, StartState
<1>6. SuffixIsLegal'
  BY <1>1 DEF SuffixIsLegal
<1>. QED  BY <1>1, <1>4, <1>5, <1>6, PlannerStepReduces

LEMMA CutOffIsSafe ==
  ASSUME IInv, stage = "planning", CutOff,
         UNCHANGED <<stage, requestVars, turn, paths, failed>>
  PROVE  IInv'
<1>1. /\ phase = "search" /\ frontier' \subseteq frontier
      /\ UNCHANGED <<blocked, table, request, phase, tickets, cameFrom, chain,
                     outcome>>
  BY DEF CutOff
<1>2. PlannerTypeOK'
  BY <1>1 DEF IInv, TypeOK, PlannerTypeOK
<1>3. SearchTree'
  BY <1>1 DEF IInv, SearchTree, Generated, StartState, LegalStep
<1>4. SuffixIsLegal'
  BY <1>1 DEF SuffixIsLegal
<1>. QED  BY <1>1, <1>2, <1>3, <1>4, PlannerStepReduces

LEMMA GiveUpIsSafe ==
  ASSUME IInv, stage = "planning", GiveUp,
         UNCHANGED <<stage, requestVars, turn, paths, failed>>
  PROVE  IInv'
<1>1. /\ phase' = "done" /\ outcome' = "horizon"
      /\ UNCHANGED <<blocked, table, request, searchVars>>
  BY DEF GiveUp
<1>2. PlannerTypeOK'
  BY <1>1 DEF IInv, TypeOK, PlannerTypeOK, searchVars, Phases, Outcomes
<1>3. SearchTree' /\ SuffixIsLegal'
  BY <1>1 DEF SearchTree, SuffixIsLegal
<1>. QED  BY <1>1, <1>2, <1>3, PlannerStepReduces

(* A generated state lies in the grid and within the horizon.              *)
LEMMA GeneratedStates ==
  ASSUME IInv, request.start \in Cells
  PROVE  Generated \subseteq States
BY DEF IInv, TypeOK, PlannerTypeOK, Generated, StartState, States

LEMMA ArriveIsSafe ==
  ASSUME IInv, stage = "planning", Arrive,
         UNCHANGED <<stage, requestVars, turn, paths, failed>>
  PROVE  IInv'
<1>1. PICK e \in frontier :
        /\ AtGoal(e)
        /\ chain' = [start |-> e.t, arrival |-> e.t, at |-> [t \in {e.t} |-> e.cell]]
        /\ frontier' = frontier \ {e}
  BY DEF Arrive
<1>2. /\ phase = "search" /\ phase' = "reconstruct"
      /\ UNCHANGED <<blocked, table, request, tickets, cameFrom, outcome>>
  BY DEF Arrive
<1>3. /\ e.t \in Times /\ e.t \in Nat /\ e.t <= Horizon /\ e.cell \in Cells
      /\ e.cell = request.goal /\ e.t >= EarliestGoalHold
      /\ <<e.cell, e.t>> \in Generated
      /\ request.time \in Times
  BY <1>1, <1>2, HorizonAssumption
     DEF IInv, TypeOK, PlannerTypeOK, AtGoal, Times, SearchTree
<1>4. e.t .. e.t = {e.t}
  BY <1>3
<1>5. IsTimedPath(chain')
  BY <1>1, <1>3, <1>4 DEF IsTimedPath
<1>6. PlannerTypeOK'
  BY <1>1, <1>2, <1>5 DEF IInv, TypeOK, PlannerTypeOK, Phases
<1>7. SearchTree'
  BY <1>1, <1>2 DEF IInv, SearchTree, Generated, StartState, LegalStep
<1>8. HoldableFrom(e.t)
  BY <1>3, EarliestHold
<1>9. LegalSuffix'
  <2>1. Goal(chain') = request'.goal
    BY <1>1, <1>2, <1>3 DEF Goal
  <2>2. HoldableFrom(chain.arrival)'
    BY <1>1, <1>2, <1>8 DEF HoldableFrom
  <2>3. chain'.start .. chain'.arrival - 1 = {}
    BY <1>1, <1>3
  <2>. QED  BY <1>5, <2>1, <2>2, <2>3 DEF LegalSuffix
<1>10. Current' \in Generated'
  BY <1>1, <1>2, <1>3 DEF Current, Generated, StartState
<1>11. SuffixIsLegal'
  BY <1>2, <1>9, <1>10 DEF SuffixIsLegal
<1>. QED  BY <1>2, <1>6, <1>7, <1>11, PlannerStepReduces

(* An adjacent cell lies in one of the four directions.                    *)
LEMMA PushOrderIsNat ==
  ASSUME NEW c \in Cells, NEW n \in Cells, n = c \/ AdjacentTo(c, n)
  PROVE  PushOrder(c, n) \in Nat
<1>1. CASE n = c
  BY <1>1 DEF PushOrder
<1>2. CASE n # c /\ AdjacentTo(c, n)
  <2>1. /\ c[1] \in Int /\ c[2] \in Int /\ n[1] \in Int /\ n[2] \in Int
        /\ n = <<n[1], n[2]>>
    BY DimensionAssumption DEF Cells
  <2>2. \/ n[1] = c[1] - 1 /\ n[2] = c[2]
        \/ n[1] = c[1] + 1 /\ n[2] = c[2]
        \/ n[1] = c[1] /\ n[2] = c[2] - 1
        \/ n[1] = c[1] /\ n[2] = c[2] + 1
    BY <1>2, <2>1 DEF AdjacentTo, ManhattanDistance, Distance
  <2>3. \E i \in 1 .. 4 : ApplyTo(Direction[i], c) = n
    <3>1. CASE n[1] = c[1] - 1 /\ n[2] = c[2]
      BY <2>1, <3>1 DEF ApplyTo, Direction
    <3>2. CASE n[1] = c[1] + 1 /\ n[2] = c[2]
      BY <2>1, <3>2 DEF ApplyTo, Direction
    <3>3. CASE n[1] = c[1] /\ n[2] = c[2] - 1
      BY <2>1, <3>3 DEF ApplyTo, Direction
    <3>4. CASE n[1] = c[1] /\ n[2] = c[2] + 1
      BY <2>1, <3>4 DEF ApplyTo, Direction
    <3>. QED  BY <2>2, <3>1, <3>2, <3>3, <3>4
  <2>4. DOMAIN Direction = 1 .. 4
    BY DEF Direction
  <2>5. PushOrder(c, n) \in 1 .. 4
    BY <1>2, <2>3, <2>4 DEF PushOrder
  <2>. QED  BY <2>5
<1>. QED  BY <1>1, <1>2

(* Expanding a state adds legal steps to the tree.                         *)
LEMMA ExpandIsSafe ==
  ASSUME IInv, stage = "planning", Expand,
         UNCHANGED <<stage, requestVars, turn, paths, failed>>
  PROVE  IInv'
<1>1. PICK e \in frontier :
        LET fresh == Successors(e) \ Generated IN
        /\ e.t < Horizon
        /\ cameFrom' = [s \in DOMAIN cameFrom \cup fresh |->
                          IF s \in fresh THEN <<e.cell, e.t>> ELSE cameFrom[s]]
        /\ frontier' = (frontier \ {e}) \cup
             {[cell |-> s[1], t |-> s[2],
               ticket |-> tickets + PushOrder(e.cell, s[1])] : s \in fresh}
        /\ tickets' = tickets + PushesPerExpansion
  BY DEF Expand
<1> DEFINE fresh == Successors(e) \ Generated
<1>2. /\ phase = "search" /\ phase' = "search"
      /\ UNCHANGED <<blocked, table, request, chain, outcome>>
  BY DEF Expand
<1>3. /\ e.t \in Times /\ e.t \in Nat /\ e.t < Horizon /\ e.cell \in Cells
      /\ <<e.cell, e.t>> \in Generated /\ tickets \in Nat
      /\ DOMAIN cameFrom \subseteq States /\ e.t + 1 \in Times
  BY <1>1, <1>2, HorizonAssumption
     DEF IInv, TypeOK, PlannerTypeOK, Times, SearchTree
<1>4. \A s \in fresh :
        /\ s \in States /\ s = <<s[1], s[2]>> /\ s[2] = e.t + 1
        /\ LegalStep(e.cell, s[1], e.t)
        /\ s \notin DOMAIN cameFrom
  BY <1>3 DEF Successors, States, LegalStep, IsTraversable, Neighbors, Generated
<1>5. DOMAIN cameFrom' = DOMAIN cameFrom \cup fresh
  BY <1>1
<1>6. /\ \A s \in fresh : cameFrom'[s] = <<e.cell, e.t>>
      /\ \A s \in DOMAIN cameFrom : cameFrom'[s] = cameFrom[s]
  BY <1>1, <1>4
<1>7. Generated' = Generated \cup fresh
  BY <1>2, <1>5 DEF Generated, StartState
<1> HIDE DEF fresh
<1>8. PlannerTypeOK'
  <2>1. \A s \in fresh : tickets + PushOrder(e.cell, s[1]) \in Nat
    BY <1>3, <1>4, PushOrderIsNat DEF LegalStep
  <2>2. frontier' \in SUBSET [cell : Cells, t : Times, ticket : Nat]
    BY <1>1, <1>4, <2>1 DEF IInv, TypeOK, PlannerTypeOK, States, fresh
  <2>3. tickets' \in Nat
    BY <1>1, <1>3 DEF PushesPerExpansion
  <2>4. \A s \in DOMAIN cameFrom' : s \in States /\ cameFrom'[s] \in States
    BY <1>3, <1>4, <1>5, <1>6 DEF IInv, TypeOK, PlannerTypeOK, States
  <2>. QED  BY <1>2, <2>2, <2>3, <2>4 DEF IInv, TypeOK, PlannerTypeOK
<1>9. SearchTree'
  <2>1. /\ request.start \in Cells \ blocked
        /\ IsVertexFree(table, request.start, request.time, request.robot)
    BY <1>2 DEF IInv, SearchTree
  <2>2. ASSUME NEW x \in frontier' PROVE <<x.cell, x.t>> \in Generated'
    <3>1. CASE x \in frontier
      BY <1>2, <1>7, <3>1 DEF IInv, SearchTree
    <3>2. CASE x \notin frontier
      <4>1. PICK s \in fresh :
              x = [cell |-> s[1], t |-> s[2],
                   ticket |-> tickets + PushOrder(e.cell, s[1])]
        BY <1>1, <3>2 DEF fresh
      <4>2. <<x.cell, x.t>> = s
        BY <1>4, <4>1
      <4>. QED  BY <1>7, <4>2
    <3>. QED  BY <3>1, <3>2
  <2>3. ASSUME NEW s \in DOMAIN cameFrom'
        PROVE  /\ cameFrom'[s] \in Generated'
               /\ s[2] = cameFrom'[s][2] + 1
               /\ LegalStep(cameFrom'[s][1], s[1], cameFrom'[s][2])
    <3>1. CASE s \in fresh
      BY <1>3, <1>4, <1>6, <1>7, <3>1
    <3>2. CASE s \in DOMAIN cameFrom
      BY <1>2, <1>6, <1>7, <3>2 DEF IInv, SearchTree
    <3>. QED  BY <1>5, <2>3, <3>1, <3>2
  <2>4. \A c, d, t : LegalStep(c, d, t) => LegalStep(c, d, t)'
    BY <1>2 DEF LegalStep
  <2>. QED  BY <1>2, <2>1, <2>2, <2>3, <2>4 DEF SearchTree
<1>10. SuffixIsLegal'
  BY <1>2 DEF SuffixIsLegal
<1>. QED  BY <1>2, <1>8, <1>9, <1>10, PlannerStepReduces

(* Following came_from lengthens the suffix by one legal step.             *)
LEMMA TraceBackIsSafe ==
  ASSUME IInv, stage = "planning", TraceBack,
         UNCHANGED <<stage, requestVars, turn, paths, failed>>
  PROVE  IInv'
<1> DEFINE previous == cameFrom[Current]
           s == previous[2]
<1>1. /\ phase = "reconstruct" /\ phase' = "reconstruct" /\ Current # StartState
      /\ chain' = [start |-> s, arrival |-> chain.arrival,
                   at |-> [t \in s .. chain.arrival |->
                             IF t = s THEN previous[1] ELSE chain.at[t]]]
      /\ UNCHANGED <<blocked, table, request, frontier, tickets, cameFrom, outcome>>
  BY DEF TraceBack
<1>2. LegalSuffix /\ Current \in Generated
  BY <1>1 DEF IInv, SuffixIsLegal
<1>3. Current \in DOMAIN cameFrom
  BY <1>1, <1>2 DEF Generated
<1>4. /\ previous \in Generated /\ previous \in States
      /\ chain.start = s + 1
      /\ LegalStep(previous[1], chain.at[chain.start], s)
  BY <1>1, <1>3 DEF IInv, SearchTree, TypeOK, PlannerTypeOK, Current
<1>5. /\ s \in Times /\ s \in Nat /\ previous[1] \in Cells
      /\ previous = <<previous[1], s>>
      /\ chain.arrival \in chain.start .. Horizon /\ chain.arrival \in Nat
      /\ chain.at \in [chain.start .. chain.arrival -> Cells]
  BY <1>2, <1>4, HorizonAssumption DEF States, LegalSuffix, IsTimedPath, Times
<1>6. /\ chain'.start = s /\ chain'.arrival = chain.arrival
      /\ chain'.at[s] = previous[1]
      /\ \A t \in chain.start .. chain.arrival : chain'.at[t] = chain.at[t]
  BY <1>1, <1>4, <1>5
<1> HIDE DEF s, previous
<1>7. IsTimedPath(chain')
  <2>1. chain'.at \in [s .. chain.arrival -> Cells]
    BY <1>1, <1>4, <1>5
  <2>. QED  BY <1>4, <1>5, <1>6, <2>1 DEF IsTimedPath
<1>8. LegalSuffix'
  <2>1. Goal(chain') = request'.goal
    BY <1>1, <1>2, <1>5, <1>6 DEF LegalSuffix, Goal
  <2>2. HoldableFrom(chain.arrival)'
    BY <1>1, <1>2, <1>6 DEF LegalSuffix, HoldableFrom
  <2>3. ASSUME NEW t \in chain'.start .. chain'.arrival - 1
        PROVE  LegalStep(chain.at[t], chain.at[t+1], t)'
    <3>1. CASE t = s
      BY <1>1, <1>4, <1>5, <1>6, <3>1 DEF LegalStep
    <3>2. CASE t # s
      <4>0. t \in Nat /\ t >= s /\ t <= chain.arrival - 1
        BY <1>5, <1>6
      <4>1. /\ t \in chain.start .. chain.arrival - 1
            /\ t \in chain.start .. chain.arrival
            /\ t + 1 \in chain.start .. chain.arrival
        BY <1>4, <1>5, <3>2, <4>0
      <4>3. /\ chain'.at[t] = chain.at[t] /\ chain'.at[t+1] = chain.at[t+1]
        BY <1>6, <4>1
      <4>2. LegalStep(chain.at[t], chain.at[t+1], t)
        BY <1>2, <4>1 DEF LegalSuffix
      <4>. QED  BY <1>1, <4>2, <4>3 DEF LegalStep
    <3>. QED  BY <3>1, <3>2
  <2>. QED  BY <1>7, <2>1, <2>2, <2>3 DEF LegalSuffix
<1>9. Current' = previous /\ Generated' = Generated
  BY <1>1, <1>5, <1>6 DEF Current, Generated, StartState
<1>10. SuffixIsLegal'
  BY <1>1, <1>4, <1>8, <1>9 DEF SuffixIsLegal
<1>11. PlannerTypeOK'
  BY <1>1, <1>7 DEF IInv, TypeOK, PlannerTypeOK
<1>12. SearchTree'
  BY <1>1 DEF IInv, SearchTree, Generated, StartState, LegalStep
<1>. QED  BY <1>1, <1>10, <1>11, <1>12, PlannerStepReduces

LEMMA ReturnRouteIsSafe ==
  ASSUME IInv, stage = "planning", ReturnRoute,
         UNCHANGED <<stage, requestVars, turn, paths, failed>>
  PROVE  IInv'
<1>1. /\ phase = "reconstruct" /\ phase' = "done" /\ Current = StartState
      /\ outcome' = "found"
      /\ UNCHANGED <<blocked, table, request, searchVars>>
  BY DEF ReturnRoute
<1>2. PlannerTypeOK'
  BY <1>1 DEF IInv, TypeOK, PlannerTypeOK, searchVars, Phases, Outcomes
<1>3. SearchTree'
  BY <1>1 DEF SearchTree
<1>4. /\ LegalSuffix
      /\ chain.start = request.time /\ chain.at[chain.start] = request.start
      /\ request.start \in Cells \ blocked
      /\ IsVertexFree(table, request.start, request.time, request.robot)
  BY <1>1 DEF IInv, SuffixIsLegal, SearchTree, Current, StartState
<1>5. LegalSuffix'
  BY <1>1, <1>4 DEF LegalSuffix, LegalStep, HoldableFrom, searchVars
<1>6. SuffixIsLegal'
  BY <1>1, <1>4, <1>5 DEF SuffixIsLegal, searchVars
<1>. QED  BY <1>1, <1>2, <1>3, <1>6, PlannerStepReduces

LEMMA PlanKeepsInvariant == IInv /\ Plan => IInv'
BY RejectIsSafe, OpenSearchIsSafe, ArriveIsSafe, CutOffIsSafe, ExpandIsSafe,
   GiveUpIsSafe, TraceBackIsSafe, ReturnRouteIsSafe DEF Plan, PlannerStep

-----------------------------------------------------------------------------
(* The end of an iteration of the planning loop.                           *)

(* Going on to the next robot, or to the summary, keeps the order.         *)
LEMMA AdvanceIsSafe ==
  ASSUME IInv, stage = "planning", phase = "done", Advance,
         UNCHANGED <<blocked, requestVars>>, table' \in Tables,
         Planned' \cup failed' = Planned \cup failed \cup {request.robot}
  PROVE  /\ PlannerTypeOK' /\ TurnOrder' /\ SearchTree' /\ SuffixIsLegal'
         /\ NeverRaises' /\ stage' \in Stages /\ turn' \in 1 .. Len(order)
<1>1. /\ TypeOK /\ turn \in Nat /\ turn >= 1 /\ turn <= Len(order)
      /\ Len(order) \in Nat /\ IsPermutation(order) /\ request.robot = order[turn]
      /\ Planned \cup failed = {order[i] : i \in 1 .. turn - 1}
      /\ UNCHANGED <<blocked, starts, goals, order>> /\ blocked' \in SUBSET Cells
  <2>1. TypeOK /\ FleetTypeOK /\ PlannerTypeOK /\ TurnOrder
    BY DEF IInv, TypeOK
  <2>2. turn \in 1 .. Len(order) /\ order \in Seq(Robots)
    BY <2>1 DEF FleetTypeOK
  <2>3. turn \in Nat /\ turn >= 1 /\ turn <= Len(order) /\ Len(order) \in Nat
    BY <2>2
  <2>4. /\ IsPermutation(order) /\ request.robot = order[turn]
        /\ Planned \cup failed = {order[i] : i \in 1 .. turn - 1}
    BY <2>1 DEF TurnOrder
  <2>5. UNCHANGED <<blocked, starts, goals, order>> /\ blocked' \in SUBSET Cells
    BY <2>1 DEF requestVars, PlannerTypeOK
  <2>. QED  BY <2>1, <2>3, <2>4, <2>5
<1>2. CASE turn < Len(order)
  <2>1. /\ turn' = turn + 1 /\ CallPlannerFor(order[turn + 1]) /\ stage' = stage
        /\ turn + 1 \in 1 .. Len(order)
    BY <1>1, <1>2 DEF Advance
  <2>2. /\ PlannerTypeOK' /\ phase' = "called"
        /\ request'.robot = order[turn + 1] /\ request'.time = 0
        /\ request'.start = starts[order[turn + 1]]
        /\ request'.goal = goals[order[turn + 1]]
    BY <1>1, <2>1, CallIsReady
  <2>3. Planned' \cup failed' = {order[i] : i \in 1 .. (turn + 1) - 1}
    <3>1. 1 .. (turn + 1) - 1 = (1 .. turn - 1) \cup {turn}
      BY <1>1
    <3>. QED  BY <1>1, <3>1
  <2>4. IsPermutation(order)'
    BY <1>1 DEF IsPermutation
  <2>5. TurnOrder'
    BY <1>1, <2>1, <2>2, <2>3, <2>4 DEF TurnOrder
  <2>. QED
    BY <1>1, <2>1, <2>2, <2>5 DEF SearchTree, SuffixIsLegal, NeverRaises, Stages
<1>3. CASE ~ (turn < Len(order))
  <2>1. /\ stage' = "planned"
        /\ UNCHANGED <<turn, request, phase, searchVars, outcome>>
    BY <1>3 DEF Advance
  <2>2. PlannerTypeOK'
    BY <1>1, <2>1 DEF TypeOK, PlannerTypeOK, searchVars
  <2>. QED
    BY <1>1, <2>1, <2>2 DEF TurnOrder, SearchTree, SuffixIsLegal, NeverRaises,
       Stages
<1>. QED  BY <1>2, <1>3

(* The robot whose turn it is has not been answered before.                *)
LEMMA TurnIsFresh ==
  ASSUME IInv, stage = "planning"
  PROVE  request.robot \in Robots /\ request.robot \notin Planned \cup failed
<1>1. /\ turn \in 1 .. Len(order) /\ order \in Seq(Robots)
      /\ IsPermutation(order) /\ request.robot = order[turn]
      /\ Planned \cup failed = {order[i] : i \in 1 .. turn - 1}
  BY DEF IInv, TypeOK, FleetTypeOK, TurnOrder
<1>2. \A i \in 1 .. turn - 1 : order[i] # order[turn]
  BY <1>1 DEF IsPermutation
<1>. QED  BY <1>1, <1>2

LEMMA RecordFailureKeepsInvariant == IInv /\ RecordFailure => IInv'
<1> SUFFICES ASSUME IInv, RecordFailure PROVE IInv'
  OBVIOUS
<1>1. /\ stage = "planning" /\ phase = "done" /\ Advance
      /\ failed' = failed \cup {request.robot}
      /\ UNCHANGED <<blocked, table, requestVars, paths, starts, goals, order>>
      /\ request.robot \in Robots /\ table' \in Tables
  BY TurnIsFresh DEF RecordFailure, requestVars, IInv, TypeOK, PlannerTypeOK
<1>2. Planned' \cup failed' = Planned \cup failed \cup {request.robot}
  BY <1>1 DEF Planned
<1>3. /\ PlannerTypeOK' /\ TurnOrder' /\ SearchTree' /\ SuffixIsLegal'
      /\ NeverRaises' /\ stage' \in Stages /\ turn' \in 1 .. Len(order)
  BY <1>1, <1>2, AdvanceIsSafe
<1>4. FleetTypeOK'
  BY <1>1, <1>3 DEF IInv, TypeOK, FleetTypeOK, Planned
<1>5. TableHoldsThePlans' /\ RoutesAreWalks'
  BY <1>1 DEF IInv, TableHoldsThePlans, RoutesAreWalks, Planned
<1>6. ConflictFree'
  BY <1>1 DEF IInv, ConflictFree, Planned
<1>. QED  BY <1>3, <1>4, <1>5, <1>6 DEF IInv, TypeOK

(* Two routes are compatible in either order.                              *)
LEMMA CompatibleIsSymmetric ==
  ASSUME NEW p, NEW q, Promise!Compatible(p, q)
  PROVE  Promise!Compatible(q, p)
BY DEF Promise!Compatible

(* Reserving a route adds exactly its cells and edges.                     *)
LEMMA ReserveTypes ==
  ASSUME table \in Tables, IsTimedPath(chain), chain.start = 0,
         NEW r \in Robots
  PROVE  ReserveTimedPath(table, r, chain) \in Tables
<1>1. \A k \in PathVertices(chain) : k[1] \in Cells /\ k[2] \in Times
  BY PositionOnPath DEF PathVertices, Times
<1>2. \A k \in PathEdges(chain) :
        k[1] \in Cells /\ k[2] \in Cells /\ k[3] \in Times
  <2>1. ASSUME NEW k \in PathEdges(chain)
        PROVE  k[1] \in Cells /\ k[2] \in Cells /\ k[3] \in Times
    <3>1. /\ k[3] \in 0 .. chain.arrival - 1
          /\ k[1] = chain.at[k[3]] /\ k[2] = chain.at[k[3]+1]
      BY EdgesArePositions
    <3>2. k[3] \in 0 .. chain.arrival /\ k[3] + 1 \in 0 .. chain.arrival
          /\ k[3] \in Times
      BY <3>1, HorizonAssumption DEF IsTimedPath, Times
    <3>. QED  BY <3>1, <3>2 DEF IsTimedPath
  <2>. QED  BY <2>1
<1>3. {<<k[1], k[2], r>> : k \in PathVertices(chain)} \in
        SUBSET (Cells \X Times \X Robots)
  BY <1>1
<1>4. {<<k[1], k[2], k[3], r>> : k \in PathEdges(chain)} \in
        SUBSET (Cells \X Cells \X Times \X Robots)
  BY <1>2
<1>. QED  BY <1>3, <1>4 DEF Tables, ReserveTimedPath

LEMMA ReserveKeepsInvariant == IInv /\ Reserve => IInv'
<1> SUFFICES ASSUME IInv, Reserve PROVE IInv'
  OBVIOUS
<1> DEFINE r == request.robot
<1>1. /\ stage = "planning" /\ phase = "done" /\ outcome = "found" /\ Advance
      /\ table' = ReserveTimedPath(table, r, chain)
      /\ paths' = [q \in Planned \cup {r} |-> IF q = r THEN chain ELSE paths[q]]
      /\ UNCHANGED <<blocked, requestVars, failed, starts, goals, order>>
  BY RouteDoesNotClash DEF Reserve, requestVars
<1>2. r \in Robots /\ r \notin Planned
  BY <1>1, TurnIsFresh
<1>3. /\ IsTimedPath(chain) /\ chain.start = 0 /\ chain.at[0] = starts[r]
      /\ Goal(chain) = goals[r] /\ starts[r] \notin blocked
      /\ \A t \in 0 .. chain.arrival - 1 :
           LegalStep(chain.at[t], chain.at[t+1], t)
  BY <1>1 DEF IInv, TurnOrder, SuffixIsLegal, LegalSuffix
<1>4. /\ Planned' = Planned \cup {r} /\ paths'[r] = chain
      /\ \A q \in Planned : paths'[q] = paths[q]
  BY <1>1, <1>2 DEF Planned
<1>5. table' \in Tables
  BY <1>1, <1>2, <1>3, ReserveTypes DEF IInv, TypeOK, PlannerTypeOK
<1>6. Planned' \cup failed' = Planned \cup failed \cup {request.robot}
  BY <1>1, <1>4
<1>7. /\ PlannerTypeOK' /\ TurnOrder' /\ SearchTree' /\ SuffixIsLegal'
      /\ NeverRaises' /\ stage' \in Stages /\ turn' \in 1 .. Len(order)
  BY <1>1, <1>5, <1>6, AdvanceIsSafe
<1> HIDE DEF r
<1>8. FleetTypeOK'
  BY <1>1, <1>2, <1>3, <1>4, <1>7 DEF IInv, TypeOK, FleetTypeOK
<1>9. TableHoldsThePlans'
  <2>1. table'.vertices = UNION {{<<k[1], k[2], q>> : k \in PathVertices(paths'[q])} :
                                 q \in Planned'}
    <3> DEFINE old == UNION {{<<k[1], k[2], q>> : k \in PathVertices(paths[q])} :
                              q \in Planned}
               added == {<<k[1], k[2], r>> : k \in PathVertices(chain)}
               new == UNION {{<<k[1], k[2], q>> : k \in PathVertices(paths'[q])} :
                              q \in Planned'}
    <3>1. table'.vertices = old \cup added
      BY <1>1 DEF IInv, TableHoldsThePlans, ReserveTimedPath
    <3>2. ASSUME NEW x \in new PROVE x \in old \cup added
      <4>1. PICK q \in Planned' : x \in {<<k[1], k[2], q>> : k \in PathVertices(paths'[q])}
        BY <3>2
      <4>2. CASE q = r
        BY <1>4, <4>1, <4>2
      <4>3. CASE q \in Planned
        BY <1>4, <4>1, <4>3
      <4>. QED  BY <1>4, <4>1, <4>2, <4>3
    <3>3. ASSUME NEW x \in old PROVE x \in new
      <4>1. PICK q \in Planned : x \in {<<k[1], k[2], q>> : k \in PathVertices(paths[q])}
        BY <3>3
      <4>2. q \in Planned' /\ paths'[q] = paths[q]
        BY <1>4
      <4>3. x \in {<<k[1], k[2], q>> : k \in PathVertices(paths'[q])}
        BY <4>1, <4>2
      <4>. QED  BY <4>2, <4>3
    <3>4. ASSUME NEW x \in added PROVE x \in new
      <4>1. r \in Planned' /\ x \in {<<k[1], k[2], r>> : k \in PathVertices(paths'[r])}
        BY <1>4, <3>4
      <4>. QED  BY <4>1
    <3> HIDE DEF old, added, new
    <3>5. new = old \cup added
      BY <3>2, <3>3, <3>4
    <3>. QED  BY <3>1, <3>5 DEF new
  <2>2. table'.edges = UNION {{<<k[1], k[2], k[3], q>> : k \in PathEdges(paths'[q])} :
                                 q \in Planned'}
    <3> DEFINE old == UNION {{<<k[1], k[2], k[3], q>> : k \in PathEdges(paths[q])} :
                              q \in Planned}
               added == {<<k[1], k[2], k[3], r>> : k \in PathEdges(chain)}
               new == UNION {{<<k[1], k[2], k[3], q>> : k \in PathEdges(paths'[q])} :
                              q \in Planned'}
    <3>1. table'.edges = old \cup added
      BY <1>1 DEF IInv, TableHoldsThePlans, ReserveTimedPath
    <3>2. ASSUME NEW x \in new PROVE x \in old \cup added
      <4>1. PICK q \in Planned' : x \in {<<k[1], k[2], k[3], q>> : k \in PathEdges(paths'[q])}
        BY <3>2
      <4>2. CASE q = r
        BY <1>4, <4>1, <4>2
      <4>3. CASE q \in Planned
        BY <1>4, <4>1, <4>3
      <4>. QED  BY <1>4, <4>1, <4>2, <4>3
    <3>3. ASSUME NEW x \in old PROVE x \in new
      <4>1. PICK q \in Planned : x \in {<<k[1], k[2], k[3], q>> : k \in PathEdges(paths[q])}
        BY <3>3
      <4>2. q \in Planned' /\ paths'[q] = paths[q]
        BY <1>4
      <4>3. x \in {<<k[1], k[2], k[3], q>> : k \in PathEdges(paths'[q])}
        BY <4>1, <4>2
      <4>. QED  BY <4>2, <4>3
    <3>4. ASSUME NEW x \in added PROVE x \in new
      <4>1. r \in Planned' /\ x \in {<<k[1], k[2], k[3], r>> : k \in PathEdges(paths'[r])}
        BY <1>4, <3>4
      <4>. QED  BY <4>1
    <3> HIDE DEF old, added, new
    <3>5. new = old \cup added
      BY <3>2, <3>3, <3>4
    <3>. QED  BY <3>1, <3>5 DEF new
  <2>. QED  BY <2>1, <2>2 DEF TableHoldsThePlans
<1>10. RoutesAreWalks'
  <2>1. ASSUME NEW t \in 0 .. chain.arrival PROVE chain.at[t] \notin blocked
    <3>1. CASE t = 0
      BY <1>3, <3>1
    <3>2. CASE t # 0
      <4>1. chain.arrival \in Nat
        BY <1>3, HorizonAssumption DEF IsTimedPath, Times
      <4>2. t - 1 \in 0 .. chain.arrival - 1 /\ (t - 1) + 1 = t
        BY <3>2, <4>1
      <4>3. LegalStep(chain.at[t-1], chain.at[(t-1)+1], t - 1)
        BY <1>3, <4>2
      <4>. QED  BY <4>2, <4>3 DEF LegalStep
    <3>. QED  BY <3>1, <3>2
  <2>2. \A t \in 0 .. chain.arrival - 1 :
          chain.at[t+1] = chain.at[t] \/ AdjacentTo(chain.at[t], chain.at[t+1])
    BY <1>3 DEF LegalStep
  <2>3. ASSUME NEW q \in Planned
        PROVE  /\ paths[q].start = 0 /\ paths[q].at[0] = starts[q]
               /\ Goal(paths[q]) = goals[q]
               /\ \A t \in 0 .. paths[q].arrival : paths[q].at[t] \notin blocked
               /\ \A t \in 0 .. paths[q].arrival - 1 :
                    \/ paths[q].at[t+1] = paths[q].at[t]
                    \/ AdjacentTo(paths[q].at[t], paths[q].at[t+1])
    BY DEF IInv, RoutesAreWalks
  <2>. QED  BY <1>1, <1>3, <1>4, <2>1, <2>2, <2>3 DEF RoutesAreWalks
<1>11. ConflictFree'
  <2>1. ASSUME NEW p \in Planned', NEW q \in Planned', p # q
        PROVE  Promise!Compatible(paths'[p], paths'[q])
    <3>1. CASE p \in Planned /\ q \in Planned
      BY <1>4, <2>1, <3>1 DEF IInv, ConflictFree
    <3>2. CASE p = r /\ q \in Planned
      BY <1>1, <1>2, <1>4, <3>2, RouteIsCompatible DEF r
    <3>3. CASE p \in Planned /\ q = r
      BY <1>1, <1>2, <1>4, <3>3, RouteIsCompatible, CompatibleIsSymmetric DEF r
    <3>. QED  BY <1>4, <2>1, <3>1, <3>2, <3>3
  <2>. QED  BY <2>1 DEF ConflictFree
<1>. QED  BY <1>7, <1>8, <1>9, <1>10, <1>11 DEF IInv, TypeOK

-----------------------------------------------------------------------------
(* The theorems.                                                           *)

LEMMA StutterKeepsInvariant == IInv /\ UNCHANGED vars => IInv'
<1> SUFFICES ASSUME IInv, UNCHANGED vars PROVE IInv'
  OBVIOUS
<1>1. /\ UNCHANGED <<table, paths, failed, turn, starts, goals, order, blocked,
                     stage>>
      /\ UNCHANGED <<request, phase, frontier, tickets, cameFrom, chain, outcome>>
  BY DEF vars, plannerVars, searchVars, requestVars
<1>2. FleetTypeOK' /\ TableHoldsThePlans' /\ RoutesAreWalks' /\ ConflictFree'
      /\ NeverRaises'
  BY <1>1, FleetUnchanged
<1>3. PlannerTypeOK' /\ TurnOrder'
  BY <1>1 DEF IInv, TypeOK, PlannerTypeOK, TurnOrder, IsPermutation, Planned
<1>4. SearchTree'
  BY <1>1 DEF IInv, SearchTree, Generated, StartState, LegalStep
<1>5. SuffixIsLegal'
  BY <1>1 DEF IInv, SuffixIsLegal, LegalSuffix, LegalStep, HoldableFrom,
     Generated, StartState, Current
<1>. QED  BY <1>2, <1>3, <1>4, <1>5 DEF IInv, TypeOK

LEMMA NextKeepsInvariant == IInv /\ [CoordinatorNext]_vars => IInv'
BY RefuseKeepsInvariant, BeginKeepsInvariant, PlanKeepsInvariant,
   ReserveKeepsInvariant, RecordFailureKeepsInvariant, StutterKeepsInvariant
   DEF CoordinatorNext

(* The invariant is inductive: true at first, kept by every action of the  *)
(* coordinator and of the planner it calls.                                *)
THEOREM Invariance == Spec => []IInv
BY InitInvariant, NextKeepsInvariant, PTL DEF Spec

(* The variables of coordinator and planner keep their types.              *)
THEOREM TypeCorrect == Spec => []TypeOK
<1>1. IInv => TypeOK
  BY DEF IInv
<1>. QED  BY <1>1, Invariance, PTL

(* For every grid, fleet, horizon, layout, request and priority order, the *)
(* timed paths handed out never meet on a cell or trade cells, through the *)
(* horizon (coordinator.py:23-28).                                         *)
THEOREM PlansAreConflictFree == Spec => []ConflictFree
<1>1. IInv => ConflictFree
  BY DEF IInv
<1>. QED  BY <1>1, Invariance, PTL

LEMMA SafePlansPass == IInv => PassesTheCheck
<1> SUFFICES ASSUME IInv PROVE ~ HasProblems(paths, blocked)
  BY DEF PassesTheCheck
<1>1. ASSUME NEW r \in Planned PROVE ~ PathProblem(paths[r], blocked)
  <2> DEFINE p == paths[r]
  <2>1. /\ IsTimedPath(p) /\ p.start = 0
        /\ \A t \in 0 .. p.arrival : p.at[t] \notin blocked
        /\ \A t \in 0 .. p.arrival - 1 :
             p.at[t+1] = p.at[t] \/ AdjacentTo(p.at[t], p.at[t+1])
    BY DEF IInv, RoutesAreWalks, TypeOK, FleetTypeOK
  <2>2. \A t \in 0 .. p.arrival : p.at[t] \in Cells
    BY <2>1 DEF IsTimedPath
  <2>3. ASSUME NEW t \in 0 .. p.arrival - 1
        PROVE  ManhattanDistance(p.at[t], p.at[t+1]) \in {0, 1}
    <3>1. t \in 0 .. p.arrival /\ t + 1 \in 0 .. p.arrival
      BY <2>1 DEF IsTimedPath, Times
    <3>2. p.at[t] \in Cells /\ p.at[t+1] \in Cells
      BY <2>2, <3>1
    <3>3. CASE p.at[t+1] = p.at[t]
      BY <3>2, <3>3, DimensionAssumption DEF ManhattanDistance, Distance, Cells
    <3>4. CASE AdjacentTo(p.at[t], p.at[t+1])
      BY <3>4 DEF AdjacentTo
    <3>. QED  BY <2>1, <3>3, <3>4
  <2>. QED  BY <2>1, <2>2, <2>3 DEF PathProblem
<1>2. ASSUME NEW q \in Planned, NEW r \in Planned, q # r
      PROVE  /\ \A t \in Times : PositionAt(paths[q], t) # PositionAt(paths[r], t)
             /\ \A t \in 0 .. Horizon - 1 :
                  ~ /\ PositionAt(paths[q], t) = PositionAt(paths[r], t + 1)
                    /\ PositionAt(paths[r], t) = PositionAt(paths[q], t + 1)
  <2>1. Promise!Compatible(paths[q], paths[r])
    BY <1>2 DEF IInv, ConflictFree
  <2>. QED  BY <2>1 DEF Promise!Compatible, Promise!Times, Promise!PositionAt,
                 Promise!Goal, Times, PositionAt, Goal
<1>3. ASSUME NEW r \in Planned PROVE IsTimedPath(paths[r])
  BY DEF IInv, TypeOK, FleetTypeOK
<1>4. ~ VertexConflict(paths)
  BY <1>2 DEF VertexConflict, ReplayTimes, Planned
<1>5. ~ EdgeConflict(paths)
  <2> SUFFICES ASSUME NEW t \in Times, NEW q \in Planned, NEW r \in Planned,
                      WithinMakespan(paths, t + 1),
                      PositionAt(paths[q], t) # PositionAt(paths[q], t + 1),
                      PositionAt(paths[r], t) = PositionAt(paths[q], t + 1),
                      PositionAt(paths[r], t + 1) = PositionAt(paths[q], t)
               PROVE  FALSE
    BY DEF EdgeConflict, ReplayTimes, Planned
  <2>1. q # r
    OBVIOUS
  <2>2. t \in 0 .. Horizon - 1
    BY <1>3, HorizonAssumption DEF WithinMakespan, IsTimedPath, Times, Planned
  <2>. QED  BY <1>2, <2>1, <2>2
<1>6. ~ GoalOccupied(paths)
  <2> SUFFICES ASSUME NEW t \in Times, NEW q \in Planned, NEW r \in Planned,
                      q # r, t >= paths[q].arrival,
                      PositionAt(paths[r], t) = Goal(paths[q])
               PROVE  FALSE
    BY DEF GoalOccupied, ReplayTimes, Planned
  <2>1. PositionAt(paths[q], t) = Goal(paths[q])
    BY <1>3, HorizonAssumption DEF PositionAt, Goal, IsTimedPath, Times
  <2>. QED  BY <1>2, <2>1
<1>. QED  BY <1>1, <1>4, <1>5, <1>6 DEF HasProblems, Planned

(* Whatever is planned passes the independent check of conflicts.py, with  *)
(* obstacles and all: bounds, steps, cells, swaps and parked robots.       *)
THEOREM PlansPassTheCheck == Spec => []PassesTheCheck
BY SafePlansPass, Invariance, PTL

(* Every timed path starts where its robot stands, ends at its goal and    *)
(* walks over walkable cells.                                              *)
THEOREM PlansAreWalks == Spec => []RoutesAreWalks
<1>1. IInv => RoutesAreWalks
  BY DEF IInv
<1>. QED  BY <1>1, Invariance, PTL

(* reserve_timed_path never finds a foreign reservation in its way         *)
(* (coordinator.py:130-133).                                               *)
THEOREM ReservingNeverRaises == Spec => []NeverRaises
<1>1. IInv => NeverRaises
  BY DEF IInv
<1>. QED  BY <1>1, Invariance, PTL

LEMMA InitAnsweredOnce == Init => AnsweredOnce
BY DEF Init, AnsweredOnce, EveryRobotAnswered, Planned

(* The robot answered at the last turn was the last one missing.           *)
LEMMA LastTurnAnswersAll ==
  ASSUME IInv, stage = "planning", Advance,
         Planned' \cup failed' = Planned \cup failed \cup {request.robot}
  PROVE  stage' = "planned" => Planned' \cup failed' = Robots
<1>1. /\ turn \in 1 .. Len(order) /\ order \in Seq(Robots)
      /\ IsPermutation(order) /\ request.robot = order[turn]
      /\ Planned \cup failed = {order[i] : i \in 1 .. turn - 1}
  BY DEF IInv, TypeOK, FleetTypeOK, TurnOrder
<1>2. SUFFICES ASSUME stage' = "planned"
               PROVE  Planned' \cup failed' = Robots
  OBVIOUS
<1>3. ~ (turn < Len(order))
  BY <1>2 DEF Advance
<1>4. Len(order) \in Nat
  BY <1>1
<1>5. turn = Len(order) /\ 1 .. Len(order) = (1 .. turn - 1) \cup {turn}
  <2>1. turn \in Nat /\ 1 <= turn /\ turn <= Len(order)
    BY <1>1, <1>4
  <2>2. turn = Len(order)
    BY <1>3, <1>4, <2>1
  <2>. QED  BY <2>1, <2>2
<1>6. Robots = {order[i] : i \in 1 .. Len(order)}
  <2>1. DOMAIN order = 1 .. Len(order)
    BY <1>1
  <2>. QED  BY <1>1, <2>1 DEF IsPermutation
<1>7. {order[i] : i \in 1 .. Len(order)}
        = {order[i] : i \in 1 .. turn - 1} \cup {order[turn]}
  BY <1>5
<1>. QED  BY <1>1, <1>6, <1>7

LEMMA NextKeepsAnsweredOnce ==
  IInv /\ AnsweredOnce /\ [CoordinatorNext]_vars => AnsweredOnce'
<1> SUFFICES ASSUME IInv, AnsweredOnce, [CoordinatorNext]_vars PROVE AnsweredOnce'
  OBVIOUS
<1>1. CASE Reserve
  <2>1. /\ stage = "planning" /\ failed' = failed /\ Advance
        /\ Planned' = Planned \cup {request.robot}
    BY <1>1, RouteDoesNotClash DEF Reserve, Planned
  <2>2. request.robot \notin failed
    BY <2>1, TurnIsFresh
  <2>3. stage' = "planned" => Planned' \cup failed' = Robots
    BY <2>1, LastTurnAnswersAll
  <2>. QED  BY <2>1, <2>2, <2>3 DEF AnsweredOnce, EveryRobotAnswered
<1>2. CASE RecordFailure
  <2>1. /\ stage = "planning" /\ failed' = failed \cup {request.robot} /\ Advance
        /\ Planned' = Planned
    BY <1>2 DEF RecordFailure, Planned
  <2>2. request.robot \notin Planned
    BY <2>1, TurnIsFresh
  <2>3. stage' = "planned" => Planned' \cup failed' = Robots
    BY <2>1, LastTurnAnswersAll
  <2>. QED  BY <2>1, <2>2, <2>3 DEF AnsweredOnce, EveryRobotAnswered
<1>3. CASE Refuse \/ Begin \/ Plan
  <2>1. /\ UNCHANGED <<paths, failed>> /\ Planned' = Planned
        /\ stage' = "planned" => stage = "planned"
    BY <1>3 DEF Refuse, Begin, Plan, Planned
  <2>. QED  BY <2>1 DEF AnsweredOnce, EveryRobotAnswered
<1>4. CASE UNCHANGED vars
  BY <1>4 DEF vars, AnsweredOnce, EveryRobotAnswered, Planned
<1>. QED  BY <1>1, <1>2, <1>3, <1>4 DEF CoordinatorNext

(* The books agree with the plan at every moment, for every fleet and      *)
(* order: nothing raises, the table holds the routes handed out and        *)
(* nothing else, every robot gets exactly one answer (coordinator.py:118). *)
THEOREM BooksAgree == Spec => []BooksMatchThePlan
<1>1. Spec => []AnsweredOnce
  BY InitAnsweredOnce, NextKeepsAnsweredOnce, Invariance, PTL DEF Spec
<1>2. IInv /\ AnsweredOnce => BooksMatchThePlan
  BY DEF IInv, AnsweredOnce, BooksMatchThePlan
<1>. QED  BY <1>1, <1>2, Invariance, PTL

(* A plan may be driven, for every grid, fleet, horizon and order.         *)
THEOREM PlansMayBeDriven == Spec => []PlansAreSafe
<1>1. RoutesAreWalks /\ ConflictFree /\ PassesTheCheck => PlansAreSafe
  BY DEF PlansAreSafe
<1>. QED  BY <1>1, PlansAreWalks, PlansAreConflictFree, PlansPassTheCheck, PTL

(* Planning implements the abstract promise: a route that clears all routes *)
(* handed out before is handed out, or the robot is put off; nothing else  *)
(* ever happens to the plan (coordinator.py:118-142).                      *)
THEOREM ImplementsThePromise == Spec => KeepsThePromise
<1>1. Init => Promise!Init
  BY DEF Init, Promise!Init
<1>2. ASSUME IInv, [CoordinatorNext]_vars
      PROVE  [Promise!Next]_(Promise!vars)
  <2>1. CASE Reserve
    <3> DEFINE r == request.robot
    <3>1. /\ stage = "planning" /\ phase = "done" /\ outcome = "found"
          /\ paths' = [q \in Planned \cup {r} |-> IF q = r THEN chain ELSE paths[q]]
          /\ UNCHANGED failed
      BY <1>2, <2>1, RouteDoesNotClash DEF Reserve
    <3>2. r \in Robots /\ r \notin Promise!Answered
      BY <1>2, <3>1, TurnIsFresh DEF Promise!Answered, Planned
    <3>3. /\ DOMAIN paths' = DOMAIN paths \cup {r}
          /\ paths'[r] = chain
          /\ \A q \in DOMAIN paths : paths'[q] = paths[q]
      BY <3>1, <3>2 DEF Planned, Promise!Answered
    <3>4. \A q \in DOMAIN paths : Promise!Compatible(chain, paths[q])
      BY <1>2, <3>1, <3>2, RouteIsCompatible DEF Planned, Promise!Answered
    <3>5. Promise!IsWalk(chain)
      BY <1>2, <3>1 DEF IInv, TurnOrder, SuffixIsLegal, LegalSuffix, LegalStep,
         IsTimedPath, Times, Cells, AdjacentTo, ManhattanDistance, Distance,
         Promise!IsWalk, Promise!IsTimedPath, Promise!Times, Promise!Cells,
         Promise!AdjacentTo, Promise!ManhattanDistance, Promise!Distance
    <3> HIDE DEF r
    <3>6. Promise!HandOut(r)
      BY <3>1, <3>2, <3>3, <3>4, <3>5 DEF Promise!HandOut
    <3>. QED  BY <3>2, <3>6 DEF Promise!Next
  <2>2. CASE RecordFailure
    <3>1. /\ stage = "planning" /\ failed' = failed \cup {request.robot}
          /\ UNCHANGED paths
      BY <2>2 DEF RecordFailure
    <3>2. request.robot \in Robots /\ request.robot \notin Promise!Answered
      BY <1>2, <3>1, TurnIsFresh DEF Promise!Answered, Planned
    <3>. QED  BY <3>1, <3>2 DEF Promise!Next, Promise!PutOff
  <2>3. CASE Refuse \/ Begin \/ Plan \/ UNCHANGED vars
    BY <2>3 DEF Refuse, Begin, Plan, vars, Promise!vars
  <2>. QED  BY <1>2, <2>1, <2>2, <2>3 DEF CoordinatorNext
<1>. QED  BY <1>1, <1>2, Invariance, PTL DEF Spec, KeepsThePromise, Promise!Spec
-----------------------------------------------------------------------------
(***************************************************************************)
(* The search of the planner is exact, for every grid, table and horizon:  *)
(* it finds a route whenever one fits, and one that arrives as early as    *)
(* any.  The argument is that of A-star: every cell a robot can be in at   *)
(* some time has been looked at, or lies behind an entry of the heap which *)
(* promises to be no later.                                                *)
(***************************************************************************)

-----------------------------------------------------------------------------
(* The reference: layers of cells a robot can be in.                       *)

(* The cells a robot can go on to from the cells of S at time t.           *)
Onwards(S, t) == {d \in Cells : \E c \in S : LegalStep(c, d, t)}

LEMMA LayersDef ==
  ASSUME request.time = 0, request.start \in Cells
  PROVE  /\ Layers \in [Times -> SUBSET Cells]
         /\ Layers[0] = {request.start}
         /\ \A t \in 1 .. Horizon : Layers[t] = Onwards(Layers[t-1], t - 1)
<1> DEFINE F == [p \in (1 .. Horizon) \X SUBSET Cells |-> Onwards(p[2], p[1] - 1)]
<1>1. Horizon \in Nat /\ Times = 0 .. Horizon
  BY HorizonAssumption DEF Times
<1>2. F \in Rules(Horizon, SUBSET Cells)
  BY DEF Onwards, Rules
<1>3. PICK f : Follows(f, Horizon, SUBSET Cells, {request.start}, F)
  <2> HIDE DEF F
  <2>1. {request.start} \in SUBSET Cells
    OBVIOUS
  <2>. QED  BY <1>1, <1>2, <2>1, LayersExist
<1>4. \A n \in 1 .. Horizon : f[n] = Onwards(f[n-1], n - 1)
  <2>1. ASSUME NEW n \in 1 .. Horizon PROVE f[n] = Onwards(f[n-1], n - 1)
    <3>1. n - 1 \in 0 .. Horizon /\ f[n-1] \in SUBSET Cells
      BY <1>1, <1>3 DEF Follows
    <3>2. F[<<n, f[n-1]>>] = Onwards(f[n-1], n - 1)
      BY <3>1
    <3> HIDE DEF F
    <3>. QED  BY <1>3, <3>2 DEF Follows
  <2>. QED  BY <2>1
<1> DEFINE G(g) ==
  [t \in Times |->
     IF t < request.time THEN {}
     ELSE IF t = request.time THEN {request.start}
     ELSE {n \in Cells \ blocked :
             \E c \in g[t-1] :
               /\ n = c \/ AdjacentTo(c, n)
               /\ IsMoveAllowed(table, c, n, t - 1, request.robot)}]
<1>5. ASSUME NEW g, NEW t
      PROVE  Onwards(g[t-1], t - 1)
               = {n \in Cells \ blocked :
                    \E c \in g[t-1] :
                      /\ n = c \/ AdjacentTo(c, n)
                      /\ IsMoveAllowed(table, c, n, t - 1, request.robot)}
  BY DEF Onwards, LegalStep
<1>6. \A g : G(g) = [t \in Times |-> IF t = 0 THEN {request.start}
                                     ELSE Onwards(g[t-1], t - 1)]
  <2>1. \A t \in Times : ~ (t < request.time)
    BY <1>1
  <2>. QED  BY <1>5, <2>1
<1>7. f = G(f)
  <2> HIDE DEF F, G
  <2>1. \A n \in 0 .. Horizon : n = 0 \/ n \in 1 .. Horizon
    BY <1>1
  <2>2. \A n \in 0 .. Horizon : f[n] = IF n = 0 THEN {request.start}
                                       ELSE Onwards(f[n-1], n - 1)
    BY <1>3, <1>4, <2>1 DEF Follows
  <2>. QED  BY <1>1, <1>3, <1>6, <2>2 DEF Follows
<1>8. Layers = CHOOSE g : g = G(g)
  BY Zenon DEF Layers
<1>9. Layers = G(Layers)
  <2> HIDE DEF G
  <2>. QED  BY <1>7, <1>8
<1> DEFINE r == Layers
<1>10. r = [t \in 0 .. Horizon |-> IF t = 0 THEN {request.start}
                                   ELSE Onwards(r[t-1], t - 1)]
  <2> HIDE DEF G
  <2>. QED  BY <1>1, <1>6, <1>9
<1> HIDE DEF F, G, r
<1>11. DOMAIN r = 0 .. Horizon /\ r[0] = {request.start}
       /\ \A n \in 1 .. Horizon : r[n] = Onwards(r[n-1], n - 1)
  <2>1. 0 \in 0 .. Horizon /\ \A n \in 1 .. Horizon : n \in 0 .. Horizon /\ n # 0
    BY <1>1
  <2>2. DOMAIN r = 0 .. Horizon
    BY <1>10, Zenon
  <2>3. \A n \in 0 .. Horizon : r[n] = IF n = 0 THEN {request.start}
                                       ELSE Onwards(r[n-1], n - 1)
    BY <1>10, Zenon
  <2>. QED  BY <2>1, <2>2, <2>3
<1>12. \A n \in 0 .. Horizon : r[n] \in SUBSET Cells
  <2>1. \A n \in 0 .. Horizon : n = 0 \/ n \in 1 .. Horizon
    BY <1>1
  <2>. QED  BY <1>11, <2>1 DEF Onwards
<1>. QED  BY <1>1, <1>10, <1>11, <1>12 DEF r

LEMMA PlanningFacts ==
  ASSUME IInv, stage = "planning"
  PROVE  /\ request.time = 0 /\ request.time \in Times
         /\ request.robot \in Robots /\ request.start \in Cells
         /\ request.goal \in Int \X Int
         /\ Horizon \in Nat /\ Times = 0 .. Horizon
BY HorizonAssumption DEF IInv, TypeOK, PlannerTypeOK, TurnOrder, Times

(* The times at which the goal is free to the horizon begin with           *)
(* _earliest_goal_hold.                                                    *)
LEMMA HoldIsEarliest ==
  ASSUME IInv, stage = "planning", NEW t \in Times
  PROVE  EarliestGoalHold <= t <=> HoldableFrom(t)
<1>1. /\ EarliestGoalHold \in 0 .. Horizon + 1
      /\ \A u \in Times : u >= EarliestGoalHold => HoldableFrom(u)
      /\ \A u \in 0 .. EarliestGoalHold - 1 : ~ HoldableFrom(u)
  BY PlanningFacts, EarliestHold
<1>2. t \in Nat /\ EarliestGoalHold \in Nat
  BY <1>1, PlanningFacts
<1>3. CASE EarliestGoalHold <= t
  BY <1>1, <1>2, <1>3
<1>4. CASE ~ (EarliestGoalHold <= t)
  <2>1. t \in 0 .. EarliestGoalHold - 1
    BY <1>2, <1>4
  <2>. QED  BY <1>1, <1>4, <2>1
<1>. QED  BY <1>3, <1>4

(* What the goal has to satisfy at an arrival time.                        *)
LEMMA ParkingTimesDef ==
  ASSUME IInv, stage = "planning", NEW t
  PROVE  t \in ParkingTimes <=>
           t \in Times /\ request.goal \in Layers[t] /\ HoldableFrom(t)
BY PlanningFacts DEF ParkingTimes

LEMMA LayersAreCells ==
  ASSUME IInv, stage = "planning", NEW t \in Times, NEW c \in Layers[t]
  PROVE  c \in Cells
BY PlanningFacts, LayersDef

LEMMA LayerBefore ==
  ASSUME IInv, stage = "planning", NEW t \in 0 .. Horizon - 1, NEW c \in Layers[t+1]
  PROVE  \E b \in Layers[t] : b \in Cells /\ LegalStep(b, c, t)
<1>1. t \in Times /\ t + 1 \in 1 .. Horizon /\ (t + 1) - 1 = t
  BY PlanningFacts
<1>2. Layers[t+1] = Onwards(Layers[(t+1)-1], (t + 1) - 1)
  BY <1>1, PlanningFacts, LayersDef
<1>3. PICK b \in Layers[t] : LegalStep(b, c, t)
  BY <1>1, <1>2 DEF Onwards
<1>. QED  BY <1>1, <1>3, LayersAreCells

LEMMA LayerAfter ==
  ASSUME IInv, stage = "planning", NEW t \in 0 .. Horizon - 1, NEW b \in Layers[t],
         NEW c, LegalStep(b, c, t)
  PROVE  c \in Layers[t+1]
<1>1. t \in Times /\ t + 1 \in 1 .. Horizon /\ (t + 1) - 1 = t
  BY PlanningFacts
<1>2. Layers[t+1] = Onwards(Layers[(t+1)-1], (t + 1) - 1)
  BY <1>1, PlanningFacts, LayersDef
<1>3. c \in Cells
  BY DEF LegalStep
<1>. QED  BY <1>1, <1>2, <1>3 DEF Onwards

-----------------------------------------------------------------------------
(* The heap is ahead of every cell that has not been looked at.            *)

Behind(c, t) == \E o \in frontier : o.t + ManhattanDistance(o.cell, c) <= t

Seen(c, t) == <<c, t>> \in Generated /\ Explored(<<c, t>>)

LEMMA GeneratedIsSeenOrOpen ==
  ASSUME IInv, SearchIsThorough, stage = "planning", phase = "search",
         NEW c \in Cells, NEW t \in Times, <<c, t>> \in Generated
  PROVE  Seen(c, t) \/ Behind(c, t)
<1>1. CASE Explored(<<c, t>>)
  BY <1>1 DEF Seen
<1>2. CASE \E e \in frontier : <<c, t>> = <<e.cell, e.t>>
  <2>1. PICK e \in frontier : c = e.cell /\ t = e.t
    BY <1>2
  <2>2. ManhattanDistance(c, c) = 0 /\ t \in Nat
    BY DistanceIsNat, PlanningFacts
  <2>3. e.t + ManhattanDistance(e.cell, c) <= t
    BY <2>1, <2>2
  <2>. QED  BY <2>3 DEF Behind
<1>. QED  BY <1>1, <1>2 DEF SearchIsThorough

LEMMA HeapIsAhead ==
  ASSUME IInv, SearchIsThorough, stage = "planning", phase = "search",
         NEW t \in Times, NEW c \in Layers[t]
  PROVE  Seen(c, t) \/ Behind(c, t)
<1> DEFINE S == {u \in Times : \A d \in Layers[u] : Seen(d, u) \/ Behind(d, u)}
<1>1. /\ request.time = 0 /\ request.start \in Cells
      /\ Horizon \in Nat /\ Times = 0 .. Horizon
  BY PlanningFacts
<1>2. 0 \in S
  <2>1. Layers[0] = {request.start}
    BY <1>1, LayersDef
  <2>2. <<request.start, 0>> \in Generated
    BY <1>1 DEF Generated, StartState
  <2>3. Seen(request.start, 0) \/ Behind(request.start, 0)
    BY <1>1, <2>2, GeneratedIsSeenOrOpen
  <2>. QED  BY <1>1, <2>1, <2>3
<1>3. ASSUME NEW u \in 0 .. Horizon - 1, u \in S PROVE u + 1 \in S
  <2>1. u \in Times /\ u + 1 \in Times /\ u \in Nat /\ u < Horizon
    BY <1>1
  <2>2. ASSUME NEW d \in Layers[u+1] PROVE Seen(d, u + 1) \/ Behind(d, u + 1)
    <3>1. PICK b \in Layers[u] : b \in Cells /\ LegalStep(b, d, u)
      BY LayerBefore
    <3>2. d \in Cells
      BY <2>1, LayersAreCells
    <3>3. CASE Seen(b, u)
      <4>1. <<d, u + 1>> \in Generated
        BY <2>1, <3>1, <3>2, <3>3 DEF Seen, Explored
      <4>. QED  BY <2>1, <3>2, <4>1, GeneratedIsSeenOrOpen
    <3>4. CASE Behind(b, u)
      <4>1. PICK o \in frontier : o.t + ManhattanDistance(o.cell, b) <= u
        BY <3>4 DEF Behind
      <4>2. o.cell \in Cells /\ o.t \in Nat
        BY <1>1 DEF IInv, TypeOK, PlannerTypeOK
      <4>3. d = b \/ AdjacentTo(b, d)
        BY <3>1 DEF LegalStep
      <4>4. o.cell \in Int \X Int
        BY <4>2 DEF Cells
      <4>5. ManhattanDistance(o.cell, d) <= ManhattanDistance(o.cell, b) + 1
        BY <3>1, <3>2, <4>3, <4>4, StepsBringNearer
      <4>6. ManhattanDistance(o.cell, d) \in Nat /\ ManhattanDistance(o.cell, b) \in Nat
        BY <3>1, <3>2, <4>2, DistanceIsNat
      <4>7. o.t + ManhattanDistance(o.cell, d) <= u + 1
        BY <2>1, <4>1, <4>2, <4>5, <4>6
      <4>. QED  BY <4>7 DEF Behind
    <3>. QED  BY <1>3, <3>1, <3>3, <3>4
  <2>. QED  BY <2>1, <2>2
<1> HIDE DEF S
<1>4. 0 .. Horizon \subseteq S
  <2>1. 0 \in Nat /\ Horizon \in Nat /\ 0 \in S
    BY <1>1, <1>2
  <2>2. \A u \in 0 .. Horizon - 1 : u \in S => u + 1 \in S
    BY <1>3
  <2>. QED  BY <2>1, <2>2, IntervalInduction
<1>. QED  BY <1>1, <1>4 DEF S

(* As long as the search goes on, some entry of the heap is as early as    *)
(* any arrival time.                                                       *)
LEMMA ParkingIsAhead ==
  ASSUME IInv, SearchIsThorough, stage = "planning", phase = "search",
         NEW t \in ParkingTimes
  PROVE  Behind(request.goal, t)
<1>1. t \in Times /\ request.goal \in Layers[t] /\ HoldableFrom(t)
  BY ParkingTimesDef
<1>2. EarliestGoalHold <= t
  BY <1>1, HoldIsEarliest
<1>3. t \in Nat /\ EarliestGoalHold \in Nat
  BY <1>1, EarliestHold, PlanningFacts
<1>4. ~ Seen(request.goal, t)
  BY <1>2, <1>3 DEF Seen, Explored
<1>. QED  BY <1>1, <1>4, HeapIsAhead

-----------------------------------------------------------------------------
(* The steps of plan() keep SearchInv.                                     *)

(* What the search is measured by depends on the call and the table, which *)
(* no step of the search touches.                                          *)
LEMMA ReferenceUnchanged ==
  ASSUME UNCHANGED <<blocked, table, request>>
  PROVE  /\ EarliestGoalHold' = EarliestGoalHold
         /\ ParkingTimes' = ParkingTimes
         /\ \A c, d, t : LegalStep(c, d, t)' <=> LegalStep(c, d, t)
<1>1. blocked' = blocked /\ table' = table /\ request' = request
  OBVIOUS
<1>2. EarliestGoalHold' = EarliestGoalHold
  BY <1>1, Zenon DEF EarliestGoalHold, HoldableFrom
<1>3. Layers' = Layers
  BY <1>1 DEF Layers
<1>4. ParkingTimes' = ParkingTimes
  BY <1>1, <1>3, Zenon DEF ParkingTimes, HoldableFrom
<1>5. \A c, d, t : LegalStep(c, d, t)' <=> LegalStep(c, d, t)
  BY <1>1 DEF LegalStep
<1>. QED  BY <1>2, <1>4, <1>5

(* A step that only makes the set of generated states grow leaves what is  *)
(* explored explored.                                                      *)
LEMMA ExploredStays ==
  ASSUME UNCHANGED <<blocked, table, request>>, Generated \subseteq Generated',
         NEW s, Explored(s)
  PROVE  Explored(s)'
<1>1. EarliestGoalHold' = EarliestGoalHold
      /\ \A c, d, t : LegalStep(c, d, t)' <=> LegalStep(c, d, t)
  BY ReferenceUnchanged
<1> HIDE DEF Generated
<1>. QED  BY <1>1 DEF Explored

(* No wait and no move leads out of what can be reached in space alone.    *)
LEMMA LayersAreReachable ==
  ASSUME IInv, stage = "planning", NEW t \in Times, NEW c \in Layers[t]
  PROVE  SpatiallyReachable(request.start, c, blocked)
<1> DEFINE R == WithinSteps(request.start, blocked)[Width * Height]
           S == {u \in Times : Layers[u] \subseteq R}
<1>1. /\ request.time = 0 /\ request.start \in Cells
      /\ Horizon \in Nat /\ Times = 0 .. Horizon
  BY PlanningFacts
<1>2. request.start \in R /\ Wider(R, blocked) = R
  BY <1>1, ReachIsClosed
<1>3. \A b \in R, d \in Cells \ blocked : AdjacentTo(b, d) => d \in R
  BY <1>2 DEF Wider, Neighbors
<1> HIDE DEF R
<1>4. 0 \in S
  <2>1. Layers[0] = {request.start}
    BY <1>1, LayersDef
  <2>. QED  BY <1>1, <1>2, <2>1
<1>5. ASSUME NEW u \in 0 .. Horizon - 1, u \in S PROVE u + 1 \in S
  <2>1. u + 1 \in Times
    BY <1>1
  <2>2. ASSUME NEW d \in Layers[u+1] PROVE d \in R
    <3>1. PICK b \in Layers[u] : LegalStep(b, d, u)
      BY LayerBefore
    <3>. QED  BY <1>3, <1>5, <3>1 DEF LegalStep
  <2>. QED  BY <2>1, <2>2
<1> HIDE DEF S
<1>6. 0 .. Horizon \subseteq S
  <2>1. 0 \in Nat /\ Horizon \in Nat /\ 0 \in S
    BY <1>1, <1>4
  <2>2. \A u \in 0 .. Horizon - 1 : u \in S => u + 1 \in S
    BY <1>5
  <2>. QED  BY <2>1, <2>2, IntervalInduction
<1>. QED  BY <1>1, <1>6 DEF S, R, SpatiallyReachable

(* The rejections that speak of the whole horizon are right.               *)
LEMMA RejectionsAreRight ==
  ASSUME IInv, stage = "planning",
         Rejection("unreachable") \/ Rejection("goal_held")
  PROVE  ParkingTimes = {}
<1> SUFFICES ASSUME NEW t \in ParkingTimes PROVE FALSE
  OBVIOUS
<1>1. t \in Times /\ request.goal \in Layers[t] /\ HoldableFrom(t)
  BY ParkingTimesDef
<1>2. CASE Rejection("unreachable")
  BY <1>1, <1>2, LayersAreReachable DEF Rejection
<1>3. CASE Rejection("goal_held")
  <2>1. EarliestGoalHold <= t
    BY <1>1, HoldIsEarliest
  <2>2. EarliestGoalHold > Horizon
    BY <1>3 DEF Rejection
  <2>3. t \in Nat /\ t <= Horizon /\ Horizon \in Nat
    BY <1>1, PlanningFacts
  <2>4. EarliestGoalHold \in Nat
    BY <2>3, EarliestHold, PlanningFacts
  <2>. QED  BY <2>1, <2>2, <2>3, <2>4
<1>. QED  BY <1>2, <1>3

LEMMA RejectKeepsSearchInv ==
  ASSUME IInv, SearchInv, stage = "planning", UNCHANGED stage, Reject
  PROVE  SearchInv'
<1>1. phase' = "done" /\ UNCHANGED <<blocked, table, request>>
  BY DEF Reject
<1>2. PICK i \in DOMAIN Rejections :
        Rejection(Rejections[i]) /\ outcome' = Rejections[i]
  BY DEF Reject
<1>3. outcome' # "found" /\ outcome' # "horizon"
  BY <1>2 DEF Rejections
<1>4. outcome' \in {"unreachable", "goal_held"} => ParkingTimes' = {}
  BY <1>1, <1>2, RejectionsAreRight, ReferenceUnchanged
<1>. QED  BY <1>1, <1>3, <1>4 DEF SearchInv, SearchIsThorough, ArrivesFirst,
            GivesUpRightly

LEMMA OpenSearchKeepsSearchInv ==
  ASSUME IInv, SearchInv, stage = "planning", UNCHANGED stage, OpenSearch
  PROVE  SearchInv'
<1>1. /\ phase = "called" /\ phase' = "search" /\ outcome' = outcome
      /\ DOMAIN cameFrom' = {} /\ request' = request
      /\ frontier' = {[cell |-> request.start, t |-> request.time, ticket |-> 0]}
  BY DEF OpenSearch
<1>2. SearchIsThorough'
  BY <1>1 DEF SearchIsThorough, Generated, StartState
<1>. QED  BY <1>1, <1>2 DEF SearchInv, ArrivesFirst, GivesUpRightly

LEMMA CutOffKeepsSearchInv ==
  ASSUME IInv, SearchInv, stage = "planning", UNCHANGED stage, CutOff
  PROVE  SearchInv'
<1>1. PICK e \in frontier :
        ~ AtGoal(e) /\ e.t >= Horizon /\ frontier' = frontier \ {e}
  BY DEF CutOff
<1>2. /\ phase = "search" /\ phase' = "search" /\ outcome' = outcome
      /\ UNCHANGED <<blocked, table, request>> /\ cameFrom' = cameFrom
  BY DEF CutOff
<1>3. Generated' = Generated
  BY <1>2 DEF Generated, StartState
<1>4. e.t \in Nat /\ Horizon \in Nat
  BY PlanningFacts DEF IInv, TypeOK, PlannerTypeOK
<1>5. Explored(<<e.cell, e.t>>)
  BY <1>1, <1>4 DEF Explored, AtGoal
<1>6. ASSUME NEW s \in Generated
      PROVE  Explored(s)' \/ \E o \in frontier' : s = <<o.cell, o.t>>
  <2>1. CASE Explored(s)
    BY <1>2, <1>3, <2>1, ExploredStays
  <2>2. CASE s = <<e.cell, e.t>>
    BY <1>2, <1>3, <1>5, <2>2, ExploredStays
  <2>3. CASE ~ Explored(s) /\ s # <<e.cell, e.t>>
    BY <1>1, <1>2, <2>3 DEF SearchInv, SearchIsThorough
  <2>. QED  BY <2>1, <2>2, <2>3
<1>7. SearchIsThorough'
  BY <1>2, <1>3, <1>6 DEF SearchIsThorough
<1>. QED  BY <1>2, <1>7 DEF SearchInv, ArrivesFirst, GivesUpRightly

(* Expanding a state generates every step from it.                         *)
LEMMA ExpandKeepsSearchInv ==
  ASSUME IInv, SearchInv, stage = "planning", UNCHANGED stage, Expand
  PROVE  SearchInv'
<1>1. PICK e \in frontier :
        LET fresh == Successors(e) \ Generated IN
        /\ ~ AtGoal(e)
        /\ cameFrom' = [s \in DOMAIN cameFrom \cup fresh |->
                          IF s \in fresh THEN <<e.cell, e.t>> ELSE cameFrom[s]]
        /\ frontier' = (frontier \ {e}) \cup
             {[cell |-> s[1], t |-> s[2],
               ticket |-> tickets + PushOrder(e.cell, s[1])] : s \in fresh}
  BY DEF Expand
<1> DEFINE fresh == Successors(e) \ Generated
<1>2. /\ phase = "search" /\ phase' = "search" /\ outcome' = outcome
      /\ UNCHANGED <<blocked, table, request>>
  BY DEF Expand
<1>3. DOMAIN cameFrom' = DOMAIN cameFrom \cup fresh
  BY <1>1
<1>4. Generated' = Generated \cup Successors(e)
  BY <1>2, <1>3 DEF Generated, StartState
<1>5. e.cell \in Cells
  BY DEF IInv, TypeOK, PlannerTypeOK
<1>6. \A d \in Cells : LegalStep(e.cell, d, e.t) => <<d, e.t + 1>> \in Successors(e)
  <2>1. ASSUME NEW d \in Cells, LegalStep(e.cell, d, e.t)
        PROVE  <<d, e.t + 1>> \in Successors(e)
    <3>1. d \in {e.cell} \cup Neighbors(e.cell, blocked)
      BY <2>1 DEF LegalStep, Neighbors
    <3>2. IsTraversable(d) /\ IsMoveAllowed(table, e.cell, d, e.t, request.robot)
      BY <2>1 DEF LegalStep, IsTraversable
    <3>. QED  BY <3>1, <3>2 DEF Successors
  <2>. QED  BY <2>1
<1>7. Explored(<<e.cell, e.t>>)'
  <2>1. /\ EarliestGoalHold' = EarliestGoalHold
        /\ \A c, d, t : LegalStep(c, d, t)' <=> LegalStep(c, d, t)
    BY <1>2, ReferenceUnchanged
  <2> HIDE DEF Generated
  <2>2. ~ (e.cell = request'.goal /\ e.t >= EarliestGoalHold')
    BY <1>1, <1>2, <2>1 DEF AtGoal
  <2>. QED  BY <1>4, <1>6, <2>1, <2>2 DEF Explored
<1>8. ASSUME NEW s \in Successors(e) \ Generated
      PROVE  \E o \in frontier' : s = <<o.cell, o.t>>
  <2>1. s = <<s[1], s[2]>>
    BY DEF Successors
  <2>2. [cell |-> s[1], t |-> s[2],
         ticket |-> tickets + PushOrder(e.cell, s[1])] \in frontier'
    BY <1>1
  <2>. QED  BY <2>1, <2>2
<1>9. ASSUME NEW s \in Generated'
      PROVE  Explored(s)' \/ \E o \in frontier' : s = <<o.cell, o.t>>
  <2>1. CASE s \in Generated /\ Explored(s)
    <3> HIDE DEF Generated
    <3>. QED  BY <1>2, <1>4, <2>1, ExploredStays
  <2>2. CASE s = <<e.cell, e.t>>
    BY <1>7, <2>2
  <2>3. CASE s \in Generated /\ ~ Explored(s) /\ s # <<e.cell, e.t>>
    <3>1. PICK o \in frontier : s = <<o.cell, o.t>>
      BY <1>2, <2>3 DEF SearchInv, SearchIsThorough
    <3>2. o \in frontier'
      BY <1>1, <2>3, <3>1
    <3>. QED  BY <3>1, <3>2
  <2>4. CASE s \notin Generated
    BY <1>4, <1>8, <2>4
  <2>. QED  BY <2>1, <2>2, <2>3, <2>4
<1>10. SearchIsThorough'
  BY <1>9 DEF SearchIsThorough
<1>. QED  BY <1>2, <1>10 DEF SearchInv, ArrivesFirst, GivesUpRightly

(* The first entry at the goal is no later than any other could be: its    *)
(* promise is kept, and no other promise is smaller.                       *)
LEMMA ArriveKeepsSearchInv ==
  ASSUME IInv, SearchInv, stage = "planning", UNCHANGED stage, Arrive
  PROVE  SearchInv'
<1>1. PICK e \in frontier :
        Popped(e) /\ AtGoal(e) /\ chain'.arrival = e.t
  BY DEF Arrive
<1>2. /\ phase = "search" /\ phase' = "reconstruct" /\ outcome' = outcome
      /\ UNCHANGED <<blocked, table, request>>
  BY DEF Arrive
<1>3. ASSUME NEW t \in ParkingTimes PROVE e.t <= t
  <2>1. PICK o \in frontier : o.t + ManhattanDistance(o.cell, request.goal) <= t
    BY <1>2, ParkingIsAhead DEF SearchInv, Behind
  <2>2. /\ e.cell = request.goal /\ e.cell \in Cells /\ o.cell \in Cells
        /\ e.t \in Nat /\ o.t \in Nat /\ t \in Nat /\ request.time = 0
    BY <1>1, ParkingTimesDef, PlanningFacts
       DEF IInv, TypeOK, PlannerTypeOK, AtGoal
  <2>3. /\ HValue(e) = 0 /\ HValue(o) \in Nat
        /\ HValue(o) = ManhattanDistance(o.cell, request.goal)
    BY <2>2, DistanceIsNat DEF HValue
  <2>4. FValue(e) = e.t /\ FValue(o) = o.t + HValue(o)
    BY <2>2, <2>3 DEF FValue
  <2>5. FValue(e) <= FValue(o)
    <3>1. FValue(e) < FValue(o) \/ FValue(e) = FValue(o)
      BY <1>1 DEF Popped, PopsBefore
    <3>. QED  BY <2>2, <2>3, <2>4, <3>1
  <2>. QED  BY <2>1, <2>2, <2>3, <2>4, <2>5
<1>4. ArrivesFirst'
  BY <1>1, <1>2, <1>3, ReferenceUnchanged DEF ArrivesFirst
<1>. QED  BY <1>2, <1>4 DEF SearchInv, SearchIsThorough, GivesUpRightly

(* An empty heap promises nothing.                                         *)
LEMMA GiveUpKeepsSearchInv ==
  ASSUME IInv, SearchInv, stage = "planning", UNCHANGED stage, GiveUp
  PROVE  SearchInv'
<1>1. /\ phase = "search" /\ phase' = "done" /\ outcome' = "horizon"
      /\ UNCHANGED <<blocked, table, request>> /\ frontier = {}
  BY DEF GiveUp
<1>2. ParkingTimes = {}
  BY <1>1, ParkingIsAhead DEF SearchInv, Behind
<1>3. ParkingTimes' = {}
  BY <1>1, <1>2, ReferenceUnchanged
<1>. QED  BY <1>1, <1>3 DEF SearchInv, SearchIsThorough, ArrivesFirst, GivesUpRightly

LEMMA RebuildingKeepsSearchInv ==
  ASSUME IInv, SearchInv, stage = "planning", UNCHANGED stage,
         TraceBack \/ ReturnRoute
  PROVE  SearchInv'
<1>1. /\ phase = "reconstruct" /\ chain'.arrival = chain.arrival
      /\ UNCHANGED <<blocked, table, request>>
      /\ \/ phase' = "reconstruct" /\ outcome' = outcome
         \/ phase' = "done" /\ outcome' = "found"
  BY DEF TraceBack, ReturnRoute, searchVars
<1>2. ArrivesFirst'
  BY <1>1, ReferenceUnchanged DEF SearchInv, ArrivesFirst
<1>. QED  BY <1>1, <1>2 DEF SearchInv, SearchIsThorough, GivesUpRightly

(* A new call has searched nothing yet.                                    *)
LEMMA CallsKeepSearchInv ==
  ASSUME stage' = "planning" => phase' = "called" /\ outcome' = "none"
  PROVE  SearchInv'
BY DEF SearchInv, SearchIsThorough, ArrivesFirst, GivesUpRightly

LEMMA NextKeepsSearchInv ==
  IInv /\ SearchInv /\ [CoordinatorNext]_vars => SearchInv'
<1> SUFFICES ASSUME IInv, SearchInv, [CoordinatorNext]_vars PROVE SearchInv'
  OBVIOUS
<1>1. CASE Plan
  <2>1. stage = "planning" /\ UNCHANGED stage /\ PlannerStep
    BY <1>1 DEF Plan
  <2>. QED
    BY <2>1, RejectKeepsSearchInv, OpenSearchKeepsSearchInv, CutOffKeepsSearchInv,
       ExpandKeepsSearchInv, ArriveKeepsSearchInv, GiveUpKeepsSearchInv,
       RebuildingKeepsSearchInv DEF PlannerStep
<1>2. CASE Refuse \/ Begin
  BY <1>2, CallsKeepSearchInv DEF Refuse, Begin, CallPlannerFor, Call
<1>3. CASE Reserve \/ RecordFailure
  BY <1>3, CallsKeepSearchInv DEF Reserve, RecordFailure, Advance,
     CallPlannerFor, Call
<1>4. CASE UNCHANGED vars
  <2>1. /\ UNCHANGED <<blocked, table, request, stage, phase, outcome, frontier,
                       cameFrom, chain>>
    BY <1>4 DEF vars, plannerVars, searchVars
  <2>2. Generated' = Generated
    BY <2>1 DEF Generated, StartState
  <2>3. SearchIsThorough'
    BY <2>1, <2>2, ExploredStays DEF SearchInv, SearchIsThorough
  <2>4. ArrivesFirst' /\ GivesUpRightly'
    BY <2>1, ReferenceUnchanged DEF SearchInv, ArrivesFirst, GivesUpRightly
  <2>. QED  BY <2>3, <2>4 DEF SearchInv
<1>. QED  BY <1>1, <1>2, <1>3, <1>4 DEF CoordinatorNext

-----------------------------------------------------------------------------
(* The theorem.                                                            *)

(* A legal route arrives at one of the times the reference allows.         *)
LEMMA RoutesParkRightly ==
  ASSUME IInv, stage = "planning", phase = "done", outcome = "found"
  PROVE  chain.arrival \in ParkingTimes
<1>1. /\ IsTimedPath(chain) /\ chain.start = 0 /\ chain.at[0] = request.start
      /\ Goal(chain) = request.goal /\ HoldableFrom(chain.arrival)
      /\ \A t \in 0 .. chain.arrival - 1 : LegalStep(chain.at[t], chain.at[t+1], t)
  BY PlanningFacts DEF IInv, SuffixIsLegal, LegalSuffix
<1>2. /\ request.time = 0 /\ request.start \in Cells
      /\ Horizon \in Nat /\ Times = 0 .. Horizon
      /\ chain.arrival \in Nat /\ chain.arrival <= Horizon
  BY <1>1, PlanningFacts DEF IsTimedPath
<1> DEFINE S == {t \in 0 .. chain.arrival : chain.at[t] \in Layers[t]}
<1>3. 0 \in S
  <2>1. Layers[0] = {request.start}
    BY <1>2, LayersDef
  <2>. QED  BY <1>1, <1>2, <2>1
<1>4. ASSUME NEW t \in 0 .. chain.arrival - 1, t \in S PROVE t + 1 \in S
  <2>1. t \in 0 .. Horizon - 1 /\ t + 1 \in 0 .. chain.arrival
    BY <1>2
  <2>2. LegalStep(chain.at[t], chain.at[t+1], t)
    BY <1>1
  <2>3. chain.at[t+1] \in Layers[t+1]
    BY <1>4, <2>1, <2>2, LayerAfter
  <2>. QED  BY <2>1, <2>3
<1> HIDE DEF S
<1>5. 0 .. chain.arrival \subseteq S
  <2>1. 0 \in Nat /\ chain.arrival \in Nat /\ 0 \in S
    BY <1>2, <1>3
  <2>2. \A t \in 0 .. chain.arrival - 1 : t \in S => t + 1 \in S
    BY <1>4
  <2>. QED  BY <2>1, <2>2, IntervalInduction
<1>6. chain.arrival \in S
  BY <1>2, <1>5
<1>7. chain.arrival \in Times /\ request.goal \in Layers[chain.arrival]
  BY <1>1, <1>2, <1>6 DEF S, Goal
<1>. QED  BY <1>1, <1>7, ParkingTimesDef

LEMMA InitSearchInv == Init => SearchInv
BY DEF Init, SearchInv, SearchIsThorough, ArrivesFirst, GivesUpRightly

(* Why the search is exact: it leaves nothing out that lies before the     *)
(* entries of its heap.                                                    *)
THEOREM SearchLeavesNothingOut == Spec => []SearchInv
BY InitSearchInv, NextKeepsSearchInv, Invariance, PTL DEF Spec

(* A-star over space and time finds a route whenever one fits into the     *)
(* horizon, and one that arrives as early as any; when it gives up, or     *)
(* plan() refuses to search, there is none (space_time_planner.py:80-217): *)
(* for every grid, table, horizon, start and goal.                         *)
THEOREM SearchFindsTheEarliest == Spec => []SearchIsExact
<1>1. IInv /\ SearchInv => SearchIsExact
  <2> SUFFICES ASSUME IInv, SearchInv, stage = "planning", phase = "done"
               PROVE  SearchIsExact
    BY DEF SearchIsExact
  <2>1. outcome = "found" =>
          chain.arrival \in ParkingTimes /\ \A t \in ParkingTimes : chain.arrival <= t
    BY RoutesParkRightly DEF SearchInv, ArrivesFirst
  <2>2. outcome \in {"unreachable", "goal_held", "horizon"} => ParkingTimes = {}
    BY DEF SearchInv, GivesUpRightly
  <2>. QED  BY <2>1, <2>2 DEF SearchIsExact
<1>. QED  BY <1>1, Invariance, SearchLeavesNothingOut, PTL
-----------------------------------------------------------------------------
(* Planning and execution together: the executor's proofs, for the plans   *)
(* the coordinator makes.                                                  *)

(* Timed paths from time 0, wherever they lead.                            *)
Walks == UNION {[start : {0}, arrival : {a}, at : [0 .. a -> Int \X Int]] : a \in Times}

E == INSTANCE ExecutorProofs WITH Routes <- Walks, Fleets <- SUBSET Robots

LEMMA WalksAreRoutes ==
  /\ SUBSET Robots \subseteq SUBSET Robots
  /\ \A p \in Walks :
       /\ p.start = 0
       /\ p.arrival \in 0 .. Horizon
       /\ p.at \in [0 .. p.arrival -> Int \X Int]
BY DEF Walks, Times

LEMMA RunKeepsEInv ==
  E!EInv /\ E!TraceInv /\ [E!Next]_(E!vars) => E!EInv' /\ E!TraceInv'
BY E!NextKeepsEInv, E!NextKeepsTrace, WalksAreRoutes, FleetAssumption,
   DimensionAssumption, HorizonAssumption

LEMMA RunIsOnTheFloor ==
  ASSUME E!PlanTypeOK, ~ E!HasProblems(paths, {}), clock \in Nat, NEW r \in E!Driven
  PROVE  E!From(r) \in Cells /\ E!To(r) \in Cells
<1>1. Cells = E!Cells
  BY DEF Cells, E!Cells
<1>. QED
  BY <1>1, E!StepsStayOnTheFloor, WalksAreRoutes, FleetAssumption,
     DimensionAssumption, HorizonAssumption

LEMMA RunMeetsNoConflict ==
  ASSUME E!PlanTypeOK, ~ E!HasProblems(paths, {}), clock \in Nat,
         E!WithinMakespan(paths, clock + 1)
  PROVE  ~ E!JointConflict
BY E!NoJointConflict, WalksAreRoutes, FleetAssumption, DimensionAssumption,
   HorizonAssumption

LEMMA RunTraceIsClean ==
  ASSUME E!EInv, E!TraceFollowsPlan, mode \in {"running", "finishing"}
  PROVE  ~ E!HasProblems(trace, {})
BY E!DrivenTraceIsClean, WalksAreRoutes, FleetAssumption, DimensionAssumption,
   HorizonAssumption

(* The executor of the fleet run is the executor those proofs are about.   *)
LEMMA SameChecks ==
  /\ \A P, o : Drive!HasProblems(P, o) <=> E!HasProblems(P, o)
  /\ \A P, o : HasProblems(P, o) <=> E!HasProblems(P, o)
  /\ \A P, t : Drive!WithinMakespan(P, t) <=> E!WithinMakespan(P, t)
  /\ \A p, t : PositionAt(p, t) = E!PositionAt(p, t)
  /\ \A p, t : Drive!PositionAt(p, t) = E!PositionAt(p, t)
<1>1. /\ \A p, t : PositionAt(p, t) = E!PositionAt(p, t)
      /\ \A p, t : Drive!PositionAt(p, t) = E!PositionAt(p, t)
  BY DEF PositionAt, Goal, E!PositionAt, E!Goal, Drive!PositionAt, Drive!Goal
<1>2. \A P, t : Drive!WithinMakespan(P, t) <=> E!WithinMakespan(P, t)
  BY DEF Drive!WithinMakespan, E!WithinMakespan
<1>3. \A P, o : Drive!HasProblems(P, o) <=> E!HasProblems(P, o)
  BY Zenon DEF Drive!HasProblems, E!HasProblems, Drive!PathProblem, E!PathProblem,
     Drive!VertexConflict, E!VertexConflict, Drive!EdgeConflict, E!EdgeConflict,
     Drive!GoalOccupied, E!GoalOccupied, Drive!ReplayTimes, E!ReplayTimes,
     Drive!WithinMakespan, E!WithinMakespan, Drive!PositionAt, E!PositionAt,
     Drive!Goal, E!Goal, Drive!Times, E!Times, Drive!Cells, E!Cells,
     Drive!ManhattanDistance, E!ManhattanDistance, Drive!Distance, E!Distance
<1>4. \A P, o : HasProblems(P, o) <=> E!HasProblems(P, o)
  BY Zenon DEF HasProblems, E!HasProblems, PathProblem, E!PathProblem,
     VertexConflict, E!VertexConflict, EdgeConflict, E!EdgeConflict,
     GoalOccupied, E!GoalOccupied, ReplayTimes, E!ReplayTimes,
     WithinMakespan, E!WithinMakespan, PositionAt, E!PositionAt,
     Goal, E!Goal, Times, E!Times, Cells, E!Cells,
     ManhattanDistance, E!ManhattanDistance, Distance, E!Distance
<1>. QED  BY <1>1, <1>2, <1>3, <1>4

LEMMA SameExecutor == Drive!Execute => E!Execute
<1>1. /\ Drive!Driven = E!Driven
      /\ \A r : Drive!From(r) = E!From(r) /\ Drive!To(r) = E!To(r)
  BY SameChecks DEF Drive!Driven, E!Driven, Drive!From, E!From, Drive!To, E!To
<1>2. \A a, b : Drive!AdjacentTo(a, b) <=> E!AdjacentTo(a, b)
  BY DEF Drive!AdjacentTo, E!AdjacentTo, Drive!ManhattanDistance,
     E!ManhattanDistance, Drive!Distance, E!Distance
<1>3. \A r : Drive!NotReady(r) <=> E!NotReady(r)
  BY DEF Drive!NotReady, E!NotReady
<1>4. \A r : Drive!Feasible(r) <=> E!Feasible(r)
  BY <1>1, <1>2 DEF Drive!Feasible, E!Feasible, Drive!IsTraversable,
     E!IsTraversable, Drive!Cells, E!Cells
<1>5. Drive!JointConflict <=> E!JointConflict
  BY <1>1 DEF Drive!JointConflict, E!JointConflict
<1>6. \A x : Drive!Refuse(x) <=> E!Refuse(x)
  BY DEF Drive!Refuse, E!Refuse, Drive!robotVars, E!robotVars, Drive!runVars,
     E!runVars
<1>7. Drive!RejectPlan \/ Drive!RejectFleet => E!RejectPlan \/ E!RejectFleet
  BY <1>1, <1>3, <1>6, SameChecks
     DEF Drive!RejectPlan, E!RejectPlan, Drive!RejectFleet, E!RejectFleet
<1>8. Drive!Start => E!Start
  BY <1>1, <1>3, SameChecks DEF Drive!Start, E!Start, Drive!robotVars, E!robotVars
<1>9. Drive!ValidateStep => E!ValidateStep
  BY <1>1, <1>4, <1>5, SameChecks
     DEF Drive!ValidateStep, E!ValidateStep, Drive!robotVars, E!robotVars
<1>10. ASSUME NEW r PROVE Drive!CommitWait(r) \/ Drive!CommitMove(r)
                            => E!CommitWait(r) \/ E!CommitMove(r)
  <2>1. /\ Drive!EndOfLoopBody(r) <=> E!EndOfLoopBody(r)
        /\ Drive!Record(r) <=> E!Record(r)
    BY <1>1 DEF Drive!EndOfLoopBody, E!EndOfLoopBody, Drive!Record, E!Record
  <2>2. \A c : /\ Drive!CanMoveTo(r, c) <=> E!CanMoveTo(r, c)
               /\ Drive!MoveTo(r, c) <=> E!MoveTo(r, c)
    BY <1>2 DEF Drive!CanMoveTo, E!CanMoveTo, Drive!MoveTo, E!MoveTo
  <2>3. Drive!CommitWait(r) => E!CommitWait(r)
    BY <1>1, <2>1 DEF Drive!CommitWait, E!CommitWait, Drive!robotVars, E!robotVars
  <2>4. Drive!CommitMove(r) => E!CommitMove(r)
    BY <1>1, <2>1, <2>2 DEF Drive!CommitMove, E!CommitMove, Drive!robotVars,
       E!robotVars
  <2>. QED  BY <2>3, <2>4
<1>11. Drive!Commit => E!Commit
  BY <1>10 DEF Drive!Commit, E!Commit
<1>12. Drive!Finish => E!Finish
  BY SameChecks DEF Drive!Finish, E!Finish, Drive!robotVars, E!robotVars,
     Drive!runVars, E!runVars
<1>. QED
  BY <1>7, <1>8, <1>9, <1>11, <1>12 DEF Drive!Execute, E!Execute

-----------------------------------------------------------------------------
(* What the plan gives the run.                                            *)

(* Every timed path is a record of its three fields.                       *)
Shaped(p) == p = [start |-> p.start, arrival |-> p.arrival, at |-> p.at]

PathShape == Shaped(chain) /\ \A r \in Planned : Shaped(paths[r])

LEMMA PlannedPaths ==
  ASSUME IInv, NEW r \in Planned
  PROVE  LET p == paths[r] IN
         /\ r \in Robots /\ p.start = 0 /\ p.arrival \in Nat /\ p.arrival \in Times
         /\ p.at \in [0 .. p.arrival -> Cells]
         /\ p.at[0] = starts[r] /\ Goal(p) = goals[r]
         /\ \A t \in 0 .. p.arrival : p.at[t] \notin blocked
         /\ \A t \in 0 .. p.arrival - 1 :
              p.at[t+1] = p.at[t] \/ AdjacentTo(p.at[t], p.at[t+1])
<1>1. IsTimedPath(paths[r]) /\ r \in Robots
  BY DEF IInv, TypeOK, FleetTypeOK
<1>2. /\ paths[r].start = 0 /\ paths[r].at[0] = starts[r] /\ Goal(paths[r]) = goals[r]
      /\ \A t \in 0 .. paths[r].arrival : paths[r].at[t] \notin blocked
      /\ \A t \in 0 .. paths[r].arrival - 1 :
           \/ paths[r].at[t+1] = paths[r].at[t]
           \/ AdjacentTo(paths[r].at[t], paths[r].at[t+1])
  BY DEF IInv, RoutesAreWalks
<1>3. /\ paths[r].arrival \in Nat /\ paths[r].arrival \in Times
      /\ paths[r].at \in [0 .. paths[r].arrival -> Cells]
  BY <1>1, <1>2, HorizonAssumption DEF IsTimedPath, Times
<1>. QED  BY <1>1, <1>2, <1>3

LEMMA PlansAreRoutes ==
  ASSUME IInv, PathShape
  PROVE  E!PlanTypeOK
<1>1. E!Driven = Planned /\ Planned \subseteq Robots
  BY PlannedPaths DEF E!Driven, Planned
<1>2. ASSUME NEW r \in Planned PROVE paths[r] \in Walks
  <2> DEFINE p == paths[r]
             a == p.arrival
  <2>1. p.start = 0 /\ a \in Times /\ p.at \in [0 .. a -> Int \X Int]
    BY PlannedPaths DEF Cells
  <2>2. p = [start |-> p.start, arrival |-> p.arrival, at |-> p.at]
    BY DEF PathShape, Shaped
  <2> HIDE DEF p
  <2>3. p \in [start : {0}, arrival : {a}, at : [0 .. a -> Int \X Int]]
    BY <2>1, <2>2
  <2>. QED  BY <2>1, <2>3 DEF Walks, p
<1>. QED  BY <1>1, <1>2 DEF E!PlanTypeOK

LEMMA PlansPassPreflight ==
  ASSUME IInv
  PROVE  ~ E!HasProblems(paths, {})
<1>1. ~ HasProblems(paths, blocked)
  BY SafePlansPass DEF PassesTheCheck
<1>2. ~ HasProblems(paths, {})
  BY <1>1 DEF HasProblems, PathProblem
<1>. QED  BY <1>2, SameChecks

(* Where the path of a robot leads, there is no obstacle.                  *)
LEMMA PathsAvoidObstacles ==
  ASSUME IInv, NEW r \in Planned, NEW t \in Nat
  PROVE  E!PositionAt(paths[r], t) \notin blocked
<1>1. /\ paths[r].start = 0 /\ paths[r].arrival \in Nat
      /\ \A u \in 0 .. paths[r].arrival : paths[r].at[u] \notin blocked
  BY PlannedPaths
<1>2. PositionAt(paths[r], t) \notin blocked
  BY <1>1 DEF PositionAt, Goal
<1>. QED  BY <1>2, SameChecks

(* Between two timesteps the path of a robot stays or goes to the next cell.*)
LEMMA PathsAreStepwise ==
  ASSUME IInv, NEW r \in Planned, NEW t \in Nat,
         E!PositionAt(paths[r], t) # E!PositionAt(paths[r], t + 1)
  PROVE  E!AdjacentTo(E!PositionAt(paths[r], t), E!PositionAt(paths[r], t + 1))
<1>1. /\ paths[r].start = 0 /\ paths[r].arrival \in Nat
      /\ \A u \in 0 .. paths[r].arrival - 1 :
           \/ paths[r].at[u+1] = paths[r].at[u]
           \/ AdjacentTo(paths[r].at[u], paths[r].at[u+1])
  BY PlannedPaths
<1>2. PositionAt(paths[r], t) # PositionAt(paths[r], t + 1)
  BY SameChecks
<1>3. t < paths[r].arrival
  BY <1>1, <1>2 DEF PositionAt, Goal
<1>4. /\ PositionAt(paths[r], t) = paths[r].at[t]
      /\ PositionAt(paths[r], t + 1) = paths[r].at[t+1]
  BY <1>1, <1>3 DEF PositionAt, Goal
<1>5. AdjacentTo(PositionAt(paths[r], t), PositionAt(paths[r], t + 1))
  BY <1>1, <1>2, <1>3, <1>4
<1>6. \A a, b : AdjacentTo(a, b) <=> E!AdjacentTo(a, b)
  BY DEF AdjacentTo, E!AdjacentTo, ManhattanDistance, E!ManhattanDistance,
     Distance, E!Distance
<1>. QED  BY <1>5, <1>6, SameChecks

-----------------------------------------------------------------------------
(* The run of a plan, as long as nothing disturbs it.                      *)

RunInv == PathShape /\ (mode # "idle" => E!EInv /\ E!TraceInv)

(* Before it begins, the executor's invariant holds as well.               *)
LEMMA RunCanBegin ==
  ASSUME IInv, AtRest, RunInv, disturbances = 0
  PROVE  E!EInv /\ E!TraceInv
<1>1. CASE mode # "idle"
  BY <1>1 DEF RunInv
<1>2. CASE mode = "idle"
  <2>1. E!PlanTypeOK
    BY PlansAreRoutes DEF RunInv
  <2>2. /\ position = starts /\ battery \in [Robots -> Nat]
        /\ status = [r \in Robots |-> "IDLE"] /\ odometer = [r \in Robots |-> 0]
        /\ clock = 0 /\ uncommitted = {} /\ conflicts = 0 /\ result = "none"
    BY <1>2 DEF AtRest
  <2>3. E!Cells = Cells /\ E!Times = Times
    BY DEF E!Cells, Cells, E!Times, Times
  <2>4. /\ blocked \in SUBSET E!Cells /\ position \in [Robots -> E!Cells]
    BY <2>2, <2>3 DEF IInv, TypeOK, PlannerTypeOK, FleetTypeOK
  <2>5. E!TypeOK
    BY <1>2, <2>2, <2>3, <2>4, HorizonAssumption, FleetAssumption
       DEF E!TypeOK, E!Statuses, E!Modes, E!Results, Times
  <2>. QED
    BY <1>2, <2>1, <2>2, <2>5
       DEF E!EInv, E!PlanIsSound, E!OnSchedule, E!HalfWay, E!Books, E!Underway,
           E!NeverRaises, E!PreflightIsComplete, E!SuccessMeansArrived, E!TraceInv,
           E!TraceFollowsPlan, E!ExecutedTraceIsClean
<1>. QED  BY <1>1, <1>2

(* Nobody is missing or out of place when the run begins.                  *)
LEMMA FleetIsReady ==
  ASSUME IInv, AtRest, mode = "idle", NEW r \in E!Driven
  PROVE  ~ E!NotReady(r)
<1>1. r \in Planned
  BY DEF E!Driven, Planned
<1>2. /\ r \in Robots /\ paths[r].at[paths[r].start] = starts[r]
  BY <1>1, PlannedPaths
<1>. QED  BY <1>2 DEF AtRest, E!NotReady

(* Nothing but its battery keeps a robot from its next step.               *)
LEMMA OnlyBatteriesFail ==
  ASSUME IInv, E!EInv, NobodyDropsOut, mode = "running",
         NEW r \in E!Driven, ~ E!Feasible(r)
  PROVE  battery[r] < Drain
<1>1. /\ E!PlanTypeOK /\ clock \in Nat /\ ~ E!HasProblems(paths, {})
      /\ position[r] = E!From(r) /\ battery \in [Robots -> Nat]
  BY HorizonAssumption, PlansPassPreflight
     DEF E!EInv, E!TypeOK, E!OnSchedule, E!Times
<1>2. r \in Planned /\ r \in Robots
  BY <1>1 DEF E!Driven, Planned, E!PlanTypeOK
<1>3. status[r] # "OFFLINE"
  BY <1>2 DEF NobodyDropsOut
<1>4. E!To(r) \in Cells /\ E!To(r) \notin blocked
  BY <1>1, <1>2, RunIsOnTheFloor, PathsAvoidObstacles DEF E!To
<1>5. E!IsTraversable(E!To(r))
  BY <1>4 DEF E!IsTraversable, E!Cells, Cells
<1>6. E!From(r) # E!To(r) => E!AdjacentTo(E!From(r), E!To(r))
  BY <1>1, <1>2, PathsAreStepwise DEF E!From, E!To
<1>7. ~ (battery[r] >= Drain)
  BY <1>1, <1>3, <1>5, <1>6 DEF E!Feasible
<1>. QED  BY <1>1, <1>2, <1>7, FleetAssumption

(* A trace that follows the plan meets no obstacle.                        *)
LEMMA TraceAvoidsObstacles ==
  ASSUME IInv, E!EInv, E!TraceInv, mode = "running"
  PROVE  ~ E!HasProblems(trace, blocked)
<1>1. ~ E!HasProblems(trace, {})
  BY RunTraceIsClean DEF E!TraceInv
<1>2. ASSUME NEW r \in DOMAIN trace, NEW t \in trace[r].start .. trace[r].arrival
      PROVE  trace[r].at[t] \notin blocked
  <2>1. /\ r \in E!Driven /\ E!Underway /\ trace[r].start = 0
        /\ trace[r].arrival = E!StepsTaken(r) /\ E!IsTimedPath(trace[r])
    BY DEF E!EInv, E!TypeOK, E!Books, E!Underway
  <2>2. t \in E!Times /\ t \in Nat /\ t <= E!StepsTaken(r)
    BY <2>1, HorizonAssumption DEF E!IsTimedPath, E!Times
  <2>3. trace[r].at[t] = E!PositionAt(paths[r], t)
    BY <2>1, <2>2 DEF E!TraceInv, E!TraceFollowsPlan
  <2>4. r \in Planned
    BY <2>1 DEF E!Driven, Planned
  <2>. QED  BY <2>2, <2>3, <2>4, PathsAvoidObstacles
<1>. QED  BY <1>1, <1>2 DEF E!HasProblems, E!PathProblem

-----------------------------------------------------------------------------
(* The invariant is kept.                                                  *)

FInv == disturbances \in Nat /\ QuietInv /\ (disturbances = 0 => RunInv)

LEMMA InitFInv == FleetInit => FInv
<1> SUFFICES ASSUME FleetInit PROVE FInv
  OBVIOUS
<1>1. IInv
  BY InitInvariant DEF FleetInit
<1>2. Init /\ Drive!Init /\ position = starts
  BY DEF FleetInit
<1>3. AtRest /\ NobodyDropsOut /\ OnlyBatteriesStop
  BY <1>2, FleetAssumption DEF AtRest, NobodyDropsOut, OnlyBatteriesStop, Drive!Init
<1>4. PathShape
  BY <1>2 DEF Init, PathShape, Shaped, NoChain, Planned
<1>5. RunInv
  BY <1>2, <1>4 DEF RunInv, Drive!Init
<1>. QED  BY <1>1, <1>2, <1>3, <1>5 DEF FInv, QuietInv, Drive!Init

(* Planning builds timed paths of one shape only.                          *)
LEMMA PlanningKeepsShape ==
  ASSUME IInv, PathShape, CoordinatorNext
  PROVE  PathShape'
<1>1. CASE Refuse
  BY <1>1 DEF Refuse, plannerVars, searchVars, PathShape, Shaped, Planned
<1>2. CASE Begin
  BY <1>2 DEF Begin, CallPlannerFor, Call, NoChain, PathShape, Shaped, Planned
<1>3. CASE Plan
  <2>1. paths' = paths /\ Planned' = Planned
    BY <1>3 DEF Plan, Planned
  <2>2. Shaped(chain)'
    <3>1. CASE Reject \/ GiveUp \/ CutOff \/ Expand \/ ReturnRoute
      BY <3>1 DEF Reject, GiveUp, CutOff, Expand, ReturnRoute, searchVars,
         PathShape, Shaped
    <3>2. CASE OpenSearch \/ Arrive \/ TraceBack
      BY <3>2 DEF OpenSearch, Arrive, TraceBack, NoChain, Shaped
    <3>. QED  BY <1>3, <3>1, <3>2 DEF Plan, PlannerStep
  <2>. QED  BY <2>1, <2>2 DEF PathShape, Shaped
<1>4. CASE Reserve
  <2>1. /\ stage = "planning" /\ phase = "done" /\ outcome = "found"
        /\ paths' = [r \in Planned \cup {request.robot} |->
                       IF r = request.robot THEN chain ELSE paths[r]]
        /\ chain' \in {chain, NoChain}
    BY <1>4, RouteDoesNotClash
       DEF Reserve, Advance, CallPlannerFor, Call, searchVars
  <2>2. Shaped(NoChain)
    BY DEF Shaped, NoChain
  <2>3. \A r \in Planned' : paths'[r] = chain \/ (r \in Planned /\ paths'[r] = paths[r])
    BY <2>1 DEF Planned
  <2>. QED  BY <2>1, <2>2, <2>3 DEF PathShape, Shaped
<1>5. CASE RecordFailure
  <2>1. paths' = paths /\ chain' \in {chain, NoChain}
    BY <1>5 DEF RecordFailure, Advance, CallPlannerFor, Call, searchVars
  <2>2. Shaped(NoChain)
    BY DEF Shaped, NoChain
  <2>. QED  BY <2>1, <2>2 DEF PathShape, Shaped, Planned
<1>. QED  BY <1>1, <1>2, <1>3, <1>4, <1>5 DEF CoordinatorNext

LEMMA PlanningKeepsFInv == FInv /\ PlanFleet => FInv'
<1> SUFFICES ASSUME FInv, PlanFleet, disturbances = 0 PROVE FInv'
  BY DEF FInv, QuietInv, PlanFleet, fleetVars
<1>1. /\ IInv /\ AtRest /\ NobodyDropsOut /\ RunInv /\ CoordinatorNext
      /\ UNCHANGED fleetVars /\ disturbances \in Nat
  BY DEF FInv, QuietInv, PlanFleet
<1>2. /\ stage \in {"validate", "planning"} /\ mode = "idle" /\ starts' = starts
  <2>1. stage \in {"validate", "planning"} /\ starts' = starts
    BY <1>1 DEF CoordinatorNext, Refuse, Begin, Plan, Reserve, RecordFailure,
       requestVars
  <2>. QED  BY <1>1, <2>1 DEF NobodyDropsOut
<1>3. IInv' /\ PathShape'
  BY <1>1, NextKeepsInvariant, PlanningKeepsShape DEF RunInv
<1>4. AtRest' /\ NobodyDropsOut' /\ OnlyBatteriesStop' /\ RunInv'
  BY <1>1, <1>2, <1>3 DEF AtRest, NobodyDropsOut, OnlyBatteriesStop, RunInv, fleetVars
<1>. QED  BY <1>1, <1>3, <1>4 DEF FInv, QuietInv, fleetVars

(* A step of the executor concerns nothing the coordinator keeps.          *)
LEMMA DrivingLeavesThePlan ==
  ASSUME DriveFleet, E!Execute
  PROVE  UNCHANGED vars /\ UNCHANGED disturbances
<1>1. UNCHANGED <<blocked, paths, disturbances>>
  BY DEF E!Execute, E!RejectPlan, E!RejectFleet, E!Refuse, E!Start, E!ValidateStep,
     E!Commit, E!Finish
<1>. QED
  BY <1>1 DEF DriveFleet, vars, plannerVars, requestVars

(* No step of the executor takes a robot out of service.                   *)
LEMMA DrivingKeepsStatuses ==
  ASSUME E!EInv, E!Execute, NobodyDropsOut
  PROVE  \A r \in Robots : status'[r] \notin {"OFFLINE", "GONE"}
<1>1. \A r \in Robots : status[r] \notin {"OFFLINE", "GONE"}
  BY DEF NobodyDropsOut
<1>2. CASE E!Commit
  <2>1. PICK r \in uncommitted : E!CommitWait(r) \/ E!CommitMove(r)
    BY <1>2 DEF E!Commit
  <2>2. status' = status \/ status' = [status EXCEPT ![r] = "MOVING"]
    BY <2>1 DEF E!CommitWait, E!CommitMove, E!MoveTo, E!robotVars
  <2>3. status \in [Robots -> E!Statuses]
    BY DEF E!EInv, E!TypeOK
  <2>. QED  BY <1>1, <2>2, <2>3
<1>3. CASE ~ E!Commit
  <2>1. status' = status
    BY <1>3 DEF E!Execute, E!RejectPlan, E!RejectFleet, E!Refuse, E!Start,
       E!ValidateStep, E!Finish, E!robotVars
  <2>. QED  BY <1>1, <2>1
<1>. QED  BY <1>2, <1>3

(* A run that stops, stops for a battery; nothing is turned down.          *)
LEMMA DrivingStopsForBatteries ==
  ASSUME IInv, AtRest, NobodyDropsOut, OnlyBatteriesStop, E!EInv, E!TraceInv,
         E!Execute, UNCHANGED paths
  PROVE  OnlyBatteriesStop' /\ mode' # "idle"
<1>1. Planned = E!Driven /\ Planned' = Planned
  BY DEF Planned, E!Driven
<1>2. CASE E!RejectPlan \/ E!RejectFleet
  BY <1>2, PlansPassPreflight, FleetIsReady DEF E!RejectPlan, E!RejectFleet
<1>3. CASE E!Start
  BY <1>3 DEF E!Start, OnlyBatteriesStop
<1>4. CASE E!ValidateStep
  <2>1. /\ mode = "running" /\ battery' = battery
        /\ E!WithinMakespan(paths, clock + 1)
    BY <1>4 DEF E!ValidateStep, E!robotVars
  <2>2. ~ E!JointConflict
    BY <2>1, RunMeetsNoConflict, PlansPassPreflight, HorizonAssumption
       DEF E!EInv, E!TypeOK, E!Times
  <2>3. CASE \A r \in E!Driven : E!Feasible(r)
    <3>1. mode' = "committing"
      BY <1>4, <2>2, <2>3 DEF E!ValidateStep
    <3>. QED  BY <3>1 DEF OnlyBatteriesStop
  <2>4. CASE \E r \in E!Driven : ~ E!Feasible(r)
    <3>1. PICK r \in E!Driven : ~ E!Feasible(r)
      BY <2>4
    <3>2. battery[r] < Drain
      BY <2>1, <3>1, OnlyBatteriesFail
    <3>3. mode' = "finishing"
      BY <1>4, <2>4 DEF E!ValidateStep
    <3>. QED  BY <1>1, <2>1, <3>1, <3>2, <3>3 DEF OnlyBatteriesStop
  <2>. QED  BY <2>3, <2>4
<1>5. CASE E!Commit
  <2>1. mode' \in {"committing", "running", "raised"}
    BY <1>5 DEF E!Commit, E!CommitWait, E!CommitMove, E!EndOfLoopBody
  <2>. QED  BY <2>1 DEF OnlyBatteriesStop
<1>6. CASE E!Finish
  <2>1. mode' = "done" /\ battery' = battery
    BY <1>6 DEF E!Finish, E!robotVars
  <2>2. CASE mode = "finishing"
    BY <1>1, <2>1, <2>2 DEF OnlyBatteriesStop
  <2>3. CASE mode # "finishing"
    <3>1. mode = "running"
      BY <1>6, <2>3 DEF E!Finish
    <3>2. result' = "ok"
      BY <1>6, <3>1, TraceAvoidsObstacles DEF E!Finish
    <3>. QED  BY <2>1, <3>2 DEF OnlyBatteriesStop
  <2>. QED  BY <2>2, <2>3
<1>. QED  BY <1>2, <1>3, <1>4, <1>5, <1>6 DEF E!Execute

LEMMA DrivingKeepsFInv == FInv /\ DriveFleet => FInv'
<1> SUFFICES ASSUME FInv, DriveFleet PROVE FInv'
  OBVIOUS
<1>1. disturbances \in Nat /\ stage = "planned" /\ stage' = stage
  BY DEF FInv, QuietInv, DriveFleet
<1>2. CASE Drive!Disturb
  <2>1. disturbances' = disturbances + 1
    BY <1>2 DEF Drive!Disturb, Drive!DropObstacle, Drive!TakeOffline,
       Drive!RemoveRobot, Drive!MoveRobot, Drive!Disturbance
  <2>. QED  BY <1>1, <2>1 DEF FInv, QuietInv
<1>3. CASE Drive!Execute
  <2>1. E!Execute /\ UNCHANGED vars /\ UNCHANGED disturbances
    BY <1>3, SameExecutor, DrivingLeavesThePlan
  <2>2. ASSUME disturbances = 0
        PROVE  IInv' /\ AtRest' /\ NobodyDropsOut' /\ OnlyBatteriesStop' /\ RunInv'
    <3>1. IInv /\ AtRest /\ NobodyDropsOut /\ OnlyBatteriesStop /\ RunInv
      BY <2>2 DEF FInv, QuietInv
    <3>2. E!EInv /\ E!TraceInv
      BY <2>2, <3>1, RunCanBegin
    <3>3. IInv'
      BY <2>1, <3>1, StutterKeepsInvariant
    <3>4. E!EInv' /\ E!TraceInv'
      BY <2>1, <3>2, RunKeepsEInv DEF E!Next
    <3>5. OnlyBatteriesStop' /\ mode' # "idle"
      BY <2>1, <3>1, <3>2, DrivingStopsForBatteries DEF vars
    <3>6. NobodyDropsOut'
      BY <1>1, <2>1, <3>1, <3>2, DrivingKeepsStatuses DEF NobodyDropsOut
    <3>7. AtRest'
      BY <3>5 DEF AtRest
    <3>8. PathShape'
      BY <2>1, <3>1 DEF RunInv, PathShape, Shaped, Planned, vars, plannerVars, searchVars
    <3>. QED  BY <3>3, <3>4, <3>5, <3>6, <3>7, <3>8 DEF RunInv
  <2>. QED  BY <1>1, <2>1, <2>2 DEF FInv, QuietInv
<1>. QED  BY <1>2, <1>3 DEF DriveFleet, Drive!Next

LEMMA StutterKeepsFInv == FInv /\ UNCHANGED <<vars, fleetVars>> => FInv'
<1> SUFFICES ASSUME FInv, UNCHANGED vars, UNCHANGED fleetVars PROVE FInv'
  OBVIOUS
<1>1. /\ UNCHANGED <<paths, blocked, chain, stage, starts>>
      /\ UNCHANGED <<position, battery, status, odometer, mode, clock, uncommitted,
                     trace, moves, waits, before, conflicts, result, disturbances>>
  BY DEF vars, plannerVars, searchVars, requestVars, fleetVars
<1>2. UNCHANGED E!vars
  BY <1>1 DEF E!vars, E!robotVars, E!runVars
<1>3. IInv => IInv'
  BY StutterKeepsInvariant
<1>4. E!EInv /\ E!TraceInv => E!EInv' /\ E!TraceInv'
  BY <1>2, RunKeepsEInv
<1>5. PathShape => PathShape'
  BY <1>1 DEF PathShape, Shaped, Planned
<1>6. RunInv => RunInv'
  BY <1>1, <1>4, <1>5 DEF RunInv
<1>. QED
  BY <1>1, <1>3, <1>6 DEF FInv, QuietInv, AtRest, NobodyDropsOut, OnlyBatteriesStop, Planned

-----------------------------------------------------------------------------
(* The theorems.                                                           *)

(* A run that follows its planning is what planning promised: each part of *)
(* FInv survives every step of the planner and of the executor.            *)
THEOREM FleetInvariance == FleetSpec => []FInv
<1>1. FInv /\ [FleetNext]_<<vars, fleetVars>> => FInv'
  BY PlanningKeepsFInv, DrivingKeepsFInv, StutterKeepsFInv DEF FleetNext
<1>. QED  BY <1>1, InitFInv, PTL DEF FleetSpec

(* Planning and execution fit: for every floor, fleet, request and order,  *)
(* a run nothing disturbed ends with every planned robot at its goal, or   *)
(* with a battery that cannot pay for a move; no plan is rejected, no      *)
(* robot found out of place, no trace turned down                          *)
(* (coordinated_executor.py:152-154, 287).                                 *)
THEOREM LeftAloneTheFleetArrives == FleetSpec => []UndisturbedRunsArrive
<1>1. FInv => UndisturbedRunsArrive
  <2> SUFFICES ASSUME FInv, mode = "done", disturbances = 0
               PROVE  \/ result = "ok" /\ \A r \in Planned : position[r] = goals[r]
                      \/ \E r \in Planned : battery[r] < Drain
    BY DEF UndisturbedRunsArrive
  <2>1. IInv /\ OnlyBatteriesStop /\ E!EInv
    BY DEF FInv, QuietInv, RunInv
  <2>2. CASE result # "ok"
    BY <2>1, <2>2 DEF OnlyBatteriesStop
  <2>3. CASE result = "ok"
    <3>1. ASSUME NEW r \in Planned PROVE position[r] = goals[r]
      <4>1. position[r] = E!Goal(paths[r])
        BY <2>1, <2>3 DEF E!EInv, E!SuccessMeansArrived, E!Driven, Planned
      <4>2. Goal(paths[r]) = goals[r]
        BY <2>1, PlannedPaths
      <4>. QED  BY <4>1, <4>2 DEF Goal, E!Goal
    <3>. QED  BY <2>3, <3>1
  <2>. QED  BY <2>2, <2>3
<1>. QED  BY <1>1, FleetInvariance, PTL
=============================================================================
