----------------------------- MODULE MCRecovery -----------------------------
(* Instances of recovery for TLC.                                          *)
EXTENDS RecoveryProperties, Sequences, TLC

(* A route from the list of the cells at times 0, 1, 2 ...                 *)
Walk(w) == [start |-> 0, arrival |-> Len(w) - 1, at |-> [t \in 0 .. Len(w) - 1 |-> w[t+1]]]

(*   a b c                                                                 *)
(*   d e f                                                                 *)
a == <<0, 0>>  b == <<0, 1>>  c == <<0, 2>>
d == <<1, 0>>  e == <<1, 1>>  f == <<1, 2>>

ThreeRobots == 1 .. 3
Pair == {1, 2}

(* Routes that follow each other, cross, wait, park; some of the pairs     *)
(* meet and are rejected.                                                  *)
PairRoutes ==
  {Walk(w) : w \in {<<a, b, c>>, <<d, e, b>>, <<d, a, b>>, <<f, e>>, <<f, f, e>>, <<c>>}}
PairPlans == [Pair -> PairRoutes]
NoPlan == {[r \in {} |-> Walk(<<a>>)]}

Convoys ==
  {<<Walk(<<a, b, c>>), Walk(<<d, a, b>>), Walk(<<f>>)>>,
   <<Walk(<<a, b, e, f>>), Walk(<<d, d, a>>), Walk(<<c>>)>>,
   <<Walk(<<d, e, f>>), Walk(<<a, d, e>>), Walk(<<b, a, d>>)>>,
   <<Walk(<<d, a, b, e>>), Walk(<<a, b, c>>)>>}

(* A plan of the coordinator, for the run that goes wrong.                 *)
CrossingPlan == {<<Walk(<<f, c, b>>), Walk(<<e, f, c>>)>>}

OneTask == {"T"}
PickupAtB == [t \in Tasks |-> b]
DropoffAtF == [t \in Tasks |-> f]
AllCarry == Robots \X Tasks

(* One event at any of three times, or two, in any order and at once.      *)
Fails(times, R) == times \X R
Falls(times) == times \X Cells
Schedule(broken, fallen) == [failures |-> broken, drops |-> fallen]

NoEvent == Schedule({}, {})
OneFailure(R) == {Schedule({x}, {}) : x \in Fails(0 .. 2, R)}
OneDrop == {Schedule({}, {x}) : x \in Falls(0 .. 2)}
AtMostOne(R) == {NoEvent} \cup OneFailure(R) \cup OneDrop
FailureAndDrop(R) == {Schedule({x}, {y}) : x \in Fails(0 .. 1, R), y \in Falls(0 .. 1)}
TwoFailures(R) == {Schedule({x, y}, {}) : x, y \in Fails(0 .. 1, R)}
TwoDrops == {Schedule({}, {x, y}) : x, y \in Falls(0 .. 1)}

(* Two robots, one event at most, batteries that may run out, recovery on  *)
(* or off, and a fleet that may be out of place.                           *)
PairScenario ==
  [plans |-> PairPlans, schedules |-> AtMostOne(Pair), settings |-> BOOLEAN,
   charges |-> {1, 6}, owners |-> {NoRobot}, progress |-> {"ASSIGNED"},
   spares |-> {b, e}, placed |-> FALSE]

(* Nobody is given a route.                                                *)
NoPlanScenario ==
  [plans |-> NoPlan, schedules |-> {NoEvent},
   settings |-> BOOLEAN, charges |-> {6}, owners |-> {NoRobot},
   progress |-> {"ASSIGNED"}, spares |-> {a, b, c}, placed |-> FALSE]

(* A fleet in place, with a task that has come any way, and a failure.     *)
FailureScenario ==
  [plans |-> Convoys, schedules |-> OneFailure(Robots), settings |-> {TRUE},
   charges |-> {6}, owners |-> Robots \cup {NoRobot},
   progress |-> {"ASSIGNED", "IN_PROGRESS", "COMPLETED"},
   spares |-> Cells, placed |-> TRUE]

(* Another event before or after it, while the task may change hands.      *)
DoubleScenario ==
  [FailureScenario EXCEPT !.schedules = FailureAndDrop(Robots) \cup TwoFailures(Robots),
                          !.progress = {"ASSIGNED"}]

(* Obstacles leave tasks alone: a fleet without any and up to two of them. *)
ObstacleScenario ==
  [FailureScenario EXCEPT !.schedules = {NoEvent} \cup OneDrop \cup TwoDrops,
                          !.owners = {NoRobot}]

AllScenarios == {PairScenario, NoPlanScenario, FailureScenario, DoubleScenario,
                 ObstacleScenario}

CrossingScenario ==
  [plans |-> CrossingPlan, schedules |-> AtMostOne(Pair), settings |-> {TRUE},
   charges |-> {6}, owners |-> {NoRobot}, progress |-> {"ASSIGNED"},
   spares |-> Cells, placed |-> TRUE]
CrossingOnly == {CrossingScenario}
=============================================================================
