----------------------------- MODULE MCDashboard -----------------------------
(* An instance of the dashboard for TLC.                                   *)
EXTENDS Dashboard, TLC

CONSTANTS c1, c2, c3, q1, q2

(* Robots 1 to 3 are the demo's, 3 the spare; 4 is from an older version   *)
(* of it, and may stand on a cell of the demo.                             *)
FourRobots == 1 .. 4
ThreeTasks == 1 .. 3
ThreePlaces == {c1, c2, c3}
DemoCells == <<c1, c2, c3>>
DemoQueue == {1, 2}
TwoRequests == {q1, q2}
OnlyIdle == {"idle"}

At(c) == [cell |-> c, status |-> "idle", task |-> NoTask]
Busy(c, t) == [cell |-> c, status |-> "assigned", task |-> t]
Waiting == [status |-> "pending", robot |-> NoRobot]
With(r) == [status |-> "assigned", robot |-> r]

(* Nothing yet; the demo as it was left; the rows of an older version, on  *)
(* the cells of this one.                                                  *)
Leftovers ==
  {[robots |-> NoRows, tasks |-> NoRows],
   [robots |-> <<At(c1), At(c2), At(c3)>>, tasks |-> <<Waiting, Waiting>>],
   [robots |-> (2 :> At(c3)) @@ (4 :> Busy(c1, 3)), tasks |-> (3 :> With(4))]}
=============================================================================
