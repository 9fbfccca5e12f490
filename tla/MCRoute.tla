------------------------------- MODULE MCRoute -------------------------------
(* An instance of the route executor for TLC.                              *)
EXTENDS RouteProperties

CONSTANTS r1, r2

BothRobots == {r1, r2}
NoTasks == {}
NoEndpoints == << >>
TwoObstacles == {"o1", "o2"}
TwoRoles == {"aisle", "charging"}
ChargerInTheCorner ==
  [c \in Cells |-> IF c = <<0, 0>> THEN "charging" ELSE "aisle"]

(* No cell, one cell, a walk, a jump, a walk back, and a walk off the      *)
(* floor.                                                                  *)
Routes ==
  { << >>, << <<0, 1>> >>,
    << <<0, 0>>, <<0, 1>>, <<1, 1>>, <<1, 0>> >>,
    << <<0, 0>>, <<1, 1>> >>,
    << <<0, 0>>, <<0, 1>>, <<0, 0>> >>,
    << <<0, 1>>, <<0, 0>>, <<-1, 0>> >> }

(* Enough for the longest route, or for two moves.                         *)
LowOrFull == {2, FullBattery}
=============================================================================
