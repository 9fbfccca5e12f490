---------------------------- MODULE MCSimulator -----------------------------
(* Instances of the warehouse and of the simulator for TLC.                *)
EXTENDS SimulatorProperties, TLC

CONSTANTS r1, r2, t1, t2

(* A 2 x 2 floor with one charging station; r2 is too small for t2.        *)
TwoRobots == {r1, r2}
TwoTasks == {t1, t2}
AllButOne == (TwoRobots \X TwoTasks) \ {<<r2, t2>>}
TwoRoles == {"aisle", "charging"}
ChargerInTheCorner ==
  [c \in Cells |-> IF c = <<0, 0>> THEN "charging" ELSE "aisle"]
CornerToCorner == (t1 :> {<<0, 0>>, <<1, 1>>}) @@ (t2 :> {<<0, 1>>, <<1, 0>>})
OneObstacle == {"o1"}
=============================================================================
