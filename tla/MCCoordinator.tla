--------------------------- MODULE MCCoordinator ----------------------------
(* Instances of the coordinator for TLC.                                   *)
EXTENDS CoordinatorProperties, TLC

CONSTANTS r1, r2, r3

(* Three robots on a 3 x 2 floor, open or with an obstacle that makes a    *)
(* corridor of it; a goal off the floor, goals that clash, and priorities  *)
(* with a duplicated id and a missing one.                                 *)
TrioRobots == {r1, r2, r3}
TrioLayouts == {{}, {<<0, 1>>}}
TrioGoals == {<<0, 0>>, <<1, 1>>, <<0, 2>>, <<0, 3>>}
TrioOrders == {<<r1, r2, r3>>, <<r1, r1, r3>>, <<r3, r2>>}
=============================================================================
