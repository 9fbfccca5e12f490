----------------------------- MODULE MCFleetRun -----------------------------
(* Instances of planning followed by execution, for TLC.                   *)
EXTENDS FleetRun, TLC

CONSTANTS r1, r2

TwoRobots == {r1, r2}
Floors == {{}, {<<0, 1>>}}
Goals == Cells
OneOrder == {<<r1, r2>>}
ThreeMoves == {3}
=============================================================================
