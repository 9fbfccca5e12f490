--------------------------- MODULE MCFleetService ---------------------------
(* Instances of the services for TLC.                                      *)
EXTENDS FleetServiceProperties, TLC

CONSTANTS r1, r2, t1, t2, c1, c2, q1, q2, q3

TwoRobots == {r1, r2}
TwoTasks == {t1, t2}
TwoPlaces == {c1, c2}
ThreeRequests == {q1, q2, q3}
OnlyIdle == {"idle"}

Names == Permutations(TwoRobots) \cup Permutations(TwoTasks)
         \cup Permutations(TwoPlaces) \cup Permutations(ThreeRequests)
=============================================================================
