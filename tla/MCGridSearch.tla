---------------------------- MODULE MCGridSearch ----------------------------
(* An instance of the single-robot planners for TLC.                       *)
EXTENDS GridSearch, FiniteSetsExt

Outside == {<<-1, 0>>, <<0, Width>>}

(* At most two obstacles: enough for detours, for walls across a corner    *)
(* and for entries that are stale when they are popped.                    *)
FewObstacles == UNION {kSubset(n, Cells) : n \in 0 .. 2}
=============================================================================
