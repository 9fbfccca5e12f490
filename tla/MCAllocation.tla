---------------------------- MODULE MCAllocation ----------------------------
(* An instance of the allocators for TLC.                                  *)
EXTENDS AllocationProperties

Rob(cell, capacity, battery, drain) ==
  [cell |-> cell, status |-> "idle", holds |-> FALSE, capacity |-> capacity,
   battery |-> battery, drain |-> drain]
Job(pickup, dropoff, weight, priority) ==
  [pickup |-> pickup, dropoff |-> dropoff, weight |-> weight, priority |-> priority,
   status |-> "pending"]

(* Strong ones in two corners, one nearly flat, one weak, one that never   *)
(* drains, and one that still holds a task.                                *)
Fleet == {Rob(<<0,0>>, 2, 9, 1), Rob(<<0,2>>, 2, 9, 1), Rob(<<1,2>>, 2, 2, 1),
          Rob(<<0,0>>, 1, 9, 1), Rob(<<1,0>>, 2, 0, 0),
          [Rob(<<1,0>>, 2, 9, 1) EXCEPT !.holds = TRUE]}

Jobs == {Job(<<0,0>>, <<0,0>>, 1, 2), Job(<<0,0>>, <<1,0>>, 2, 2),
         Job(<<0,2>>, <<0,0>>, 1, 1), Job(<<1,2>>, <<1,0>>, 1, 4),
         [Job(<<0,0>>, <<0,0>>, 1, 2) EXCEPT !.status = "assigned"]}

(* Open, a pillar in the way, two halves.                                  *)
Plans == {{}, {<<0,1>>}, {<<0,1>>, <<1,1>>}}
=============================================================================
