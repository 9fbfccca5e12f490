----------------------------- MODULE MCExecutor -----------------------------
(* Instances of the executor for TLC.                                      *)
EXTENDS ExecutorProperties, Sequences, TLC

CONSTANTS r1, r2

(* Two interchangeable robots; every sequence of at most PlanLength steps  *)
(* over the cells of the floor is a route, one leads off the floor, and    *)
(* some longer ones have pauses at the start, on the way and at the end.   *)
PlanLength == 2
PlanRobots == {r1, r2}
Walk(w) == [start |-> 0, arrival |-> Len(w) - 1, at |-> [t \in 0 .. Len(w) - 1 |-> w[t+1]]]
Left == <<0, 0>>
Middle == <<0, 1>>
Right == <<0, 2>>
Outside == <<0, 3>>
PausingRoutes ==
  {Walk(w) : w \in {<<Left, Left, Middle, Right>>, <<Right, Middle, Middle, Left>>,
                    <<Middle, Right, Right, Right>>}}
AllRoutes ==
  UNION {{[start |-> 0, arrival |-> n, at |-> f] : f \in [0 .. n -> Cells]} :
         n \in 0 .. PlanLength}
  \cup {Walk(<<Right, Outside>>)} \cup PausingRoutes
AllFleets == SUBSET PlanRobots
LowCharges == 0 .. 2
Interchangeable == Permutations(PlanRobots)
=============================================================================
