----------------------------- MODULE JointSteps -----------------------------
(***************************************************************************)
(* What coordinated execution promises: once a fleet has set off it moves  *)
(* in whole joint steps, all robots or none, each step legal on the floor  *)
(* as it is at that moment, and it may halt after any of them.             *)
(***************************************************************************)
EXTENDS Grid

VARIABLES
  stage,     \* "before", "moving" or "over"
  floor,     \* the cells under an obstacle
  position   \* where every robot of the fleet is

vars == <<stage, floor, position>>

Fleet == DOMAIN position

Apart(at) == \A q, r \in Fleet : q # r => at[q] # at[r]

IsJointStep(from, to) ==
  /\ \A r \in Fleet : to[r] = from[r] \/ AdjacentTo(from[r], to[r])
  /\ \A r \in Fleet : to[r] \in Cells \ floor
  /\ Apart(to)
  /\ \A q, r \in Fleet : q # r => ~ (from[q] = to[r] /\ from[r] = to[q])

Init == stage = "before"

Arrange == stage = "before" /\ stage' = "before"

SetOff ==
  /\ stage = "before"
  /\ Apart(position)
  /\ stage' = "moving"
  /\ UNCHANGED <<floor, position>>

Step ==
  /\ stage = "moving"
  /\ DOMAIN position' = Fleet
  /\ IsJointStep(position, position')
  /\ UNCHANGED <<stage, floor>>

Obstruct == stage = "moving" /\ UNCHANGED <<stage, position>>

Halt ==
  /\ stage \in {"before", "moving"}
  /\ stage' = "over"
  /\ UNCHANGED <<floor, position>>

Next == Arrange \/ SetOff \/ Step \/ Obstruct \/ Halt

Spec == Init /\ [][Next]_vars
=============================================================================
