\* Three robots on 2 x 3 cells; the scenarios are those of MCRecovery.
CONSTANTS
  Width = 3
  Height = 2
  Horizon = 5
  Drain = 1
  NoRobot = 0
  NoTask = "none"
  Robots <- ThreeRobots
  Tasks <- OneTask
  Pickup <- PickupAtB
  Dropoff <- DropoffAtF
  CanCarry <- AllCarry
  Scenarios <- AllScenarios
SPECIFICATION Spec
INVARIANTS
  VerdictIsRight
  RecoveryIsSafe
  TasksAreServed
PROPERTIES
  OnlyTheAffectedMove
  RunEnds
\* A run ends.
CHECK_DEADLOCK FALSE
