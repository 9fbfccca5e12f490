\* The plan of the counterexample.
CONSTANTS
  Width = 3
  Height = 2
  Horizon = 6
  Drain = 1
  NoRobot = 0
  NoTask = "none"
  Robots <- ThreeRobots
  Tasks <- OneTask
  Pickup <- PickupAtB
  Dropoff <- DropoffAtF
  CanCarry <- AllCarry
  Scenarios <- CrossingOnly
SPECIFICATION Spec
INVARIANTS
  StopsAreSafe
CHECK_DEADLOCK FALSE
