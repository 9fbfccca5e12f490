\* Two robots on 2 x 3 cells; up to two calls between planning and execution.
CONSTANTS
  r1 = r1
  r2 = r2
  driver = r1
  NoRobot = NoRobot
  NoTask = NoTask
  Width = 3
  Height = 2
  FullBattery = 4
  Drain = 1
  MaxChanges = 2
  Robots <- BothRobots
  Tasks <- NoTasks
  CanCarry <- NoTasks
  FloorPlan <- ChargerInTheCorner
  Endpoints <- NoEndpoints
  ObstacleIds <- TwoObstacles
  LocationTypes <- TwoRoles
  HandMade <- Routes
  Charges <- LowOrFull
SPECIFICATION RouteSpec
INVARIANTS
  FloorIsConsistent
  ReportIsHonest
  StalePlansDoNoHarm
  UndisturbedRoutesArrive
\* An execution ends.
CHECK_DEADLOCK FALSE
