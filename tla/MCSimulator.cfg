CONSTANTS
  r1 = r1
  r2 = r2
  t1 = t1
  t2 = t2
  NoRobot = NoRobot
  NoTask = NoTask
  Width = 2
  Height = 2
  FullBattery = 1
  Drain = 1
  Robots <- TwoRobots
  Tasks <- TwoTasks
  CanCarry <- AllButOne
  FloorPlan <- ChargerInTheCorner
  Endpoints <- CornerToCorner
  ObstacleIds <- OneObstacle
  LocationTypes <- TwoRoles
SPECIFICATION Spec
INVARIANTS
  TypeOK
  AssignmentsAreWhole
  OneCellEach
