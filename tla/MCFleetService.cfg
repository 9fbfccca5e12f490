CONSTANTS
  r1 = r1
  r2 = r2
  t1 = t1
  t2 = t2
  c1 = c1
  c2 = c2
  q1 = q1
  q2 = q2
  q3 = q3
  NoRobot = NoRobot
  NoTask = NoTask
  Same = Same
  Clear = Clear
  RobotIds <- TwoRobots
  TaskIds <- TwoTasks
  Places <- TwoPlaces
  Requests <- ThreeRequests
  Kinds <- Endpoints
  MaxLoad = 3
  PatchStatuses <- OnlyIdle
SYMMETRY Names
SPECIFICATION Spec
CHECK_DEADLOCK FALSE
INVARIANTS
  KeysHold
  SerialRequestsAreSafe
PROPERTIES
  ErrorsNeedADeletion
  AllocationStealsNothing
  LifecycleHolds
