CONSTANTS
  c1 = c1
  c2 = c2
  c3 = c3
  q1 = q1
  q2 = q2
  NoRobot = NoRobot
  NoTask = NoTask
  Same = Same
  Clear = Clear
  Nobody = Nobody
  RobotIds <- FourRobots
  TaskIds <- ThreeTasks
  Places <- ThreePlaces
  Requests <- TwoRequests
  Kinds <- Endpoints
  MaxLoad = 9
  PatchStatuses <- OnlyIdle
  Home <- DemoCells
  DemoTasks <- DemoQueue
  Spare = 3
  Fleets <- Leftovers
  MaxPresses = 3
  MaxFaults = 1
SPECIFICATION DashSpec
CHECK_DEADLOCK FALSE
INVARIANTS
  InitialiseIsExact
  TwoSidesAgree
PROPERTIES
  PressesEnd
