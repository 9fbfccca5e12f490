CONSTANTS
  r1 = r1
  r2 = r2
  Width = 3
  Height = 2
  Horizon = 4
  Drain = 1
  MaxDisturbances = 1
  Charges <- ThreeMoves
  Robots <- TwoRobots
  Layouts <- Floors
  GoalPositions <- Goals
  Orders <- OneOrder
SPECIFICATION FairFleetSpec
INVARIANTS
  UndisturbedRunsArrive
PROPERTIES
  EveryRunEnds
CHECK_DEADLOCK FALSE
