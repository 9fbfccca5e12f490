\* Three robots of six kinds, two tasks of five, on a 3x2 floor, open or not.
CONSTANTS
  Width = 3
  Height = 2
  Robots = {1, 2, 3}
  Tasks = {1, 2}
  RobotKinds <- Fleet
  TaskKinds <- Jobs
  Floors <- Plans
SPECIFICATION Spec
INVARIANTS
  ResultsPassTheCheck
  GreedyIsStable
  OptimaAreBest
CHECK_DEADLOCK FALSE
