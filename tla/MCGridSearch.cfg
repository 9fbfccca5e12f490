\* A floor of 3 rows and 4 columns with up to two obstacles, every start and goal.
CONSTANTS
  Width = 4
  Height = 3
  OffTheFloor <- Outside
  Floors <- FewObstacles
SPECIFICATION SearchSpec
INVARIANTS
  RoutesAreShortest
  SearchIsDirected
PROPERTIES
  PlannersAnswer
CHECK_DEADLOCK FALSE
