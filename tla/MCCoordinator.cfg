CONSTANTS
  r1 = r1
  r2 = r2
  r3 = r3
  Width = 3
  Height = 2
  Horizon = 6
  Robots <- TrioRobots
  Layouts <- TrioLayouts
  GoalPositions <- TrioGoals
  Orders <- TrioOrders
SPECIFICATION Spec
INVARIANTS
  TypeOK
  PlansAreSafe
  BooksMatchThePlan
  SearchIsExact
PROPERTIES
  KeepsThePromise
CHECK_DEADLOCK FALSE
