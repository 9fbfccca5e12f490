CONSTANTS
  r1 = r1
  r2 = r2
  Width = 3
  Height = 1
  Horizon = 3
  Drain = 1
  MaxDisturbances = 1
  Charges <- LowCharges
  Robots <- PlanRobots
  Routes <- AllRoutes
  Fleets <- AllFleets
SPECIFICATION Spec
INVARIANTS
  PreflightSuffices
  ResultIsHonest
PROPERTIES
  AllOrNothing
SYMMETRY Interchangeable
CHECK_DEADLOCK FALSE
