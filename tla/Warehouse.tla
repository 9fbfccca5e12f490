----------------------------- MODULE Warehouse ------------------------------
(***************************************************************************)
(* The floor plan as it changes: roles of cells and the two layers of      *)
(* obstacles (robotics/warehouse/warehouse.py).  Static obstacles are kept *)
(* twice, in a registry by id and as blocked cells of the grid; dynamic    *)
(* ones only in their registry.  A call that raises changes nothing.       *)
(***************************************************************************)
EXTENDS Grid, Functions

CONSTANTS
  ObstacleIds,    \* ids obstacles may have
  LocationTypes   \* the roles in use; "aisle" is the default

ASSUME WarehouseAssumption == "aisle" \in LocationTypes

VARIABLES
  role,         \* get_location_type of every cell
  static,       \* _static_obstacles: id -> cell
  dynamic,      \* _dynamic_obstacles: id -> cell
  gridBlocked   \* Grid._blocked_cells

floorVars == <<role, static, dynamic, gridBlocked>>

Functional == LocationTypes \ {"aisle"}

NoObstacles == [o \in {} |-> <<0, 0>>]

With(obstacles, o, c) ==
  [x \in DOMAIN obstacles \cup {o} |-> IF x = o THEN c ELSE obstacles[x]]

IsBlockedByStatic(c) == \E o \in DOMAIN static : static[o] = c
IsBlockedByDynamic(c) == \E o \in DOMAIN dynamic : dynamic[o] = c

(* What planners ask, and what they are told.                              *)
IsTraversable(c) == c \in Cells \ gridBlocked /\ ~ IsBlockedByDynamic(c)

IdIsUnused(o) == o \notin DOMAIN static \cup DOMAIN dynamic

-----------------------------------------------------------------------------
MarkLocation(c, type) ==
  /\ type \in Functional => ~ IsBlockedByStatic(c)
  /\ role' = [role EXCEPT ![c] = type]
  /\ UNCHANGED <<static, dynamic, gridBlocked>>

AddStaticObstacle(o, c) ==
  /\ IdIsUnused(o)
  /\ role[c] \notin Functional
  /\ static' = With(static, o, c)
  /\ gridBlocked' = gridBlocked \cup {c}
  /\ UNCHANGED <<role, dynamic>>

(* Seeded fault: the grid is not told.                                   *)
RemoveFromRegistryOnly(o) ==
  /\ o \in DOMAIN static
  /\ static' = Restrict(static, DOMAIN static \ {o})
  /\ UNCHANGED <<role, dynamic, gridBlocked>>

RemoveStaticObstacle(o) ==
  /\ o \in DOMAIN static
  /\ static' = Restrict(static, DOMAIN static \ {o})
  /\ gridBlocked' = gridBlocked \ {static[o]}
  /\ UNCHANGED <<role, dynamic>>

AddDynamicObstacle(o, c) ==
  /\ IdIsUnused(o)
  /\ ~ IsBlockedByStatic(c)
  /\ dynamic' = With(dynamic, o, c)
  /\ UNCHANGED <<role, static, gridBlocked>>

RemoveDynamicObstacle(o) ==
  /\ o \in DOMAIN dynamic
  /\ dynamic' = Restrict(dynamic, DOMAIN dynamic \ {o})
  /\ UNCHANGED <<role, static, gridBlocked>>

-----------------------------------------------------------------------------
FloorInit ==
  /\ role = [c \in Cells |-> "aisle"]
  /\ static = NoObstacles
  /\ dynamic = NoObstacles
  /\ gridBlocked = {}

ChangeFloor ==
  \/ \E c \in Cells, type \in LocationTypes : MarkLocation(c, type)
  \/ \E o \in ObstacleIds, c \in Cells :
       AddStaticObstacle(o, c) \/ AddDynamicObstacle(o, c)
  \/ \E o \in ObstacleIds : RemoveStaticObstacle(o) \/ RemoveDynamicObstacle(o)

FloorSpec == FloorInit /\ [][ChangeFloor]_floorVars

-----------------------------------------------------------------------------
FloorTypeOK ==
  /\ role \in [Cells -> LocationTypes]
  /\ DOMAIN static \in SUBSET ObstacleIds /\ \A o \in DOMAIN static : static[o] \in Cells
  /\ DOMAIN dynamic \in SUBSET ObstacleIds /\ \A o \in DOMAIN dynamic : dynamic[o] \in Cells
  /\ gridBlocked \in SUBSET Cells

(* No cell with a function is ever walled in: whichever comes first, the   *)
(* role or the static obstacle, the other is refused                       *)
(* (warehouse.py:126-130, 206-211).                                        *)
FunctionalCellsAreReachable ==
  \A c \in Cells : role[c] \in Functional => ~ IsBlockedByStatic(c)

(* The grid blocks no cell without a static obstacle on it: nothing stays  *)
(* closed after the last obstacle there was removed (warehouse.py:221-232).*)
NoPhantomWalls == \A c \in gridBlocked : IsBlockedByStatic(c)

(* Walls never cut off a cell that has a function, nor outlive themselves. *)
FloorIsConsistent == FunctionalCellsAreReachable /\ NoPhantomWalls
=============================================================================
