-------------------------- MODULE ReservationTable --------------------------
(***************************************************************************)
(* Which robot holds which cell, and which move, at which timestep         *)
(* (robotics/coordination/reservation_table.py), and the timed paths it    *)
(* stores (timed_path.py).  The two dictionaries of the class are the two  *)
(* relations of a table: <<cell, t, robot>> and <<from, to, t, robot>>.    *)
(***************************************************************************)
EXTENDS Grid

CONSTANTS
  Robots,   \* robot ids
  Horizon   \* the largest timestep a plan may use

ASSUME HorizonAssumption == Horizon \in Nat

Times == 0 .. Horizon

Tables ==
  [vertices : SUBSET (Cells \X Times \X Robots),
   edges    : SUBSET (Cells \X Cells \X Times \X Robots)]

EmptyTable == [vertices |-> {}, edges |-> {}]

-----------------------------------------------------------------------------
(* Timed paths: the cell at every timestep from start to arrival.          *)

IsTimedPath(p) ==
  /\ p.start \in Times
  /\ p.arrival \in p.start .. Horizon
  /\ p.at \in [p.start .. p.arrival -> Cells]

Goal(p) == p.at[p.arrival]

PositionAt(p, t) ==
  IF t <= p.start THEN p.at[p.start]
  ELSE IF t >= p.arrival THEN Goal(p)
  ELSE p.at[t]

-----------------------------------------------------------------------------
(* Reading.                                                                *)

IsVertexFree(tbl, c, t, r) ==
  \A o \in Robots : <<c, t, o>> \in tbl.vertices => o = r

(* Seeded fault: looks for robots driving the same way.                  *)
SwapChecksSameDirection(tbl, from, to, t, r) ==
  \E o \in Robots \ {r} : <<from, to, t, o>> \in tbl.edges

IsSwapConflict(tbl, from, to, t, r) ==
  \E o \in Robots \ {r} : <<to, from, t, o>> \in tbl.edges

IsMoveAllowed(tbl, from, to, t, r) ==
  /\ IsVertexFree(tbl, to, t + 1, r)
  /\ from # to => ~ IsSwapConflict(tbl, from, to, t, r)

-----------------------------------------------------------------------------
(* Writing.  A clash is the ValueError of reserve_vertex and reserve_edge. *)

(* Every step of the path, then its goal from arrival through the horizon. *)
PathVertices(p) == {<<PositionAt(p, t), t>> : t \in p.start .. Horizon}

PathEdges(p) ==
  {<<p.at[t], p.at[t+1], t>> :
     t \in {u \in p.start .. p.arrival - 1 : p.at[u] # p.at[u+1]}}

Clashes(tbl, r, p) ==
  \/ \E k \in PathVertices(p) : ~ IsVertexFree(tbl, k[1], k[2], r)
  \/ \E k \in PathEdges(p), o \in Robots \ {r} :
        <<k[1], k[2], k[3], o>> \in tbl.edges

(* Seeded fault: cells are reserved, moves are not.                      *)
ReserveVerticesOnly(tbl, r, p) ==
  [tbl EXCEPT !.vertices = @ \cup {<<k[1], k[2], r>> : k \in PathVertices(p)}]

ReserveTimedPath(tbl, r, p) ==
  [vertices |-> tbl.vertices \cup {<<k[1], k[2], r>> : k \in PathVertices(p)},
   edges    |-> tbl.edges \cup {<<k[1], k[2], k[3], r>> : k \in PathEdges(p)}]
=============================================================================
