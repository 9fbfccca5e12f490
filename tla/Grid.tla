-------------------------------- MODULE Grid --------------------------------
(***************************************************************************)
(* The floor plan as a graph (robotics/warehouse/grid.py): cells are       *)
(* <<row, col>> pairs, and a legal move is one orthogonal step.            *)
(***************************************************************************)
EXTENDS Integers, Sequences

CONSTANTS
  Width,   \* number of columns
  Height   \* number of rows

ASSUME DimensionAssumption == Width \in Nat \ {0} /\ Height \in Nat \ {0}

(* Every position the grid accepts as being inside the rectangle.          *)
Cells == (0 .. Height - 1) \X (0 .. Width - 1)

Distance(m, n) == IF m < n THEN n - m ELSE m - n

ManhattanDistance(a, b) == Distance(a[1], b[1]) + Distance(a[2], b[2])

AdjacentTo(a, b) == ManhattanDistance(a, b) = 1

(* The order in which Grid.neighbors lists the cells around a cell.        *)
Direction == << <<-1, 0>>, <<1, 0>>, <<0, -1>>, <<0, 1>> >>

ApplyTo(d, c) == <<c[1] + d[1], c[2] + d[2]>>

(* Grid.neighbors as a set, given the cells that may not be driven over.   *)
Neighbors(c, blocked) == {n \in Cells \ blocked : AdjacentTo(c, n)}

(* The cells that can be reached from start in at most n steps, by n.      *)
WithinSteps(start, blocked) ==
  LET reach[n \in 0 .. Width * Height] ==
        IF n = 0 THEN {start}
        ELSE LET before == reach[n-1] IN
             before \cup UNION {Neighbors(c, blocked) : c \in before}
  IN  reach

(* The cells 0, 1, 2, ... moves away: a neighbour of one ring lies in it,  *)
(* in the ring before it or in the next.                                   *)
Rings(start, blocked) ==
  LET rings[n \in 0 .. Width * Height] ==
        IF n = 0 THEN << {}, {start} >>
        ELSE LET before == rings[n-1] IN
             Append(before, (UNION {Neighbors(c, blocked) : c \in before[n+1]})
                              \ (before[n] \cup before[n+1]))
  IN  Tail(rings[Width * Height])

(* The number of moves to every cell that can be reached.                  *)
StepsFrom(start, blocked) ==
  LET rings == Rings(start, blocked) IN
  [c \in UNION {rings[i] : i \in DOMAIN rings} |->
     (CHOOSE i \in DOMAIN rings : c \in rings[i]) - 1]

(* What a single-robot route search decides: is there a walk to the goal?  *)
SpatiallyReachable(start, goal, blocked) ==
  goal \in WithinSteps(start, blocked)[Width * Height]
=============================================================================
