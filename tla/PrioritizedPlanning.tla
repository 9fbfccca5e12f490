------------------------- MODULE PrioritizedPlanning ------------------------
(***************************************************************************)
(* What MultiRobotCoordinator.plan promises its caller, without a          *)
(* reservation table or a search: one robot after another either gets a    *)
(* timed path that meets none of the paths handed out before, or is put on *)
(* the list of failures; what was handed out is never taken back.          *)
(***************************************************************************)
EXTENDS ReservationTable

VARIABLES
  paths,    \* the timed paths handed out, by robot
  failed    \* the robots that got none

vars == <<paths, failed>>

Answered == DOMAIN paths \cup failed

(* Two routes never meet: not on a cell, not by trading cells in one step. *)
Compatible(p, q) ==
  /\ \A t \in Times : PositionAt(p, t) # PositionAt(q, t)
  /\ \A t \in 0 .. Horizon - 1 :
       ~ /\ PositionAt(p, t) = PositionAt(q, t + 1)
         /\ PositionAt(q, t) = PositionAt(p, t + 1)

IsWalk(p) ==
  /\ IsTimedPath(p)
  /\ p.start = 0
  /\ \A t \in 0 .. p.arrival - 1 :
       p.at[t+1] = p.at[t] \/ AdjacentTo(p.at[t], p.at[t+1])

Init == DOMAIN paths = {} /\ failed = {}

HandOut(r) ==
  /\ r \notin Answered
  /\ DOMAIN paths' = DOMAIN paths \cup {r}
  /\ \A q \in DOMAIN paths : paths'[q] = paths[q] /\ Compatible(paths'[r], paths[q])
  /\ IsWalk(paths'[r])
  /\ UNCHANGED failed

PutOff(r) ==
  /\ r \notin Answered
  /\ failed' = failed \cup {r}
  /\ UNCHANGED paths

Next == \E r \in Robots : HandOut(r) \/ PutOff(r)

Spec == Init /\ [][Next]_vars
=============================================================================
