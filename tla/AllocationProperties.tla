------------------------ MODULE AllocationProperties ------------------------
(* What an allocation promises.                                            *)
EXTENDS Allocation

Statuses == {"none", "GREEDY", "OPTIMAL", "FEASIBLE", "UNKNOWN"}

(* Variables keep their types, and a cycle changes nothing it was given.   *)
TypeOK ==
  /\ blocked \in SUBSET Cells
  /\ robot \in [Robots -> RobotKinds] /\ task \in [Tasks -> TaskKinds]
  /\ phase \in {"price", "greedy", "solve", "done"}
  /\ Feasible \subseteq Robots \X Tasks
  /\ \A p \in Feasible : price[p] \in [toPickup : Nat, delivery : Nat]
  /\ todo \subseteq Tasks
  /\ chosen \subseteq Feasible
  /\ result.status \in Statuses /\ result.success \in BOOLEAN
  /\ result.pairs \subseteq Feasible /\ result.unassigned \subseteq Tasks
  /\ result.total \in Nat

(* find_allocation_problems (allocation/validation.py), which knows the    *)
(* rules of a pairing and nothing of how the pairs were found.             *)
IsLegal(p) ==
  /\ IsAvailable(p[1]) /\ IsPending(p[2])
  /\ CanCarry(p[1], p[2])
  /\ LET cost == Estimate(p[1], p[2]) IN
       /\ cost.toPickup # NoRoute /\ cost.delivery # NoRoute
       /\ cost = price[p]
       /\ (cost.toPickup + cost.delivery) * robot[p[1]].drain <= robot[p[1]].battery

IsMatch(pairs) ==
  \A p, q \in pairs : p # q => p[1] # q[1] /\ p[2] # q[2]

HasProblems(res) ==
  IF ~ res.success THEN res.pairs # {}
  ELSE \/ ~ IsMatch(res.pairs)
       \/ \E p \in res.pairs : ~ IsLegal(p)
       \/ res.total # MapThenSumSet(TotalCost, res.pairs)
       \/ res.unassigned # PendingTasks \ {p[2] : p \in res.pairs}
       \/ Cardinality(res.pairs) + Cardinality(res.unassigned)
            # Cardinality(PendingTasks)

(* Whatever either allocator returns passes the independent check: nobody  *)
(* and nothing assigned twice, every pairing legal, the sums right.        *)
ResultsPassTheCheck == TypeOK /\ (phase = "done" => ~ HasProblems(result))

Holder(t) == {p[1] : p \in {q \in result.pairs : q[2] = t}}

(* The greedy result leaves no pairing that ought to have been made: for   *)
(* every feasible one, either the task went to a robot at least as good    *)
(* for it, or the robot serves a task that comes first.  (In particular no *)
(* feasible robot stands idle beside a waiting task.)                      *)
GreedyIsStable ==
  result.status = "GREEDY" =>
    \A p \in Feasible :
      \/ \E r \in Holder(p[2]) : \/ r = p[1]
                                 \/ TotalCost(<<r, p[2]>>) < TotalCost(p)
                                 \/ TotalCost(<<r, p[2]>>) = TotalCost(p) /\ r < p[1]
      \/ \E q \in result.pairs :
           /\ q[1] = p[1]
           /\ \/ task[q[2]].priority > task[p[2]].priority
              \/ task[q[2]].priority = task[p[2]].priority /\ q[2] < p[2]

(* Between two free robots at the same cost the one of the lower id goes.  *)
TiesGoToTheLowerId ==
  \A p \in result.pairs : \A q \in Feasible :
    /\ q[2] = p[2] /\ q[1] < p[1] /\ TotalCost(q) = TotalCost(p)
    => \E other \in result.pairs : other[1] = q[1]

(* A result called OPTIMAL is one: no other choice of feasible pairings    *)
(* serves more tasks, and none that serves as many costs less, though the  *)
(* solver maximises one weighted sum; ties go to the lower id, as greedy   *)
(* has them.  Greedy is therefore never better.                            *)
OptimaAreBest ==
  result.status = "OPTIMAL" =>
    /\ TiesGoToTheLowerId
    /\ \A m \in SUBSET Feasible :
         IsMatch(m) =>
           \/ Cardinality(m) < Cardinality(result.pairs)
           \/ /\ Cardinality(m) = Cardinality(result.pairs)
              /\ MapThenSumSet(TotalCost, m) >= result.total

-----------------------------------------------------------------------------
(* Why it holds: the inductive invariant of the proofs.                    *)

PricesAreTrue ==
  phase # "price" =>
    \A p \in Feasible : IsCandidate(p[1], p[2]) /\ price[p] = Estimate(p[1], p[2])

NothingYet ==
  /\ phase = "price" => price = << >>
  /\ phase \in {"price", "solve"} => chosen = {}
  /\ phase # "done" => result = NoResult

(* Nobody would rather be paired as p is, and be first.                    *)
IsSettled(p, pairs) ==
  \/ \E q \in pairs : q[2] = p[2] /\ (q[1] = p[1] \/ Cheaper(q[1], p[1], p[2]))
  \/ \E q \in pairs : q[1] = p[1] /\ Before(q[2], p[2])

GreedyGoesInOrder ==
  phase = "greedy" =>
    /\ IsMatch(chosen)
    /\ todo \subseteq PendingTasks
    /\ \A t \in todo : \A u \in PendingTasks \ todo : Before(u, t)
    /\ \A p \in chosen : p[2] \notin todo
    /\ \A p \in Feasible : p[2] \notin todo => IsSettled(p, chosen)

GreedyHasSettled ==
  result.status = "GREEDY" => \A p \in Feasible : IsSettled(p, result.pairs)

AllocInv ==
  /\ TypeOK
  /\ PricesAreTrue
  /\ NothingYet
  /\ GreedyGoesInOrder
  /\ phase = "done" => ~ HasProblems(result)
  /\ GreedyHasSettled
  /\ OptimaAreBest
=============================================================================
