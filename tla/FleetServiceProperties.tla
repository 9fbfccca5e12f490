----------------------- MODULE FleetServiceProperties -----------------------
(* What the write endpoints promise while requests overlap.                *)
EXTENDS FleetService

(* The rows keep their types, and a request in flight knows what it does.  *)
TypeOK ==
  /\ DOMAIN robots \subseteq RobotIds /\ Range(robots) \subseteq RobotRow
  /\ DOMAIN tasks \subseteq TaskIds /\ Range(tasks) \subseteq TaskRow
  /\ \A q \in Requests :
       /\ request[q].phase \in {"none", "list_tasks", "write_back", "flush", "done"}
       /\ request[q].kind \in Kinds \cup {"none"}
       /\ request[q].code \in {0, 200, 201, 204, 404, 409, 422, 500, 503}
       /\ Range(request[q].pool) \subseteq RobotRow
       /\ Range(request[q].plan) \subseteq TaskRow
  /\ racedWrite \in BOOLEAN

Said(q, kind, code) == request[q].kind = kind /\ request[q].phase = "done"
                       /\ request[q].code = code

(* However the creations of one id overlap, one of them answers 201 (two   *)
(* only around a deletion), the row is there afterwards unless somebody    *)
(* deleted it, and no creation ends in a 500 (benchmark_concurrency.py, B; *)
(* test_concurrent_api.py: one 201, the rest 409).                         *)
OneCreateWins ==
  \A q \in Requests :
    LET id == request[q].id
        kind == request[q].kind
        deletion == IF kind = "create_robot" THEN "delete_robot" ELSE "delete_task"
        deleted == \E p \in Requests : request[p].id = id /\ Said(p, deletion, 204)
    IN kind \in {"create_robot", "create_task"} /\ request[q].phase = "done" =>
         /\ request[q].code # 500
         /\ request[q].code = 201 /\ ~ deleted =>
              /\ id \in DOMAIN robots \cup DOMAIN tasks
              /\ \A p \in Requests \ {q} : request[p].id = id => ~ Said(p, kind, 201)

(* A task never names a robot that has no row, whatever overlaps with the  *)
(* deletion of the robot: an assignment that lost the race is refused, one *)
(* that won is undone (models.py, the foreign key ON DELETE SET NULL).     *)
PointersResolve ==
  \A t \in DOMAIN tasks : tasks[t].robot \in DOMAIN robots \cup {NoRobot}

(* What the database's keys promise, the services turn into answers.       *)
KeysHold == TypeOK /\ OneCreateWins /\ PointersResolve

(* As long as no request wrote over rows that had changed since it read    *)
(* them, two robots never stand on one cell and a pending task has no      *)
(* robot: the checks of the services are enough for requests that do not   *)
(* overlap, through any sequence of calls.                                 *)
SerialRequestsAreSafe ==
  ~ racedWrite =>
    /\ OneRobotPerCell
    /\ \A t \in DOMAIN tasks : tasks[t].status = "pending" => tasks[t].robot = NoRobot

Commits(q) == request[q].phase = "flush" /\ request'[q].phase = "done"

Deletes(p, kind, id) ==
  /\ Commits(p) /\ request'[p].code = 204
  /\ request[p].kind = kind /\ request[p].id = id

(* The rows a request has decided to update and the tables have no longer. *)
LostRobots(q) == DOMAIN request[q].writes.robots \ DOMAIN robots
LostTasks(q) == DOMAIN request[q].writes.tasks \ DOMAIN tasks

(* A step that answers 500 is the flush of a request that has lost a row.  *)
ErrsForALostRow(q) ==
  request[q].phase # "done" /\ request'[q].phase = "done" /\ request'[q].code = 500 =>
    Commits(q) /\ LostRobots(q) \cup LostTasks(q) # {}

(* What a request loses in a step, another one deletes in that step; a     *)
(* request that decides in this step has not lost anything.                *)
LosesToDeletions(q) ==
  request'[q].phase = "flush" =>
    /\ \A r \in LostRobots(q)' \ LostRobots(q) :
         \E p \in Requests \ {q} : Deletes(p, "delete_robot", r)
    /\ \A t \in LostTasks(q)' \ LostTasks(q) :
         \E p \in Requests \ {q} : Deletes(p, "delete_task", t)

(* A server error answers only a request that has lost a row it updates    *)
(* (StaleDataError).  Nobody decides on rows that are not there, and a row *)
(* is lost, between the decision and the flush, in one way only: in that   *)
(* very step another request is answered 204 to the deletion of that row.  *)
ErrorsNeedADeletion ==
  [][\A q \in Requests : ErrsForALostRow(q) /\ LosesToDeletions(q)]_vars

(* An allocation nobody interfered with takes robots that were idle and    *)
(* had no task, gives them tasks that were pending, and leaves both sides  *)
(* of every assignment pointing at each other.                             *)
AllocationStealsNothing ==
  [][\A q \in Requests :
       Commits(q) /\ request[q].kind = "allocation" /\ ~ request[q].raced =>
         /\ \A t \in DOMAIN tasks :
              tasks'[t] # tasks[t] =>
                /\ tasks[t].status = "pending" /\ tasks'[t].status = "assigned"
                /\ robots'[tasks'[t].robot].task = t
         /\ \A r \in DOMAIN robots :
              robots'[r] # robots[r] =>
                /\ robots[r].status = "idle" /\ robots[r].task = NoTask
                /\ tasks'[robots'[r].task].robot = r]_vars

(* The status of a task moves along the lifecycle of tasks/task.py in      *)
(* every committed step but the commit of a recovery: through any sequence *)
(* of requests, and through races too, if the two requests did not both    *)
(* decide on what the other was changing.                                  *)
LifecycleHolds ==
  [][\A q \in Requests, t \in DOMAIN tasks :
       Commits(q) /\ request[q].kind # "recovery" /\ ~ request[q].raced
         /\ t \in DOMAIN tasks' =>
           tasks'[t].status \in Lifecycle[tasks[t].status] \cup {tasks[t].status}]_vars
=============================================================================
