---------------------------- MODULE FleetService ----------------------------
(***************************************************************************)
(* The write endpoints over the persisted fleet: robot_service.py,         *)
(* task_service.py, allocation_service.py (from_persisted, commit) and the *)
(* commit of recovery_service.py, each one request in one transaction      *)
(* (api/dependencies.py, get_session).  Requests run at the same time, in  *)
(* threads and in processes, over a READ COMMITTED database: a read sees   *)
(* the rows of its moment, and the flush sends the columns the request     *)
(* changed, by primary key, whatever the rows have become.                 *)
(*                                                                         *)
(* Consecutive reads on which a request decides are one step, but for the  *)
(* two lists of an allocation.  A flush and the commit after it are one    *)
(* step: row locks keep a second writer of the same row out in between.    *)
(***************************************************************************)
EXTENDS Integers, FiniteSets, Functions

CONSTANTS
  RobotIds, TaskIds,
  Places,            \* the traversable cells of the default warehouse
  NoRobot, NoTask,   \* NULL in the two pointers
  Same,              \* a field the body of a PATCH leaves out
  Clear,             \* clear_assigned_task
  Requests,          \* the requests of a run, each issued at most once
  Kinds,             \* the endpoints called
  PatchStatuses,     \* the robot statuses a PATCH may ask for
  MaxLoad            \* bound: requests issued and task rows together

RobotStatuses == {"idle", "assigned", "moving", "charging", "offline"}
TaskStatuses == {"pending", "assigned", "in_progress", "completed", "failed"}
Endpoints == {"create_robot", "update_robot", "delete_robot", "create_task",
              "update_task", "delete_task", "allocation", "recovery"}

ASSUME ServiceAssumption ==
  /\ NoRobot \notin RobotIds /\ NoTask \notin TaskIds
  /\ Same # Clear
  /\ {Same, Clear} \cap (RobotIds \cup TaskIds \cup Places) = {}
  /\ Kinds \subseteq Endpoints
  /\ PatchStatuses \subseteq RobotStatuses
  /\ MaxLoad \in Nat

VARIABLES
  robots,       \* the rows of the robots table, by primary key
  tasks,        \* the rows of the tasks table
  request,      \* what each request has read, decided and answered
  racedWrite    \* some request changed rows after another had changed them
                \* under its feet

vars == <<robots, tasks, request, racedWrite>>

RobotRow == [cell : Places, status : RobotStatuses, task : TaskIds \cup {NoTask}]
TaskRow == [status : TaskStatuses, robot : RobotIds \cup {NoRobot}]

-----------------------------------------------------------------------------
(* Sessions.                                                               *)

NoRows == << >>     \* no id is in its domain
Single(id, row) == [i \in {id} |-> row]
Overlaid(f, g) == [i \in DOMAIN f \cup DOMAIN g |-> IF i \in DOMAIN f THEN f[i] ELSE g[i]]

NoWrites == [newRobots |-> NoRows, robots |-> NoRows, goneRobots |-> {},
             newTasks |-> NoRows, tasks |-> NoRows, goneTasks |-> {}]
NotIssued == [phase |-> "none", kind |-> "none", id |-> NoTask, raced |-> FALSE,
              writes |-> NoWrites, pool |-> NoRows, plan |-> NoRows, code |-> 0]

(* The columns a flush sends: those that differ from the row as loaded.    *)
Changed(row, new) == [c \in {d \in DOMAIN row : new[d] # row[d]} |-> new[c]]

(* The updates of a set of loaded rows, without those that change nothing. *)
Updates(rows, new) ==
  LET touched == {i \in DOMAIN rows \cap DOMAIN new : new[i] # rows[i]}
  IN [i \in touched |-> Changed(rows[i], new[i])]

Patched(rows, updates) ==
  [i \in DOMAIN rows |-> IF i \in DOMAIN updates THEN Overlaid(updates[i], rows[i])
                         ELSE rows[i]]

Without(rows, ids) == Restrict(rows, DOMAIN rows \ ids)

(* Seeded fault: the foreign key is not ON DELETE SET NULL.              *)
KeepPointers(rows, ids) == rows

(* Seeded fault: the foreign key is ON DELETE CASCADE.                   *)
Cascade(rows, ids) == Restrict(rows, {t \in DOMAIN rows : rows[t].robot \notin ids})

(* The foreign key of tasks.assigned_robot_id: ON DELETE SET NULL.         *)
SetNull(rows, ids) ==
  [t \in DOMAIN rows |->
     [rows[t] EXCEPT !.robot = IF @ \in ids THEN NoRobot ELSE @]]

Issue(q, kind) ==
  /\ request[q].phase = "none"
  /\ kind \in Kinds
  /\ Cardinality({p \in Requests : request[p].phase # "none"})
       + Cardinality(DOMAIN tasks) =< MaxLoad

Answered(req, code) == [req EXCEPT !.phase = "done", !.code = code, !.raced = FALSE,
                                   !.writes = NoWrites, !.pool = NoRows, !.plan = NoRows]

(* An answer that leaves the rows alone.                                   *)
Answer(q, kind, id, code) ==
  /\ request' = [request EXCEPT
       ![q] = Answered([@ EXCEPT !.kind = kind, !.id = id], code)]
  /\ UNCHANGED <<robots, tasks, racedWrite>>

(* The request has decided what to flush, and what it will answer.         *)
Stage(q, kind, id, writes, code) ==
  /\ request' = [request EXCEPT ![q].phase = "flush", ![q].kind = kind, ![q].id = id,
                                ![q].writes = writes, ![q].code = code,
                                ![q].pool = NoRows, ![q].plan = NoRows]
  /\ UNCHANGED <<robots, tasks, racedWrite>>

(* UPDATE of a row that is gone: SQLAlchemy counts the rows it matched and *)
(* raises StaleDataError, which no handler knows.                          *)
RowsAreGone(w) == \/ ~ (DOMAIN w.robots \subseteq DOMAIN robots)
                  \/ ~ (DOMAIN w.tasks \subseteq DOMAIN tasks)

(* A primary key or the foreign key refuses the statement: IntegrityError. *)
ConstraintFires(w) ==
  \/ DOMAIN w.newRobots \cap DOMAIN robots # {}
  \/ DOMAIN w.newTasks \cap DOMAIN tasks # {}
  \/ \E t \in DOMAIN w.tasks :
       /\ "robot" \in DOMAIN w.tasks[t]
       /\ w.tasks[t].robot \notin DOMAIN robots \cup {NoRobot}

Failure(w) == (IF ConstraintFires(w) THEN {409} ELSE {})
              \cup (IF RowsAreGone(w) THEN {500} ELSE {})

Race(q) ==
  [p \in Requests |->
     IF p = q THEN Answered(request[q], request[q].code)
     ELSE [request[p] EXCEPT !.raced = @ \/ request[p].phase \notin {"none", "done"}]]

(* The tables once the writes are in them.                                 *)
RobotsWith(w) ==
  Overlaid(w.newRobots, Without(Patched(robots, w.robots), w.goneRobots))
TasksWith(w) ==
  Overlaid(w.newTasks,
           SetNull(Without(Patched(tasks, w.tasks), w.goneTasks), w.goneRobots))

(* The flush and the commit.  A DELETE that finds no row only warns.       *)
Commit(q) ==
  LET w == request[q].writes IN
  /\ request[q].phase = "flush"
  /\ IF Failure(w) = {}
     THEN /\ robots' = RobotsWith(w)
          /\ tasks' = TasksWith(w)
          /\ IF <<robots, tasks>>' = <<robots, tasks>>
             THEN /\ request' = [request EXCEPT ![q] = Answered(@, @.code)]
                  /\ UNCHANGED racedWrite
             ELSE /\ request' = Race(q)
                  /\ racedWrite' = (racedWrite \/ request[q].raced)
     ELSE /\ \E code \in Failure(w) : request' = [request EXCEPT ![q] = Answered(@, code)]
          /\ UNCHANGED <<robots, tasks, racedWrite>>

(* The connection drops, or a deadlock is broken: OperationalError, 503,   *)
(* and the transaction is rolled back.                                     *)
Unavailable(q) ==
  /\ request[q].phase \notin {"none", "done"}
  /\ request' = [request EXCEPT ![q] = Answered(@, 503)]
  /\ UNCHANGED <<robots, tasks, racedWrite>>

-----------------------------------------------------------------------------
(* Robots (robot_service.py).                                              *)

(* Seeded fault: the list is not searched for the cell.                  *)
NeverTaken(c, ignored) == FALSE

IsTaken(c, ignored) == \E r \in DOMAIN robots \ {ignored} : robots[r].cell = c

CreateRobot(q, r, c, s) ==
  LET row == [cell |-> c, status |-> s, task |-> NoTask] IN
  /\ Issue(q, "create_robot")
  /\ IF r \in DOMAIN robots \/ IsTaken(c, NoRobot)
     THEN Answer(q, "create_robot", r, 409)
     ELSE Stage(q, "create_robot", r, [NoWrites EXCEPT !.newRobots = Single(r, row)], 201)

(* The body names what it changes; the pointer is taken as it is given.    *)
UpdateRobot(q, r, c, s, t) ==
  LET row == robots[r]
      new == [cell |-> IF c = Same THEN row.cell ELSE c,
              status |-> IF s = Same THEN row.status ELSE s,
              task |-> CASE t = Clear -> NoTask [] t = Same -> row.task [] OTHER -> t]
  IN /\ Issue(q, "update_robot")
     /\ IF r \notin DOMAIN robots
        THEN Answer(q, "update_robot", r, 404)
        ELSE IF new.cell # row.cell /\ IsTaken(new.cell, r)
             THEN Answer(q, "update_robot", r, 409)
             ELSE Stage(q, "update_robot", r,
                        [NoWrites EXCEPT
                           !.robots = Updates(Single(r, row), Single(r, new))], 200)

DeleteRobot(q, r) ==
  /\ Issue(q, "delete_robot")
  /\ IF r \notin DOMAIN robots
     THEN Answer(q, "delete_robot", r, 404)
     ELSE Stage(q, "delete_robot", r, [NoWrites EXCEPT !.goneRobots = {r}], 204)

-----------------------------------------------------------------------------
(* Tasks (task_service.py, over the lifecycle of tasks/task.py).           *)

Lifecycle == [pending |-> {"assigned", "failed"},
              assigned |-> {"in_progress", "pending", "failed"},
              in_progress |-> {"completed", "failed"},
              completed |-> {}, failed |-> {}]

CreateTask(q, t) ==
  LET row == [status |-> "pending", robot |-> NoRobot] IN
  /\ Issue(q, "create_task")
  /\ IF t \in DOMAIN tasks
     THEN Answer(q, "create_task", t, 409)
     ELSE Stage(q, "create_task", t, [NoWrites EXCEPT !.newTasks = Single(t, row)], 201)

DeleteTask(q, t) ==
  /\ Issue(q, "delete_task")
  /\ IF t \notin DOMAIN tasks
     THEN Answer(q, "delete_task", t, 404)
     ELSE Stage(q, "delete_task", t, [NoWrites EXCEPT !.goneTasks = {t}], 204)

(* Seeded fault: the row takes the status without the domain task.       *)
TransitionUnchecked(row, target, r) ==
  IF target = "assigned" /\ r \notin DOMAIN robots
  THEN [code |-> 422, row |-> row]
  ELSE [code |-> 200, row |-> [status |-> target,
                               robot |-> CASE target = "assigned" -> r
                                           [] target = "pending" -> NoRobot
                                           [] OTHER -> row.robot]]

(* _apply_transition on the domain task: its new row, or the rejection.    *)
Transition(row, target, r) ==
  IF target = row.status THEN [code |-> 200, row |-> row]
  ELSE IF target = "assigned" /\ r \notin DOMAIN robots THEN [code |-> 422, row |-> row]
  ELSE IF \/ target \notin Lifecycle[row.status]
          \/ target = "in_progress" /\ row.robot = NoRobot
  THEN [code |-> 409, row |-> row]
  ELSE [code |-> 200,
        row |-> [status |-> target,
                 robot |-> CASE target = "assigned" -> r
                             [] target = "pending" -> NoRobot
                             [] OTHER -> row.robot]]

(* Without a status, a robot re-points a task that is assigned.            *)
Repointing(row, r) ==
  IF r = Same \/ row.status # "assigned" THEN [code |-> 200, row |-> row]
  ELSE IF r \notin DOMAIN robots THEN [code |-> 422, row |-> row]
  ELSE [code |-> 200, row |-> [row EXCEPT !.robot = r]]

(* edits: the body also changes the priority or the weight.                *)
UpdateTask(q, t, target, r, edits) ==
  /\ Issue(q, "update_task")
  /\ IF t \notin DOMAIN tasks
     THEN Answer(q, "update_task", t, 404)
     ELSE LET row == tasks[t]
              out == IF edits /\ row.status # "pending" THEN [code |-> 409, row |-> row]
                     ELSE IF target # Same THEN Transition(row, target, r)
                     ELSE Repointing(row, r)
          IN IF out.code # 200
             THEN Answer(q, "update_task", t, out.code)
             ELSE Stage(q, "update_task", t,
                        [NoWrites EXCEPT
                           !.tasks = Updates(Single(t, row), Single(t, out.row))], 200)

-----------------------------------------------------------------------------
(* POST /allocation/run with from_persisted and commit.                    *)

(* Seeded fault: a robot that has a task is listed with the idle ones.   *)
IdleByStatus(r) == robots[r].status = "idle"

IsFree(r) == robots[r].status = "idle" /\ robots[r].task = NoTask

ListFreeRobots(q) ==
  LET free == {r \in DOMAIN robots : IsFree(r)} IN
  /\ Issue(q, "allocation")
  /\ request' = [request EXCEPT ![q].phase = "list_tasks", ![q].kind = "allocation",
                                ![q].pool = Restrict(robots, free)]
  /\ UNCHANGED <<robots, tasks, racedWrite>>

(* What an allocator may answer: some tasks, each with a robot of its own. *)
Matchings(rs, ts) ==
  {m \in UNION {[S -> rs] : S \in SUBSET ts} : IsInjective(m)}

(* The rows the simulator ends with once commit_allocation has applied the *)
(* matching: every robot and task it was given, matched or not.            *)
RobotsAfter(pool, m) ==
  [r \in DOMAIN pool |->
     IF r \in Range(m)
     THEN [pool[r] EXCEPT !.status = "assigned",
                          !.task = CHOOSE t \in DOMAIN m : m[t] = r]
     ELSE pool[r]]
TasksAfter(queue, m) ==
  [t \in DOMAIN queue |-> IF t \in DOMAIN m THEN [status |-> "assigned", robot |-> m[t]]
                          ELSE queue[t]]

(* Two robots read on one cell cannot both be put into the simulator.      *)
Collide(pool) == ~ IsInjective([r \in DOMAIN pool |-> pool[r].cell])

(* The pending tasks are read, the allocator runs, and its result is       *)
(* committed to a simulator built from the two lists.                      *)
AllocateAndCommit(q) ==
  LET pool == request[q].pool
      queue == Restrict(tasks, {t \in DOMAIN tasks : tasks[t].status = "pending"})
  IN /\ request[q].phase = "list_tasks"
     /\ IF pool = NoRows \/ queue = NoRows
        THEN Answer(q, "allocation", NoTask, 422)
        ELSE \E m \in Matchings(DOMAIN pool, DOMAIN queue) :
               IF m = NoRows
               THEN Stage(q, "allocation", NoTask, NoWrites, 200)
               ELSE IF Collide(pool)
                    THEN Answer(q, "allocation", NoTask, 422)
                    ELSE /\ request' = [request EXCEPT
                              ![q].phase = "write_back",
                              ![q].pool = RobotsAfter(pool, m),
                              ![q].plan = TasksAfter(queue, m)]
                         /\ UNCHANGED <<robots, tasks, racedWrite>>

(* status and pointer as the simulator has them; the cell is not written.  *)
RobotTarget(row, new) == [row EXCEPT !.status = new.status, !.task = new.task]

(* _write_back: every row is loaded again, a row that is gone is skipped.  *)
WriteBack(q) ==
  LET pool == request[q].pool
      plan == request[q].plan
      newRobots == [r \in DOMAIN pool \cap DOMAIN robots |-> RobotTarget(robots[r], pool[r])]
  IN /\ request[q].phase = "write_back"
     /\ Stage(q, "allocation", NoTask,
              [NoWrites EXCEPT !.robots = Updates(robots, newRobots),
                               !.tasks = Updates(tasks, plan)], 200)

-----------------------------------------------------------------------------
(* POST /recovery/robot-failure with commit.  The run is played on a fleet *)
(* that comes with the request; its outcome, that task t went from robot f *)
(* to robot s, is written to the three rows.                               *)
PersistReassignment(q, f, s, t) ==
  LET outcome == Overlaid(Single(f, [status |-> "offline", task |-> NoTask]),
                          Single(s, [status |-> "assigned", task |-> t]))
      new == [r \in {f, s} \cap DOMAIN robots |-> RobotTarget(robots[r], outcome[r])]
  IN /\ Issue(q, "recovery")
     /\ f # s
     /\ IF t \notin DOMAIN tasks \/ s \notin DOMAIN robots
        THEN Stage(q, "recovery", t, NoWrites, 200)
        ELSE Stage(q, "recovery", t,
               [NoWrites EXCEPT
                  !.robots = Updates(robots, new),
                  !.tasks = Updates(tasks, Single(t, [status |-> "assigned", robot |-> s]))],
               200)

-----------------------------------------------------------------------------
(* A fleet some serial history of requests may have left: one robot on a   *)
(* cell, and pointers that agree.                                          *)
Agree ==
  \A r \in DOMAIN robots, t \in DOMAIN tasks :
    (robots[r].task = t)
      <=> (tasks[t].robot = r /\ tasks[t].status \in {"assigned", "in_progress"})

OneRobotPerCell == IsInjective([r \in DOMAIN robots |-> robots[r].cell])

StartRows == [cell : Places, status : {"idle", "assigned"}, task : TaskIds \cup {NoTask}]

Init ==
  /\ robots \in UNION {[S -> StartRows] : S \in SUBSET RobotIds}
  /\ tasks \in UNION {[S -> TaskRow] : S \in SUBSET TaskIds}
  /\ Agree
  /\ \A r \in DOMAIN robots :
       /\ robots[r].task \in DOMAIN tasks \cup {NoTask}
       /\ (robots[r].status = "assigned") <=> (robots[r].task # NoTask)
  /\ \A t \in DOMAIN tasks :
       /\ tasks[t].robot \in DOMAIN robots \cup {NoRobot}
       /\ (tasks[t].status = "pending") => (tasks[t].robot = NoRobot)
       /\ (tasks[t].status # "pending") => (tasks[t].robot # NoRobot)
  /\ OneRobotPerCell
  /\ request = [q \in Requests |-> NotIssued]
  /\ racedWrite = FALSE

Next ==
  \E q \in Requests :
    \/ \E r \in RobotIds, c \in Places, s \in PatchStatuses : CreateRobot(q, r, c, s)
    \/ \E r \in RobotIds, c \in Places \cup {Same}, s \in PatchStatuses \cup {Same},
          t \in TaskIds \cup {Same, Clear} : UpdateRobot(q, r, c, s, t)
    \/ \E r \in RobotIds : DeleteRobot(q, r)
    \/ \E t \in TaskIds : CreateTask(q, t) \/ DeleteTask(q, t)
    \/ \E t \in TaskIds, s \in TaskStatuses \cup {Same}, r \in RobotIds \cup {Same},
          edits \in BOOLEAN : UpdateTask(q, t, s, r, edits)
    \/ ListFreeRobots(q) \/ AllocateAndCommit(q) \/ WriteBack(q)
    \/ \E f, s \in RobotIds, t \in TaskIds : PersistReassignment(q, f, s, t)
    \/ Commit(q)
    \/ Unavailable(q)

Spec == Init /\ [][Next]_vars
=============================================================================
