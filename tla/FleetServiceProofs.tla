------------------------- MODULE FleetServiceProofs --------------------------
(***************************************************************************)
(* For any number of requests, robots and tasks, overlapping in any way:   *)
(* keys turn into the right answers and no task points at a robot that is  *)
(* not there; an answer of 500 needs a deletion; requests that do not race *)
(* keep one robot on a cell and pending tasks free; an allocation nobody   *)
(* interfered with takes what was free; tasks move along their lifecycle.  *)
(*                                                                         *)
(* The argument is one about a request that has decided and not yet        *)
(* written: as long as nothing has changed under its feet, its writes, put *)
(* into the tables of now, keep what the tables have.  Another request's   *)
(* commit either changes no row or marks it as raced.                      *)
(*                                                                         *)
(* The last part is about the client of the services, module Dashboard.    *)
(***************************************************************************)
EXTENDS FleetServiceProperties, Dashboard, WellFoundedInduction, TLAPS

USE ServiceAssumption DEF ServiceAssumption

RobotColumns == {"cell", "status", "task"}
TaskColumns == {"status", "robot"}
Fields == {"phase", "kind", "id", "raced", "writes", "pool", "plan", "code"}

(* Tables, as far as the argument looks into them.                         *)
OnePerCell(rs) == \A q, r \in DOMAIN rs : rs[q].cell = rs[r].cell => q = r
PendingAreFree(ts) == \A t \in DOMAIN ts : ts[t].status = "pending" => ts[t].robot = NoRobot
FollowLifecycle(ts) ==
  \A t \in DOMAIN tasks \cap DOMAIN ts :
    ts[t].status \in Lifecycle[tasks[t].status] \cup {tasks[t].status}

HaveColumns(rows, columns) == \A i \in DOMAIN rows : DOMAIN rows[i] = columns
SomeColumns(rows, columns) == \A i \in DOMAIN rows : DOMAIN rows[i] \subseteq columns

RowsInv ==
  /\ DOMAIN robots \subseteq RobotIds
  /\ HaveColumns(robots, RobotColumns)
  /\ HaveColumns(tasks, TaskColumns)
  /\ PointersResolve
  /\ ~ racedWrite => OnePerCell(robots) /\ PendingAreFree(tasks)

WritesAreTyped(w) ==
  /\ DOMAIN w.newRobots \subseteq RobotIds
  /\ HaveColumns(w.newRobots, RobotColumns)
  /\ SomeColumns(w.robots, RobotColumns)
  /\ HaveColumns(w.newTasks, TaskColumns)
  /\ SomeColumns(w.tasks, TaskColumns)
  /\ \A t \in DOMAIN w.newTasks : w.newTasks[t].robot = NoRobot

WritesAreSafe(w) == OnePerCell(RobotsWith(w)) /\ PendingAreFree(TasksWith(w))

(* A request that has decided.                                             *)
StagedInv(req) ==
  /\ WritesAreTyped(req.writes)
  /\ ~ req.raced /\ ~ racedWrite => WritesAreSafe(req.writes)
  /\ ~ req.raced /\ req.kind # "recovery" => FollowLifecycle(TasksWith(req.writes))

(* An allocation that has its result.                                      *)
PlanInv(req) ==
  /\ HaveColumns(req.pool, RobotColumns)
  /\ HaveColumns(req.plan, TaskColumns)
  /\ ~ racedWrite => PendingAreFree(req.plan)
  /\ ~ req.raced =>
       \A t \in DOMAIN req.plan \cap DOMAIN tasks :
         /\ tasks[t].status = "pending"
         /\ req.plan[t].status \in {"pending", "assigned"}

RequestInv(req) ==
  /\ DOMAIN req = Fields
  /\ req.phase = "flush" => StagedInv(req)
  /\ req.phase = "write_back" => PlanInv(req)
  /\ req.phase = "list_tasks" => HaveColumns(req.pool, RobotColumns)
  /\ req.phase \in {"none", "done"} => ~ req.raced

ServiceInv ==
  /\ DOMAIN request = Requests
  /\ RowsInv
  /\ \A q \in Requests : RequestInv(request[q])

-----------------------------------------------------------------------------
(* Tables with writes in them.                                             *)

LEMMA NoRowsIsEmpty == DOMAIN NoRows = {}
  BY DEF NoRows

LEMMA OverlaidDomain ==
  ASSUME NEW f, NEW g
  PROVE  /\ DOMAIN Overlaid(f, g) = DOMAIN f \cup DOMAIN g
         /\ \A i \in DOMAIN f : Overlaid(f, g)[i] = f[i]
         /\ \A i \in DOMAIN g \ DOMAIN f : Overlaid(f, g)[i] = g[i]
  BY DEF Overlaid

(* What the update of a loaded row leaves in the row.                      *)
LEMMA PatchedRow ==
  ASSUME NEW rows, NEW updates, NEW i \in DOMAIN rows, NEW columns,
         DOMAIN rows[i] = columns,
         i \in DOMAIN updates => DOMAIN updates[i] \subseteq columns
  PROVE  /\ DOMAIN Patched(rows, updates) = DOMAIN rows
         /\ DOMAIN Patched(rows, updates)[i] = columns
         /\ i \notin DOMAIN updates => Patched(rows, updates)[i] = rows[i]
         /\ i \in DOMAIN updates =>
              \A c \in columns : Patched(rows, updates)[i][c] =
                IF c \in DOMAIN updates[i] THEN updates[i][c] ELSE rows[i][c]
  BY DEF Patched, Overlaid

(* Updates made from the row that is still there turn it into the new one. *)
LEMMA UpdatedRow ==
  ASSUME NEW loaded, NEW new, NEW rows, NEW i \in DOMAIN rows, NEW columns,
         DOMAIN rows[i] = columns,
         i \in DOMAIN loaded => loaded[i] = rows[i]
  PROVE  /\ DOMAIN Patched(rows, Updates(loaded, new))[i] = columns
         /\ \A c \in columns : Patched(rows, Updates(loaded, new))[i][c] =
              IF i \in DOMAIN loaded \cap DOMAIN new THEN new[i][c] ELSE rows[i][c]
<1>1. CASE i \in DOMAIN loaded \cap DOMAIN new /\ new[i] # rows[i]
  <2>1. /\ i \in DOMAIN Updates(loaded, new)
        /\ DOMAIN Updates(loaded, new)[i] = {c \in columns : new[i][c] # rows[i][c]}
        /\ \A c \in columns : new[i][c] # rows[i][c]
                                => Updates(loaded, new)[i][c] = new[i][c]
    BY <1>1 DEF Updates, Changed
  <2> QED BY <1>1, <2>1, PatchedRow
<1>2. CASE ~ (i \in DOMAIN loaded \cap DOMAIN new /\ new[i] # rows[i])
  <2>1. i \notin DOMAIN Updates(loaded, new)
    BY <1>2 DEF Updates
  <2> QED BY <1>2, <2>1, PatchedRow
<1> QED BY <1>1, <1>2

LEMMA UpdatesHaveColumns ==
  ASSUME NEW loaded, NEW new, NEW columns,
         \A i \in DOMAIN loaded : DOMAIN loaded[i] = columns
  PROVE  SomeColumns(Updates(loaded, new), columns)
  BY DEF SomeColumns, Updates, Changed

LEMMA RobotsWithRow ==
  ASSUME NEW w, NEW r \in DOMAIN RobotsWith(w), HaveColumns(robots, RobotColumns),
         WritesAreTyped(w)
  PROVE  /\ r \in DOMAIN w.newRobots \cup (DOMAIN robots \ w.goneRobots)
         /\ DOMAIN RobotsWith(w)[r] = RobotColumns
         /\ r \in DOMAIN w.newRobots => RobotsWith(w)[r] = w.newRobots[r]
         /\ r \notin DOMAIN w.newRobots => RobotsWith(w)[r] = Patched(robots, w.robots)[r]
<1> DEFINE kept == Without(Patched(robots, w.robots), w.goneRobots)
<1>1. /\ DOMAIN kept = DOMAIN robots \ w.goneRobots
      /\ \A i \in DOMAIN kept : kept[i] = Patched(robots, w.robots)[i]
  BY DEF Without, Restrict, Patched
<1>2. RobotsWith(w) = Overlaid(w.newRobots, kept)
  BY DEF RobotsWith
<1>3. ASSUME NEW i \in DOMAIN kept PROVE DOMAIN kept[i] = RobotColumns
  <2>1. i \in DOMAIN robots /\ DOMAIN robots[i] = RobotColumns
    BY <1>1, <1>3 DEF HaveColumns
  <2>2. i \in DOMAIN w.robots => DOMAIN w.robots[i] \subseteq RobotColumns
    BY DEF WritesAreTyped, SomeColumns
  <2> QED BY <1>1, <2>1, <2>2, PatchedRow
<1> HIDE DEF kept
<1>4. /\ DOMAIN Overlaid(w.newRobots, kept) = DOMAIN w.newRobots \cup DOMAIN kept
      /\ \A i \in DOMAIN w.newRobots : Overlaid(w.newRobots, kept)[i] = w.newRobots[i]
      /\ \A i \in DOMAIN kept \ DOMAIN w.newRobots : Overlaid(w.newRobots, kept)[i] = kept[i]
  BY OverlaidDomain
<1>5. r \in DOMAIN w.newRobots \cup DOMAIN kept
  BY <1>2, <1>4
<1>6. r \in DOMAIN w.newRobots => RobotsWith(w)[r] = w.newRobots[r]
  BY <1>2, <1>4
<1>7. r \notin DOMAIN w.newRobots => RobotsWith(w)[r] = kept[r]
  BY <1>2, <1>5, <1>4
<1>8. r \in DOMAIN w.newRobots => DOMAIN w.newRobots[r] = RobotColumns
  BY DEF WritesAreTyped, HaveColumns
<1> QED BY <1>1, <1>3, <1>5, <1>6, <1>7, <1>8

LEMMA TasksWithRow ==
  ASSUME NEW w, NEW t \in DOMAIN TasksWith(w), HaveColumns(tasks, TaskColumns),
         WritesAreTyped(w)
  PROVE  /\ t \in DOMAIN w.newTasks \cup (DOMAIN tasks \ w.goneTasks)
         /\ DOMAIN TasksWith(w)[t] = TaskColumns
         /\ t \in DOMAIN w.newTasks => TasksWith(w)[t] = w.newTasks[t]
         /\ t \notin DOMAIN w.newTasks =>
              LET row == Patched(tasks, w.tasks)[t] IN
              /\ TasksWith(w)[t].status = row.status
              /\ TasksWith(w)[t].robot =
                   IF row.robot \in w.goneRobots THEN NoRobot ELSE row.robot
<1> DEFINE kept == Without(Patched(tasks, w.tasks), w.goneTasks)
           freed == SetNull(kept, w.goneRobots)
<1>1. /\ DOMAIN kept = DOMAIN tasks \ w.goneTasks
      /\ \A i \in DOMAIN kept : kept[i] = Patched(tasks, w.tasks)[i]
  BY DEF Without, Restrict, Patched
<1>2. ASSUME NEW i \in DOMAIN kept PROVE DOMAIN kept[i] = TaskColumns
  <2>1. i \in DOMAIN tasks /\ DOMAIN tasks[i] = TaskColumns
    BY <1>1, <1>2 DEF HaveColumns
  <2>2. i \in DOMAIN w.tasks => DOMAIN w.tasks[i] \subseteq TaskColumns
    BY DEF WritesAreTyped, SomeColumns
  <2> QED BY <1>1, <2>1, <2>2, PatchedRow
<1>3. DOMAIN freed = DOMAIN kept
  BY DEF SetNull
<1>4. ASSUME NEW i \in DOMAIN kept
      PROVE  /\ DOMAIN freed[i] = TaskColumns
             /\ freed[i].status = kept[i].status
             /\ freed[i].robot = IF kept[i].robot \in w.goneRobots THEN NoRobot
                                 ELSE kept[i].robot
  <2> HIDE DEF kept
  <2> QED BY <1>2, <1>4 DEF SetNull, TaskColumns
<1>5. TasksWith(w) = Overlaid(w.newTasks, freed)
  BY DEF TasksWith
<1> HIDE DEF kept, freed
<1>6. /\ DOMAIN Overlaid(w.newTasks, freed) = DOMAIN w.newTasks \cup DOMAIN freed
      /\ \A i \in DOMAIN w.newTasks : Overlaid(w.newTasks, freed)[i] = w.newTasks[i]
      /\ \A i \in DOMAIN freed \ DOMAIN w.newTasks : Overlaid(w.newTasks, freed)[i] = freed[i]
  BY OverlaidDomain
<1>7. t \in DOMAIN w.newTasks \cup DOMAIN freed
  BY <1>5, <1>6
<1>8. t \in DOMAIN w.newTasks => TasksWith(w)[t] = w.newTasks[t]
  BY <1>5, <1>6
<1>9. t \notin DOMAIN w.newTasks => TasksWith(w)[t] = freed[t]
  BY <1>5, <1>6, <1>7
<1>10. t \in DOMAIN w.newTasks => DOMAIN w.newTasks[t] = TaskColumns
  BY DEF WritesAreTyped, HaveColumns
<1> QED BY <1>1, <1>3, <1>4, <1>7, <1>8, <1>9, <1>10

-----------------------------------------------------------------------------
(* Commits.                                                                *)

LEMMA PointersSurvive ==
  ASSUME RowsInv, NEW w, WritesAreTyped(w), ~ ConstraintFires(w),
         NEW t \in DOMAIN TasksWith(w)
  PROVE  TasksWith(w)[t].robot \in DOMAIN RobotsWith(w) \cup {NoRobot}
<1>1. CASE t \in DOMAIN w.newTasks
  BY <1>1, TasksWithRow DEF RowsInv, WritesAreTyped
<1>2. CASE t \notin DOMAIN w.newTasks
  <2> DEFINE row == Patched(tasks, w.tasks)[t]
  <2>1. t \in DOMAIN tasks /\ DOMAIN tasks[t] = TaskColumns
    BY <1>2, TasksWithRow DEF RowsInv, HaveColumns
  <2>2. TasksWith(w)[t].robot = IF row.robot \in w.goneRobots THEN NoRobot ELSE row.robot
    BY <1>2, TasksWithRow DEF RowsInv
  <2>3. row.robot \in DOMAIN robots \cup {NoRobot}
    <3>1. tasks[t].robot \in DOMAIN robots \cup {NoRobot}
      BY <2>1 DEF RowsInv, PointersResolve
    <3>2. CASE t \in DOMAIN w.tasks /\ "robot" \in DOMAIN w.tasks[t]
      <4>1. row.robot = w.tasks[t].robot
        BY <2>1, <3>2, PatchedRow DEF WritesAreTyped, SomeColumns, TaskColumns
      <4> QED BY <3>2, <4>1 DEF ConstraintFires
    <3>3. CASE ~ (t \in DOMAIN w.tasks /\ "robot" \in DOMAIN w.tasks[t])
      <4>1. row.robot = tasks[t].robot
        BY <2>1, <3>3, PatchedRow DEF WritesAreTyped, SomeColumns, TaskColumns
      <4> QED BY <3>1, <4>1
    <3> QED BY <3>2, <3>3
  <2>4. DOMAIN robots \ w.goneRobots \subseteq DOMAIN RobotsWith(w)
    BY DEF RobotsWith, Overlaid, Without, Restrict, Patched
  <2> QED BY <2>2, <2>3, <2>4
<1> QED BY <1>1, <1>2

LEMMA CommitKeepsRows ==
  ASSUME ServiceInv, NEW q \in Requests, Commit(q)
  PROVE  RowsInv'
<1> DEFINE w == request[q].writes
<1>1. CASE Failure(w) # {}
  BY <1>1 DEF Commit, ServiceInv, RowsInv, HaveColumns, PointersResolve, OnePerCell,
              PendingAreFree
<1>2. CASE Failure(w) = {}
  <2>1. /\ robots' = RobotsWith(w) /\ tasks' = TasksWith(w)
        /\ ~ ConstraintFires(w)
        /\ WritesAreTyped(w) /\ StagedInv(request[q])
    BY <1>2 DEF Commit, Failure, ServiceInv, RequestInv, StagedInv
  <2>2. HaveColumns(robots, RobotColumns)' /\ HaveColumns(tasks, TaskColumns)'
    BY <2>1, RobotsWithRow, TasksWithRow DEF HaveColumns, ServiceInv, RowsInv
  <2>5. DOMAIN robots' \subseteq RobotIds
    BY <2>1, RobotsWithRow DEF HaveColumns, ServiceInv, RowsInv, WritesAreTyped
  <2>3. PointersResolve'
    BY <2>1, PointersSurvive DEF PointersResolve, ServiceInv
  <2>4. ASSUME ~ racedWrite' PROVE OnePerCell(robots') /\ PendingAreFree(tasks')
    <3>1. CASE robots' = robots /\ tasks' = tasks
      BY <1>2, <2>4, <3>1 DEF Commit, ServiceInv, RowsInv
    <3>2. CASE ~ (robots' = robots /\ tasks' = tasks)
      <4>1. ~ racedWrite /\ ~ request[q].raced
        BY <1>2, <2>4, <3>2 DEF Commit
      <4> QED BY <2>1, <4>1 DEF StagedInv, WritesAreSafe
    <3> QED BY <3>1, <3>2
  <2> QED BY <2>2, <2>3, <2>4, <2>5 DEF RowsInv
<1> QED BY <1>1, <1>2

(* Where the tables are as they were, requests are judged as they were.    *)
LEMMA RowsUnchanged ==
  ASSUME UNCHANGED <<robots, tasks, racedWrite>>, NEW req, RequestInv(req)
  PROVE  RequestInv(req)'
<1>1. RobotsWith(req.writes)' = RobotsWith(req.writes)
  BY DEF RobotsWith
<1>2. TasksWith(req.writes)' = TasksWith(req.writes)
  BY DEF TasksWith
<1>3. StagedInv(req) => StagedInv(req)'
  BY <1>1, <1>2 DEF StagedInv, WritesAreSafe, FollowLifecycle
<1>4. PlanInv(req) => PlanInv(req)'
  BY DEF PlanInv
<1> QED BY <1>3, <1>4 DEF RequestInv

LEMMA AnsweredShape ==
  ASSUME NEW req, NEW code, DOMAIN req = Fields
  PROVE  RequestInv(Answered(req, code))
<1> DEFINE answered == Answered(req, code)
<1>1. DOMAIN answered = Fields
  BY DEF Answered
<1>2. answered.phase = "done" /\ answered.raced = FALSE
  BY DEF Answered, Fields
<1> QED BY <1>1, <1>2 DEF RequestInv

(* A commit that changes rows marks every other request in flight.         *)
LEMMA CommitKeepsRequests ==
  ASSUME ServiceInv, NEW q \in Requests, Commit(q)
  PROVE  DOMAIN request' = Requests /\ \A p \in Requests : RequestInv(request[p])'
<1> DEFINE w == request[q].writes
<1>0. DOMAIN request = Requests /\ \A p \in Requests : DOMAIN request[p] = Fields
  BY DEF ServiceInv, RequestInv
<1>1. DOMAIN request' = Requests
  BY <1>0 DEF Commit, Race
<1>2. RequestInv(request[q])'
  <2>1. PICK code : request'[q] = Answered(request[q], code)
    BY <1>0 DEF Commit, Race
  <2>2. DOMAIN request'[q] = Fields /\ request'[q].phase = "done" /\ ~ request'[q].raced
    BY <1>0, <2>1, AnsweredShape DEF RequestInv, Answered, Fields
  <2> QED BY <2>2 DEF RequestInv
<1>3. ASSUME NEW p \in Requests \ {q} PROVE RequestInv(request[p])'
  <2>0. RequestInv(request[p])
    BY DEF ServiceInv
  <2>1. CASE UNCHANGED <<robots, tasks, racedWrite>>
    <3>1. request'[p] = request[p]
      BY <1>0, <2>1 DEF Commit
    <3> QED BY <2>0, <2>1, <3>1, RowsUnchanged
  <2>2. CASE ~ UNCHANGED <<robots, tasks, racedWrite>>
    <3>1. request' = Race(q) /\ (racedWrite => racedWrite')
      BY <2>2 DEF Commit
    <3>2. /\ DOMAIN request'[p] = Fields
          /\ request'[p].raced = (request[p].raced \/ request[p].phase \notin {"none", "done"})
          /\ \A f \in Fields \ {"raced"} : request'[p][f] = request[p][f]
      BY <1>0, <3>1 DEF Race, Fields
    <3>3. /\ request'[p].phase = request[p].phase /\ request'[p].writes = request[p].writes
          /\ request'[p].pool = request[p].pool /\ request'[p].plan = request[p].plan
      BY <3>2 DEF Fields
    <3>4. request[p].phase = "flush" => StagedInv(request[p])'
      BY <2>0, <3>2, <3>3 DEF RequestInv, StagedInv, WritesAreTyped
    <3>5. request[p].phase = "write_back" => PlanInv(request[p])'
      BY <2>0, <3>1, <3>2, <3>3 DEF RequestInv, PlanInv
    <3> QED BY <2>0, <3>2, <3>3, <3>4, <3>5 DEF RequestInv
  <2> QED BY <2>1, <2>2
<1> QED BY <1>1, <1>2, <1>3

LEMMA CommitKeeps ==
  ASSUME ServiceInv, NEW q \in Requests, Commit(q)
  PROVE  ServiceInv'
  BY CommitKeepsRows, CommitKeepsRequests DEF ServiceInv

-----------------------------------------------------------------------------
(* Steps that leave the rows alone.                                        *)

LEMMA QuietStep ==
  ASSUME ServiceInv, NEW q \in Requests, NEW req, RequestInv(req),
         request' = [request EXCEPT ![q] = req],
         UNCHANGED <<robots, tasks, racedWrite>>
  PROVE  ServiceInv'
<1>1. DOMAIN request' = Requests
  BY DEF ServiceInv
<1>2. RowsInv'
  BY DEF ServiceInv, RowsInv, PointersResolve
<1>3. RequestInv(req)'
  BY RowsUnchanged
<1>4. ASSUME NEW p \in Requests PROVE RequestInv(request[p])'
  <2>1. CASE p = q
    <3>1. request'[p] = req
      BY <2>1 DEF ServiceInv
    <3> QED BY <1>3, <3>1
  <2>2. CASE p # q
    <3>1. request'[p] = request[p] /\ RequestInv(request[p])
      BY <2>2 DEF ServiceInv
    <3> QED BY <3>1, RowsUnchanged
  <2> QED BY <2>1, <2>2
<1> QED BY <1>1, <1>2, <1>4 DEF ServiceInv

LEMMA UnavailableKeeps ==
  ASSUME ServiceInv, NEW q \in Requests, Unavailable(q)
  PROVE  ServiceInv'
<1>1. RequestInv(Answered(request[q], 503))
  BY AnsweredShape DEF ServiceInv, RequestInv
<1>2. request' = [request EXCEPT ![q] = Answered(request[q], 503)]
  BY DEF Unavailable
<1>3. UNCHANGED <<robots, tasks, racedWrite>>
  BY DEF Unavailable
<1> DEFINE req == Answered(request[q], 503)
<1>4. RequestInv(req) /\ request' = [request EXCEPT ![q] = req]
  BY <1>1, <1>2
<1> HIDE DEF req
<1> QED BY <1>3, <1>4, QuietStep

LEMMA AnswerKeeps ==
  ASSUME ServiceInv, NEW q \in Requests, NEW kind, NEW id, NEW code, Answer(q, kind, id, code)
  PROVE  ServiceInv'
<1> DEFINE req == [request[q] EXCEPT !.kind = kind, !.id = id]
<1>1. DOMAIN req = Fields
  BY DEF ServiceInv, RequestInv
<1>2. request' = [request EXCEPT ![q] = Answered(req, code)]
  BY DEF Answer
<1> HIDE DEF req
<1> QED BY <1>1, <1>2, AnsweredShape, QuietStep DEF Answer

(* The record of a request once it has decided.                            *)
Staged(req, kind, id, w, code) ==
  [req EXCEPT !.phase = "flush", !.kind = kind, !.id = id, !.writes = w, !.code = code,
              !.pool = NoRows, !.plan = NoRows]

LEMMA StagedFields ==
  ASSUME NEW req, DOMAIN req = Fields, NEW kind, NEW id, NEW w, NEW code
  PROVE  LET new == Staged(req, kind, id, w, code) IN
         /\ DOMAIN new = Fields /\ new.phase = "flush" /\ new.kind = kind /\ new.id = id
         /\ new.writes = w /\ new.code = code /\ new.raced = req.raced
         /\ new.pool = NoRows /\ new.plan = NoRows
BY DEF Staged, Fields

LEMMA StageIs ==
  ASSUME NEW q \in Requests, NEW kind, NEW id, NEW w, NEW code, Stage(q, kind, id, w, code)
  PROVE  /\ request' = [request EXCEPT ![q] = Staged(request[q], kind, id, w, code)]
         /\ UNCHANGED <<robots, tasks, racedWrite>>
<1>1. PICK new : new = Staged(request[q], kind, id, w, code)
  OBVIOUS
<1>2. request' = [request EXCEPT ![q] = new] /\ UNCHANGED <<robots, tasks, racedWrite>>
  BY <1>1 DEF Stage, Staged
<1>. QED  BY <1>1, <1>2

LEMMA StageKeeps ==
  ASSUME ServiceInv, NEW q \in Requests, NEW kind, NEW id, NEW writes, NEW code,
         Stage(q, kind, id, writes, code),
         WritesAreTyped(writes),
         ~ request[q].raced /\ ~ racedWrite => WritesAreSafe(writes),
         ~ request[q].raced /\ kind # "recovery" => FollowLifecycle(TasksWith(writes))
  PROVE  ServiceInv'
<1> DEFINE req == Staged(request[q], kind, id, writes, code)
<1>1. DOMAIN request[q] = Fields
  BY DEF ServiceInv, RequestInv
<1>2. request' = [request EXCEPT ![q] = req]
  BY StageIs
<1>3. /\ DOMAIN req = Fields /\ req.phase = "flush" /\ req.writes = writes
      /\ req.raced = request[q].raced /\ req.kind = kind
  BY <1>1, StagedFields
<1> HIDE DEF req
<1>4. RequestInv(req)
  BY <1>3 DEF RequestInv, StagedInv
<1> QED BY <1>2, <1>4, QuietStep DEF Stage

-----------------------------------------------------------------------------
(* What a request may write.                                               *)

(* The updates leave new in the columns of the rows it has, and the other  *)
(* rows alone.                                                             *)
Become(rows, updates, columns, new) ==
  \A i \in DOMAIN rows : \A c \in columns :
    Patched(rows, updates)[i][c] = IF i \in DOMAIN new THEN new[i][c] ELSE rows[i][c]

LEMMA NoUpdates ==
  ASSUME NEW rows, NEW columns, HaveColumns(rows, columns)
  PROVE  Become(rows, NoRows, columns, NoRows)
<1> SUFFICES ASSUME NEW i \in DOMAIN rows, NEW c \in columns
             PROVE  Patched(rows, NoRows)[i][c] = rows[i][c]
  BY NoRowsIsEmpty DEF Become
<1> QED BY NoRowsIsEmpty, PatchedRow DEF HaveColumns

LEMMA UpdatesBecome ==
  ASSUME NEW rows, NEW columns, HaveColumns(rows, columns), NEW new
  PROVE  /\ Become(rows, Updates(rows, new), columns, new)
         /\ SomeColumns(Updates(rows, new), columns)
<1>1. SomeColumns(Updates(rows, new), columns)
  BY UpdatesHaveColumns DEF HaveColumns
<1>2. ASSUME NEW i \in DOMAIN rows, NEW c \in columns
      PROVE  Patched(rows, Updates(rows, new))[i][c]
               = IF i \in DOMAIN new THEN new[i][c] ELSE rows[i][c]
  <2>1. DOMAIN rows[i] = columns
    BY DEF HaveColumns
  <2> QED BY <1>2, <2>1, UpdatedRow
<1> QED BY <1>1, <1>2 DEF Become

LEMMA UpdateBecomes ==
  ASSUME NEW rows, NEW columns, HaveColumns(rows, columns), NEW id \in DOMAIN rows, NEW row
  PROVE  LET updates == Updates(Single(id, rows[id]), Single(id, row)) IN
         /\ Become(rows, updates, columns, Single(id, row))
         /\ SomeColumns(updates, columns)
<1> DEFINE loaded == Single(id, rows[id])
           new == Single(id, row)
<1>0. DOMAIN loaded = {id} /\ DOMAIN new = {id} /\ loaded[id] = rows[id]
  BY DEF Single
<1> HIDE DEF loaded, new
<1>1. SomeColumns(Updates(loaded, new), columns)
  BY <1>0, UpdatesHaveColumns DEF HaveColumns
<1>2. ASSUME NEW i \in DOMAIN rows, NEW c \in columns
      PROVE  Patched(rows, Updates(loaded, new))[i][c]
               = IF i \in DOMAIN new THEN new[i][c] ELSE rows[i][c]
  <2>1. DOMAIN rows[i] = columns
    BY DEF HaveColumns
  <2>2. i \in DOMAIN loaded => loaded[i] = rows[i]
    BY <1>0
  <2> QED BY <1>0, <1>2, <2>1, <2>2, UpdatedRow
<1> QED BY <1>1, <1>2 DEF Become, loaded, new

(* Writes that put no robot on another cell.                               *)
LEMMA RobotsStay ==
  ASSUME RowsInv, NEW w, WritesAreTyped(w), DOMAIN w.newRobots = {}, NEW new,
         Become(robots, w.robots, RobotColumns, new),
         \A r \in DOMAIN robots \cap DOMAIN new : new[r].cell = robots[r].cell
  PROVE  OnePerCell(robots) => OnePerCell(RobotsWith(w))
<1>1. ASSUME NEW r \in DOMAIN RobotsWith(w)
      PROVE  r \in DOMAIN robots /\ RobotsWith(w)[r].cell = robots[r].cell
  <2>1. r \in DOMAIN robots /\ RobotsWith(w)[r] = Patched(robots, w.robots)[r]
    BY RobotsWithRow DEF RowsInv
  <2> QED BY <2>1 DEF Become, RobotColumns
<1> QED BY <1>1 DEF OnePerCell

(* Writes that touch tasks only along their lifecycle.                     *)
LEMMA TasksFollow ==
  ASSUME RowsInv, NEW w, WritesAreTyped(w), NEW new,
         Become(tasks, w.tasks, TaskColumns, new),
         DOMAIN w.newTasks \cap DOMAIN tasks = {}
  PROVE  /\ PendingAreFree(tasks)
              /\ (\A t \in DOMAIN new : new[t].status = "pending" => new[t].robot = NoRobot)
                => PendingAreFree(TasksWith(w))
         /\ (\A t \in DOMAIN new \cap DOMAIN tasks :
               new[t].status \in Lifecycle[tasks[t].status] \cup {tasks[t].status})
                => FollowLifecycle(TasksWith(w))
<1>1. ASSUME NEW t \in DOMAIN TasksWith(w), t \notin DOMAIN w.newTasks
      PROVE  LET row == IF t \in DOMAIN new THEN new[t] ELSE tasks[t] IN
             /\ t \in DOMAIN tasks
             /\ TasksWith(w)[t].status = row.status
             /\ TasksWith(w)[t].robot \in {row.robot, NoRobot}
  <2>1. /\ t \in DOMAIN tasks
        /\ TasksWith(w)[t].status = Patched(tasks, w.tasks)[t].status
        /\ TasksWith(w)[t].robot \in {Patched(tasks, w.tasks)[t].robot, NoRobot}
    BY <1>1, TasksWithRow DEF RowsInv
  <2> QED BY <2>1 DEF Become, TaskColumns
<1>2. ASSUME NEW t \in DOMAIN TasksWith(w), t \in DOMAIN w.newTasks
      PROVE  TasksWith(w)[t].robot = NoRobot
  BY <1>2, TasksWithRow DEF RowsInv, WritesAreTyped
<1>3. ASSUME PendingAreFree(tasks),
             \A t \in DOMAIN new : new[t].status = "pending" => new[t].robot = NoRobot
      PROVE  PendingAreFree(TasksWith(w))
  BY <1>1, <1>2, <1>3 DEF PendingAreFree
<1>4. ASSUME \A t \in DOMAIN new \cap DOMAIN tasks :
               new[t].status \in Lifecycle[tasks[t].status] \cup {tasks[t].status}
      PROVE  FollowLifecycle(TasksWith(w))
  BY <1>1, <1>4 DEF FollowLifecycle
<1> QED BY <1>3, <1>4

(* Writes to one of the tables leave the other.                            *)
LEMMA RobotsUntouched ==
  ASSUME RowsInv, NEW w, WritesAreTyped(w), w.newRobots = NoRows, w.robots = NoRows
  PROVE  OnePerCell(robots) => OnePerCell(RobotsWith(w))
<1>1. Become(robots, w.robots, RobotColumns, NoRows)
  BY NoUpdates DEF RowsInv
<1> QED BY <1>1, RobotsStay, NoRowsIsEmpty

LEMMA TasksUntouched ==
  ASSUME RowsInv, NEW w, WritesAreTyped(w), w.newTasks = NoRows, w.tasks = NoRows
  PROVE  /\ PendingAreFree(tasks) => PendingAreFree(TasksWith(w))
         /\ FollowLifecycle(TasksWith(w))
<1>1. Become(tasks, w.tasks, TaskColumns, NoRows)
  BY NoUpdates DEF RowsInv
<1> QED BY <1>1, TasksFollow, NoRowsIsEmpty

-----------------------------------------------------------------------------
(* One lemma per handler.                                                  *)

LEMMA FreshIsNotRaced ==
  ASSUME ServiceInv, NEW q \in Requests, NEW kind, Issue(q, kind)
  PROVE  ~ request[q].raced
  BY DEF ServiceInv, RequestInv, Issue

LEMMA CreateRobotKeeps ==
  ASSUME ServiceInv, NEW q \in Requests, NEW r \in RobotIds, NEW c, NEW s,
         CreateRobot(q, r, c, s)
  PROVE  ServiceInv'
<1> DEFINE row == [cell |-> c, status |-> s, task |-> NoTask]
           w == [NoWrites EXCEPT !.newRobots = Single(r, row)]
<1>1. CASE r \in DOMAIN robots \/ IsTaken(c, NoRobot)
  BY <1>1, AnswerKeeps DEF CreateRobot
<1>2. CASE ~ (r \in DOMAIN robots \/ IsTaken(c, NoRobot))
  <2>1. /\ w.newRobots = Single(r, row) /\ w.robots = NoRows /\ w.goneRobots = {}
        /\ w.newTasks = NoRows /\ w.tasks = NoRows /\ w.goneTasks = {}
    BY DEF NoWrites
  <2>2. Stage(q, "create_robot", r, w, 201)
    BY <1>2 DEF CreateRobot
  <2> HIDE DEF w
  <2>3. DOMAIN w.newRobots = {r} /\ w.newRobots[r] = row
    BY <2>1 DEF Single
  <2>4. DOMAIN row = RobotColumns /\ row.cell = c
    BY DEF RobotColumns
  <2> HIDE DEF row
  <2>5. WritesAreTyped(w)
    BY <2>1, <2>3, <2>4, NoRowsIsEmpty DEF WritesAreTyped, HaveColumns, SomeColumns
  <2>6. /\ PendingAreFree(tasks) => PendingAreFree(TasksWith(w))
        /\ FollowLifecycle(TasksWith(w))
    BY <2>1, <2>5, TasksUntouched DEF ServiceInv
  <2>7. OnePerCell(robots) => OnePerCell(RobotsWith(w))
    <3>1. Become(robots, w.robots, RobotColumns, NoRows)
      BY <2>1, NoUpdates DEF ServiceInv, RowsInv
    <3>2. ASSUME NEW p \in DOMAIN RobotsWith(w), p # r
          PROVE  p \in DOMAIN robots /\ RobotsWith(w)[p].cell = robots[p].cell
                   /\ robots[p].cell # c
      <4>1. p \in DOMAIN robots /\ RobotsWith(w)[p] = Patched(robots, w.robots)[p]
        BY <2>3, <2>5, <3>2, RobotsWithRow DEF ServiceInv, RowsInv
      <4>2. robots[p].cell # c
        BY <1>2, <4>1 DEF IsTaken, ServiceInv, RowsInv
      <4> QED BY <3>1, <4>1, <4>2, NoRowsIsEmpty DEF Become, RobotColumns
    <3>3. r \in DOMAIN RobotsWith(w) => RobotsWith(w)[r].cell = c
      BY <2>3, <2>4, <2>5, RobotsWithRow DEF ServiceInv, RowsInv
    <3> QED BY <3>2, <3>3 DEF OnePerCell
  <2> QED BY <2>2, <2>5, <2>6, <2>7, StageKeeps DEF WritesAreSafe, ServiceInv, RowsInv
<1> QED BY <1>1, <1>2

LEMMA UpdateRobotKeeps ==
  ASSUME ServiceInv, NEW q \in Requests, NEW r \in RobotIds, NEW c, NEW s, NEW t,
         UpdateRobot(q, r, c, s, t)
  PROVE  ServiceInv'
<1> DEFINE row == robots[r]
           new == [cell |-> IF c = Same THEN row.cell ELSE c,
                   status |-> IF s = Same THEN row.status ELSE s,
                   task |-> CASE t = Clear -> NoTask [] t = Same -> row.task [] OTHER -> t]
           taken == new.cell # row.cell /\ IsTaken(new.cell, r)
           updates == Updates(Single(r, row), Single(r, new))
           w == [NoWrites EXCEPT !.robots = updates]
<1>1. CASE r \notin DOMAIN robots
  BY <1>1, AnswerKeeps DEF UpdateRobot
<1>2. CASE r \in DOMAIN robots /\ taken
  <2>1. Answer(q, "update_robot", r, 409)
    BY <1>2 DEF UpdateRobot
  <2> QED BY <2>1, AnswerKeeps
<1>3. CASE r \in DOMAIN robots /\ ~ taken
  <2>1. /\ w.newRobots = NoRows /\ w.robots = updates /\ w.goneRobots = {}
        /\ w.newTasks = NoRows /\ w.tasks = NoRows /\ w.goneTasks = {}
    BY DEF NoWrites
  <2>2. Stage(q, "update_robot", r, w, 200)
    BY <1>3 DEF UpdateRobot
  <2> HIDE DEF w, new
  <2>3. Become(robots, updates, RobotColumns, Single(r, new)) /\ SomeColumns(updates, RobotColumns)
    BY <1>3, UpdateBecomes DEF ServiceInv, RowsInv
  <2>4. DOMAIN Single(r, new) = {r} /\ Single(r, new)[r] = new
    BY DEF Single
  <2> HIDE DEF updates
  <2>5. WritesAreTyped(w)
    BY <2>1, <2>3, NoRowsIsEmpty DEF WritesAreTyped, HaveColumns, SomeColumns
  <2>6. /\ PendingAreFree(tasks) => PendingAreFree(TasksWith(w))
        /\ FollowLifecycle(TasksWith(w))
    BY <2>1, <2>5, TasksUntouched DEF ServiceInv
  <2>7. OnePerCell(robots) => OnePerCell(RobotsWith(w))
    <3>1. ASSUME NEW p \in DOMAIN RobotsWith(w)
          PROVE  /\ p \in DOMAIN robots
                 /\ RobotsWith(w)[p].cell = IF p = r THEN new.cell ELSE robots[p].cell
      <4>1. p \in DOMAIN robots /\ RobotsWith(w)[p] = Patched(robots, updates)[p]
        BY <2>1, <2>5, NoRowsIsEmpty, RobotsWithRow DEF ServiceInv, RowsInv
      <4> QED BY <2>3, <2>4, <4>1 DEF Become, RobotColumns
    <3>2. ASSUME NEW p \in DOMAIN robots, p # r, OnePerCell(robots)
          PROVE  robots[p].cell # new.cell
      BY <1>3, <3>2 DEF OnePerCell, IsTaken
    <3> QED BY <3>1, <3>2 DEF OnePerCell
  <2> QED BY <2>2, <2>5, <2>6, <2>7, StageKeeps DEF WritesAreSafe, ServiceInv, RowsInv
<1> QED BY <1>1, <1>2, <1>3

LEMMA DeleteRobotKeeps ==
  ASSUME ServiceInv, NEW q \in Requests, NEW r \in RobotIds, DeleteRobot(q, r)
  PROVE  ServiceInv'
<1> DEFINE w == [NoWrites EXCEPT !.goneRobots = {r}]
<1>1. CASE r \notin DOMAIN robots
  BY <1>1, AnswerKeeps DEF DeleteRobot
<1>2. CASE r \in DOMAIN robots
  <2>1. /\ w.newRobots = NoRows /\ w.robots = NoRows
        /\ w.newTasks = NoRows /\ w.tasks = NoRows
    BY DEF NoWrites
  <2>2. Stage(q, "delete_robot", r, w, 204)
    BY <1>2 DEF DeleteRobot
  <2> HIDE DEF w
  <2>3. WritesAreTyped(w)
    BY <2>1, NoRowsIsEmpty DEF WritesAreTyped, HaveColumns, SomeColumns
  <2> QED BY <2>1, <2>2, <2>3, RobotsUntouched, TasksUntouched, StageKeeps
      DEF WritesAreSafe, ServiceInv, RowsInv
<1> QED BY <1>1, <1>2

LEMMA CreateTaskKeeps ==
  ASSUME ServiceInv, NEW q \in Requests, NEW t \in TaskIds, CreateTask(q, t)
  PROVE  ServiceInv'
<1> DEFINE row == [status |-> "pending", robot |-> NoRobot]
           w == [NoWrites EXCEPT !.newTasks = Single(t, row)]
<1>1. CASE t \in DOMAIN tasks
  BY <1>1, AnswerKeeps DEF CreateTask
<1>2. CASE t \notin DOMAIN tasks
  <2>1. /\ w.newRobots = NoRows /\ w.robots = NoRows
        /\ w.newTasks = Single(t, row) /\ w.tasks = NoRows
    BY DEF NoWrites
  <2>2. Stage(q, "create_task", t, w, 201)
    BY <1>2 DEF CreateTask
  <2> HIDE DEF w
  <2>3. DOMAIN w.newTasks = {t} /\ w.newTasks[t] = row
    BY <2>1 DEF Single
  <2>4. DOMAIN row = TaskColumns /\ row.robot = NoRobot
    BY DEF TaskColumns
  <2> HIDE DEF row
  <2>5. WritesAreTyped(w)
    BY <2>1, <2>3, <2>4, NoRowsIsEmpty DEF WritesAreTyped, HaveColumns, SomeColumns
  <2>6. /\ PendingAreFree(tasks) => PendingAreFree(TasksWith(w))
        /\ FollowLifecycle(TasksWith(w))
    <3>1. Become(tasks, w.tasks, TaskColumns, NoRows)
      BY <2>1, NoUpdates DEF ServiceInv, RowsInv
    <3> QED BY <1>2, <2>3, <2>5, <3>1, TasksFollow, NoRowsIsEmpty DEF ServiceInv
  <2> QED BY <2>1, <2>2, <2>5, <2>6, RobotsUntouched, StageKeeps
      DEF WritesAreSafe, ServiceInv, RowsInv
<1> QED BY <1>1, <1>2

LEMMA DeleteTaskKeeps ==
  ASSUME ServiceInv, NEW q \in Requests, NEW t \in TaskIds, DeleteTask(q, t)
  PROVE  ServiceInv'
<1> DEFINE w == [NoWrites EXCEPT !.goneTasks = {t}]
<1>1. CASE t \notin DOMAIN tasks
  BY <1>1, AnswerKeeps DEF DeleteTask
<1>2. CASE t \in DOMAIN tasks
  <2>1. /\ w.newRobots = NoRows /\ w.robots = NoRows
        /\ w.newTasks = NoRows /\ w.tasks = NoRows
    BY DEF NoWrites
  <2>2. Stage(q, "delete_task", t, w, 204)
    BY <1>2 DEF DeleteTask
  <2> HIDE DEF w
  <2>3. WritesAreTyped(w)
    BY <2>1, NoRowsIsEmpty DEF WritesAreTyped, HaveColumns, SomeColumns
  <2> QED BY <2>1, <2>2, <2>3, RobotsUntouched, TasksUntouched, StageKeeps
      DEF WritesAreSafe, ServiceInv, RowsInv
<1> QED BY <1>1, <1>2

LEMMA NoWritesAreSafe ==
  ASSUME RowsInv
  PROVE  /\ WritesAreTyped(NoWrites)
         /\ ~ racedWrite => WritesAreSafe(NoWrites)
         /\ FollowLifecycle(TasksWith(NoWrites))
<1>1. /\ NoWrites.newRobots = NoRows /\ NoWrites.robots = NoRows
      /\ NoWrites.newTasks = NoRows /\ NoWrites.tasks = NoRows
  BY DEF NoWrites
<1>2. WritesAreTyped(NoWrites)
  BY <1>1, NoRowsIsEmpty DEF WritesAreTyped, HaveColumns, SomeColumns
<1> QED BY <1>1, <1>2, RobotsUntouched, TasksUntouched DEF WritesAreSafe, RowsInv

LEMMA TransitionFollows ==
  ASSUME NEW row, NEW target, NEW r, Transition(row, target, r).code = 200
  PROVE  LET new == Transition(row, target, r).row IN
         /\ new.status \in Lifecycle[row.status] \cup {row.status}
         /\ new.status = "pending" => new = row \/ new.robot = NoRobot
<1>1. CASE target = row.status
  BY <1>1 DEF Transition
<1>2. CASE target # row.status
  <2>1. /\ ~ (target = "assigned" /\ r \notin DOMAIN robots)
        /\ ~ (target \notin Lifecycle[row.status])
    BY <1>2 DEF Transition
  <2> DEFINE new == [status |-> target,
                     robot |-> CASE target = "assigned" -> r
                                 [] target = "pending" -> NoRobot
                                 [] OTHER -> row.robot]
  <2>2. Transition(row, target, r).row = new
    BY <1>2, <2>1 DEF Transition
  <2>3. new.status = target /\ (target = "pending" => new.robot = NoRobot)
    OBVIOUS
  <2>4. target \in Lifecycle[row.status]
    BY <2>1
  <2> HIDE DEF new
  <2> QED BY <2>2, <2>3, <2>4
<1> QED BY <1>1, <1>2

LEMMA UpdateTaskKeeps ==
  ASSUME ServiceInv, NEW q \in Requests, NEW t \in TaskIds, NEW target, NEW r, NEW edits \in BOOLEAN,
         UpdateTask(q, t, target, r, edits)
  PROVE  ServiceInv'
<1> DEFINE row == tasks[t]
           out == IF edits /\ row.status # "pending" THEN [code |-> 409, row |-> row]
                  ELSE IF target # Same THEN Transition(row, target, r)
                  ELSE Repointing(row, r)
           updates == Updates(Single(t, row), Single(t, out.row))
           w == [NoWrites EXCEPT !.tasks = updates]
<1>1. CASE t \notin DOMAIN tasks
  BY <1>1, AnswerKeeps DEF UpdateTask
<1>2. CASE t \in DOMAIN tasks /\ out.code # 200
  <2>1. Answer(q, "update_task", t, out.code)
    BY <1>2 DEF UpdateTask
  <2> HIDE DEF out
  <2> QED BY <2>1, AnswerKeeps
<1>3. CASE t \in DOMAIN tasks /\ out.code = 200
  <2>1. /\ w.newRobots = NoRows /\ w.robots = NoRows
        /\ w.newTasks = NoRows /\ w.tasks = updates
    BY DEF NoWrites
  <2>2. Stage(q, "update_task", t, w, 200)
    BY <1>3 DEF UpdateTask
  <2>3. /\ out.row.status \in Lifecycle[row.status] \cup {row.status}
        /\ out.row.status = "pending" => out.row = row \/ out.row.robot = NoRobot
    <3>1. CASE edits /\ row.status # "pending"
      <4>1. out = [code |-> 409, row |-> row]
        BY <3>1
      <4> HIDE DEF out
      <4> QED BY <1>3, <4>1
    <3>2. CASE ~ (edits /\ row.status # "pending") /\ target # Same
      <4>1. out = Transition(row, target, r)
        BY <3>2
      <4> QED BY <1>3, <4>1, TransitionFollows
    <3>3. CASE ~ (edits /\ row.status # "pending") /\ target = Same
      <4>1. out = Repointing(row, r)
        BY <3>3
      <4>2. /\ Repointing(row, r).row.status = row.status
            /\ row.status = "pending" => Repointing(row, r).row = row
        <5>1. DOMAIN row = TaskColumns
          BY <1>3 DEF ServiceInv, RowsInv, HaveColumns
        <5> QED BY <5>1 DEF Repointing, TaskColumns
      <4> QED BY <4>1, <4>2
    <3> QED BY <3>1, <3>2, <3>3
  <2> HIDE DEF w, out
  <2>4. Become(tasks, updates, TaskColumns, Single(t, out.row)) /\ SomeColumns(updates, TaskColumns)
    BY <1>3, UpdateBecomes DEF ServiceInv, RowsInv
  <2>5. DOMAIN Single(t, out.row) = {t} /\ Single(t, out.row)[t] = out.row
    BY DEF Single
  <2> HIDE DEF updates
  <2>6. WritesAreTyped(w)
    BY <2>1, <2>4, NoRowsIsEmpty DEF WritesAreTyped, HaveColumns, SomeColumns
  <2>7. ASSUME PendingAreFree(tasks)
        PROVE  out.row.status = "pending" => out.row.robot = NoRobot
    BY <1>3, <2>3, <2>7 DEF PendingAreFree
  <2>8. /\ PendingAreFree(tasks) => PendingAreFree(TasksWith(w))
        /\ FollowLifecycle(TasksWith(w))
    BY <2>1, <2>3, <2>4, <2>5, <2>6, <2>7, TasksFollow, NoRowsIsEmpty DEF ServiceInv
  <2> QED BY <2>1, <2>2, <2>6, <2>8, RobotsUntouched, StageKeeps
      DEF WritesAreSafe, ServiceInv, RowsInv
<1> QED BY <1>1, <1>2, <1>3

LEMMA ListFreeRobotsKeeps ==
  ASSUME ServiceInv, NEW q \in Requests, ListFreeRobots(q)
  PROVE  ServiceInv'
<1> DEFINE pool == Restrict(robots, {r \in DOMAIN robots : IsFree(r)})
           req == [request[q] EXCEPT !.phase = "list_tasks", !.kind = "allocation", !.pool = pool]
<1>1. request' = [request EXCEPT ![q] = req]
  BY DEF ListFreeRobots
<1>2. HaveColumns(pool, RobotColumns)
  BY DEF HaveColumns, Restrict, ServiceInv, RowsInv
<1> HIDE DEF pool
<1>3. /\ DOMAIN req = Fields /\ req.phase = "list_tasks" /\ req.pool = pool
  BY DEF Fields, ServiceInv, RequestInv
<1> HIDE DEF req
<1>4. RequestInv(req)
  BY <1>2, <1>3 DEF RequestInv
<1> QED BY <1>1, <1>4, QuietStep DEF ListFreeRobots

LEMMA AllocateAndCommitKeeps ==
  ASSUME ServiceInv, NEW q \in Requests, AllocateAndCommit(q)
  PROVE  ServiceInv'
<1> DEFINE pool == request[q].pool
           queue == Restrict(tasks, {t \in DOMAIN tasks : tasks[t].status = "pending"})
<1>1. CASE \E code : Answer(q, "allocation", NoTask, code)
  BY <1>1, AnswerKeeps
<1>2. CASE Stage(q, "allocation", NoTask, NoWrites, 200)
  BY <1>2, NoWritesAreSafe, StageKeeps DEF ServiceInv
<1>3. ASSUME NEW m,
             request' = [request EXCEPT ![q].phase = "write_back",
                                        ![q].pool = RobotsAfter(pool, m),
                                        ![q].plan = TasksAfter(queue, m)],
             UNCHANGED <<robots, tasks, racedWrite>>
      PROVE  ServiceInv'
  <2> DEFINE rows == RobotsAfter(pool, m)
             plan == TasksAfter(queue, m)
             req == [request[q] EXCEPT !.phase = "write_back", !.pool = rows, !.plan = plan]
  <2>1. request' = [request EXCEPT ![q] = req]
    BY <1>3
  <2>2. HaveColumns(rows, RobotColumns)
    <3>1. HaveColumns(pool, RobotColumns)
      BY DEF AllocateAndCommit, ServiceInv, RequestInv
    <3> HIDE DEF pool
    <3>2. DOMAIN rows = DOMAIN pool
      BY DEF RobotsAfter
    <3>3. ASSUME NEW r \in DOMAIN pool PROVE DOMAIN rows[r] = DOMAIN pool[r]
      BY DEF RobotsAfter
    <3> HIDE DEF rows
    <3> QED BY <3>1, <3>2, <3>3 DEF HaveColumns
  <2>3. /\ DOMAIN queue = {t \in DOMAIN tasks : tasks[t].status = "pending"}
        /\ \A t \in DOMAIN queue : queue[t] = tasks[t]
    BY DEF Restrict
  <2> HIDE DEF queue
  <2>4. DOMAIN plan = DOMAIN queue
    BY DEF TasksAfter
  <2>5. ASSUME NEW t \in DOMAIN queue
        PROVE  /\ DOMAIN plan[t] = TaskColumns
               /\ plan[t].status \in {"pending", "assigned"}
               /\ plan[t].status = "pending" => plan[t] = tasks[t]
    <3>1. CASE t \in DOMAIN m
      <4>1. plan[t] = [status |-> "assigned", robot |-> m[t]]
        BY <3>1 DEF TasksAfter
      <4> HIDE DEF plan
      <4> QED BY <4>1 DEF TaskColumns
    <3>2. CASE t \notin DOMAIN m
      <4>1. plan[t] = tasks[t]
        BY <2>3, <3>2 DEF TasksAfter
      <4> HIDE DEF plan
      <4> QED BY <2>3, <4>1 DEF ServiceInv, RowsInv, HaveColumns
    <3> QED BY <3>1, <3>2
  <2>6. /\ DOMAIN req = Fields /\ req.phase = "write_back" /\ req.pool = rows
        /\ req.plan = plan
    BY DEF Fields, ServiceInv, RequestInv
  <2> HIDE DEF req, rows, plan
  <2>7. HaveColumns(plan, TaskColumns)
    BY <2>4, <2>5 DEF HaveColumns
  <2>8. ~ racedWrite => PendingAreFree(plan)
    BY <2>3, <2>4, <2>5 DEF PendingAreFree, ServiceInv, RowsInv
  <2>9. PlanInv(req)
    BY <2>2, <2>3, <2>4, <2>5, <2>6, <2>7, <2>8 DEF PlanInv
  <2>10. RequestInv(req)
    BY <2>6, <2>9 DEF RequestInv
  <2> QED BY <1>3, <2>1, <2>10, QuietStep
<1> QED BY <1>1, <1>2, <1>3 DEF AllocateAndCommit

LEMMA WriteBackKeeps ==
  ASSUME ServiceInv, NEW q \in Requests, WriteBack(q)
  PROVE  ServiceInv'
<1> DEFINE pool == request[q].pool
           plan == request[q].plan
           new == [r \in DOMAIN pool \cap DOMAIN robots |-> RobotTarget(robots[r], pool[r])]
           w == [NoWrites EXCEPT !.robots = Updates(robots, new), !.tasks = Updates(tasks, plan)]
<1>1. Stage(q, "allocation", NoTask, w, 200) /\ PlanInv(request[q])
  BY DEF WriteBack, ServiceInv, RequestInv
<1>2. /\ w.newRobots = NoRows /\ w.robots = Updates(robots, new)
      /\ w.newTasks = NoRows /\ w.tasks = Updates(tasks, plan)
  BY DEF NoWrites
<1>3. \A r \in DOMAIN robots \cap DOMAIN new : new[r].cell = robots[r].cell
  BY DEF RobotTarget, ServiceInv, RowsInv, HaveColumns, RobotColumns
<1> HIDE DEF w, new
<1>4. /\ Become(robots, w.robots, RobotColumns, new) /\ SomeColumns(w.robots, RobotColumns)
      /\ Become(tasks, w.tasks, TaskColumns, plan) /\ SomeColumns(w.tasks, TaskColumns)
  BY <1>2, UpdatesBecome DEF ServiceInv, RowsInv
<1>5. WritesAreTyped(w)
  BY <1>2, <1>4, NoRowsIsEmpty DEF WritesAreTyped, HaveColumns
<1>6. OnePerCell(robots) => OnePerCell(RobotsWith(w))
  BY <1>2, <1>3, <1>4, <1>5, RobotsStay, NoRowsIsEmpty DEF ServiceInv
<1>7. ~ racedWrite => PendingAreFree(TasksWith(w))
  <2>1. ASSUME ~ racedWrite
        PROVE  \A t \in DOMAIN plan : plan[t].status = "pending" => plan[t].robot = NoRobot
    BY <1>1, <2>1 DEF PlanInv, PendingAreFree
  <2> QED BY <1>2, <1>4, <1>5, <2>1, TasksFollow, NoRowsIsEmpty DEF ServiceInv, RowsInv
<1>8. ~ request[q].raced => FollowLifecycle(TasksWith(w))
  <2>1. ASSUME ~ request[q].raced
        PROVE  \A t \in DOMAIN plan \cap DOMAIN tasks :
                 plan[t].status \in Lifecycle[tasks[t].status] \cup {tasks[t].status}
    BY <1>1, <2>1 DEF PlanInv, Lifecycle
  <2> QED BY <1>2, <1>4, <1>5, <2>1, TasksFollow, NoRowsIsEmpty DEF ServiceInv
<1> QED BY <1>1, <1>5, <1>6, <1>7, <1>8, StageKeeps DEF WritesAreSafe, ServiceInv, RowsInv

LEMMA PersistReassignmentKeeps ==
  ASSUME ServiceInv, NEW q \in Requests, NEW f, NEW s, NEW t, PersistReassignment(q, f, s, t)
  PROVE  ServiceInv'
<1> DEFINE outcome == Overlaid(Single(f, [status |-> "offline", task |-> NoTask]),
                               Single(s, [status |-> "assigned", task |-> t]))
           new == [r \in {f, s} \cap DOMAIN robots |-> RobotTarget(robots[r], outcome[r])]
           target == [status |-> "assigned", robot |-> s]
           w == [NoWrites EXCEPT !.robots = Updates(robots, new),
                                 !.tasks = Updates(tasks, Single(t, target))]
<1>1. CASE t \notin DOMAIN tasks \/ s \notin DOMAIN robots
  <2>1. Stage(q, "recovery", t, NoWrites, 200)
    BY <1>1 DEF PersistReassignment
  <2> QED BY <2>1, NoWritesAreSafe, StageKeeps DEF ServiceInv
<1>2. CASE ~ (t \notin DOMAIN tasks \/ s \notin DOMAIN robots)
  <2>1. Stage(q, "recovery", t, w, 200)
    BY <1>2 DEF PersistReassignment
  <2>2. /\ w.newRobots = NoRows /\ w.robots = Updates(robots, new)
        /\ w.newTasks = NoRows /\ w.tasks = Updates(tasks, Single(t, target))
    BY DEF NoWrites
  <2>3. \A r \in DOMAIN robots \cap DOMAIN new : new[r].cell = robots[r].cell
    BY DEF RobotTarget, ServiceInv, RowsInv, HaveColumns, RobotColumns
  <2>4. DOMAIN Single(t, target) = {t} /\ Single(t, target)[t].status = "assigned"
    BY DEF Single
  <2> HIDE DEF w, new, target
  <2>5. /\ Become(robots, w.robots, RobotColumns, new) /\ SomeColumns(w.robots, RobotColumns)
        /\ Become(tasks, w.tasks, TaskColumns, Single(t, target))
        /\ SomeColumns(w.tasks, TaskColumns)
    BY <2>2, UpdatesBecome DEF ServiceInv, RowsInv
  <2>6. WritesAreTyped(w)
    BY <2>2, <2>5, NoRowsIsEmpty DEF WritesAreTyped, HaveColumns
  <2>7. OnePerCell(robots) => OnePerCell(RobotsWith(w))
    BY <2>2, <2>3, <2>5, <2>6, RobotsStay, NoRowsIsEmpty DEF ServiceInv
  <2>8. PendingAreFree(tasks) => PendingAreFree(TasksWith(w))
    BY <2>2, <2>4, <2>5, <2>6, TasksFollow, NoRowsIsEmpty DEF ServiceInv
  <2> QED BY <2>1, <2>6, <2>7, <2>8, StageKeeps DEF WritesAreSafe, ServiceInv, RowsInv
<1> QED BY <1>1, <1>2

-----------------------------------------------------------------------------
(* From an empty inbox, step by step.                                      *)

LEMMA InitHolds == Init => ServiceInv
<1> SUFFICES ASSUME Init PROVE ServiceInv
  OBVIOUS
<1>1. /\ \A r \in DOMAIN robots : robots[r] \in StartRows
      /\ DOMAIN robots \subseteq RobotIds
  BY DEF Init
<1>2. \A t \in DOMAIN tasks : tasks[t] \in TaskRow
  BY DEF Init
<1>3. HaveColumns(robots, RobotColumns)
  BY <1>1 DEF HaveColumns, StartRows, RobotColumns
<1>4. HaveColumns(tasks, TaskColumns)
  BY <1>2 DEF HaveColumns, TaskRow, TaskColumns
<1>5. OnePerCell(robots)
  BY DEF Init, OneRobotPerCell, IsInjective, OnePerCell
<1>6. PointersResolve /\ PendingAreFree(tasks)
  BY DEF Init, PointersResolve, PendingAreFree
<1>7. ASSUME NEW q \in Requests PROVE RequestInv(request[q])
  <2>1. request[q] = NotIssued
    BY DEF Init
  <2>2. DOMAIN NotIssued = Fields /\ NotIssued.phase = "none" /\ NotIssued.raced = FALSE
    BY DEF NotIssued, Fields
  <2> QED BY <2>1, <2>2 DEF RequestInv
<1>8. DOMAIN request = Requests
  BY DEF Init
<1> QED BY <1>1, <1>3, <1>4, <1>5, <1>6, <1>7, <1>8 DEF ServiceInv, RowsInv

LEMMA StepHolds ==
  ASSUME ServiceInv, [Next]_vars
  PROVE  ServiceInv'
<1>1. CASE UNCHANGED vars
  <2>1. UNCHANGED <<robots, tasks, racedWrite>> /\ request' = request
    BY <1>1 DEF vars
  <2>2. RowsInv'
    BY <2>1 DEF ServiceInv, RowsInv, PointersResolve
  <2>3. \A q \in Requests : RequestInv(request[q])'
    BY <2>1, RowsUnchanged DEF ServiceInv
  <2> QED BY <2>1, <2>2, <2>3 DEF ServiceInv
<1>2. ASSUME NEW q \in Requests,
             \E r \in RobotIds, c \in Places, s \in PatchStatuses : CreateRobot(q, r, c, s)
      PROVE  ServiceInv'
  BY <1>2, CreateRobotKeeps
<1>3. ASSUME NEW q \in Requests,
             \E r \in RobotIds, c \in Places \cup {Same}, s \in PatchStatuses \cup {Same},
                t \in TaskIds \cup {Same, Clear} : UpdateRobot(q, r, c, s, t)
      PROVE  ServiceInv'
  BY <1>3, UpdateRobotKeeps
<1>4. ASSUME NEW q \in Requests, \E r \in RobotIds : DeleteRobot(q, r)
      PROVE  ServiceInv'
  BY <1>4, DeleteRobotKeeps
<1>5. ASSUME NEW q \in Requests, \E t \in TaskIds : CreateTask(q, t) \/ DeleteTask(q, t)
      PROVE  ServiceInv'
  BY <1>5, CreateTaskKeeps, DeleteTaskKeeps
<1>6. ASSUME NEW q \in Requests,
             \E t \in TaskIds, s \in TaskStatuses \cup {Same}, r \in RobotIds \cup {Same},
                edits \in BOOLEAN : UpdateTask(q, t, s, r, edits)
      PROVE  ServiceInv'
  BY <1>6, UpdateTaskKeeps
<1>7. ASSUME NEW q \in Requests, ListFreeRobots(q) \/ AllocateAndCommit(q) \/ WriteBack(q)
      PROVE  ServiceInv'
  BY <1>7, ListFreeRobotsKeeps, AllocateAndCommitKeeps, WriteBackKeeps
<1>8. ASSUME NEW q \in Requests,
             \E f, s \in RobotIds, t \in TaskIds : PersistReassignment(q, f, s, t)
      PROVE  ServiceInv'
  BY <1>8, PersistReassignmentKeeps
<1>9. ASSUME NEW q \in Requests, Commit(q) \/ Unavailable(q)
      PROVE  ServiceInv'
  BY <1>9, CommitKeeps, UnavailableKeeps
<1> QED BY <1>1, <1>2, <1>3, <1>4, <1>5, <1>6, <1>7, <1>8, <1>9 DEF Next

(* Whatever overlaps, the argument of this module is never left.           *)
THEOREM ServiceInvariance == Spec => []ServiceInv
<1>1. Init => ServiceInv
  BY InitHolds
<1>2. ServiceInv /\ [Next]_vars => ServiceInv'
  BY StepHolds
<1> QED BY <1>1, <1>2, PTL DEF Spec

(* No task names a robot without a row, whatever overlaps with a deletion. *)
THEOREM PointersAlwaysResolve == Spec => []PointersResolve
<1>1. ServiceInv => PointersResolve
  BY DEF ServiceInv, RowsInv
<1> QED BY <1>1, ServiceInvariance, PTL

(* Requests that do not write over each other's rows keep one robot on a   *)
(* cell and pending tasks free, for any number of them.                    *)
THEOREM SerialHistoriesAreSafe == Spec => []SerialRequestsAreSafe
<1>1. ServiceInv => SerialRequestsAreSafe
  <2> SUFFICES ASSUME ServiceInv, ~ racedWrite PROVE
        /\ OneRobotPerCell
        /\ \A t \in DOMAIN tasks : tasks[t].status = "pending" => tasks[t].robot = NoRobot
    BY DEF SerialRequestsAreSafe
  <2>1. OnePerCell(robots) /\ PendingAreFree(tasks)
    BY DEF ServiceInv, RowsInv
  <2> QED BY <2>1 DEF OneRobotPerCell, IsInjective, OnePerCell, PendingAreFree
<1> QED BY <1>1, ServiceInvariance, PTL

(* No step of an allocation on its way writes rows.                        *)
LEMMA RowsStand ==
  ASSUME NEW q \in Requests
  PROVE  /\ ListFreeRobots(q) => UNCHANGED <<robots, tasks>>
         /\ AllocateAndCommit(q) => UNCHANGED <<robots, tasks>>
         /\ WriteBack(q) => UNCHANGED <<robots, tasks>>
         /\ Unavailable(q) => UNCHANGED <<robots, tasks>>
<1>1. ListFreeRobots(q) => UNCHANGED <<robots, tasks>>
  BY DEF ListFreeRobots
<1>2. AllocateAndCommit(q) => UNCHANGED <<robots, tasks>>
  BY DEF AllocateAndCommit, Answer, Stage
<1>3. WriteBack(q) => UNCHANGED <<robots, tasks>>
  BY DEF WriteBack, Stage
<1>4. Unavailable(q) => UNCHANGED <<robots, tasks>>
  BY DEF Unavailable
<1>. QED  BY <1>1, <1>2, <1>3, <1>4

(* A commit on rows nobody touched moves tasks along their lifecycle only. *)
THEOREM TasksFollowTheirLifecycle == Spec => LifecycleHolds
<1> DEFINE Follows == \A q \in Requests, t \in DOMAIN tasks :
             Commits(q) /\ request[q].kind # "recovery" /\ ~ request[q].raced
               /\ t \in DOMAIN tasks' =>
                 tasks'[t].status \in Lifecycle[tasks[t].status] \cup {tasks[t].status}
<1>1. ServiceInv /\ [Next]_vars => [Follows]_vars
  <2> SUFFICES ASSUME ServiceInv, Next, NEW q \in Requests, NEW t \in DOMAIN tasks,
                      Commits(q), request[q].kind # "recovery", ~ request[q].raced,
                      t \in DOMAIN tasks'
               PROVE  tasks'[t].status \in Lifecycle[tasks[t].status] \cup {tasks[t].status}
    OBVIOUS
  <2>1. CASE tasks' = tasks
    BY <2>1
  <2>2. CASE tasks' # tasks
    <3>1. tasks' = TasksWith(request[q].writes)
      <4>1. PICK p \in Requests : Commit(p)
        <5>1. \A p \in Requests : \A kind, id, code : ~ Answer(p, kind, id, code)
          BY <2>2 DEF Answer
        <5>2. \A p \in Requests : \A kind, id, writes, code : ~ Stage(p, kind, id, writes, code)
          BY <2>2 DEF Stage
        <5>3. \A p \in Requests : /\ ~ ListFreeRobots(p) /\ ~ Unavailable(p)
                                  /\ ~ WriteBack(p) /\ ~ AllocateAndCommit(p)
          BY <2>2, RowsStand
        <5>4. \A p \in Requests, r \in RobotIds :
                /\ ~ DeleteRobot(p, r)
                /\ \A c \in Places, s \in PatchStatuses : ~ CreateRobot(p, r, c, s)
                /\ \A c, s, k : ~ UpdateRobot(p, r, c, s, k)
          BY <5>1, <5>2 DEF DeleteRobot, CreateRobot, UpdateRobot
        <5>5. \A p \in Requests, k \in TaskIds : ~ CreateTask(p, k) /\ ~ DeleteTask(p, k)
          BY <5>1, <5>2 DEF CreateTask, DeleteTask
        <5>6. \A p \in Requests, k \in TaskIds : \A s, r : \A edits \in BOOLEAN :
                ~ UpdateTask(p, k, s, r, edits)
          BY <5>1, <5>2 DEF UpdateTask
        <5>7. \A p \in Requests, k \in TaskIds : \A f, s : ~ PersistReassignment(p, f, s, k)
          BY <5>1, <5>2 DEF PersistReassignment
        <5> QED BY <5>3, <5>4, <5>5, <5>6, <5>7 DEF Next
      <4>2. tasks' = TasksWith(request[p].writes) /\ request' = Race(p)
        BY <2>2, <4>1 DEF Commit
      <4>3. p = q
        BY <4>2 DEF Race, Commits, ServiceInv, RequestInv, Fields
      <4> QED BY <4>2, <4>3
    <3>2. FollowLifecycle(TasksWith(request[q].writes))
      BY DEF ServiceInv, RequestInv, StagedInv, Commits
    <3> QED BY <3>1, <3>2 DEF FollowLifecycle
  <2> QED BY <2>1, <2>2
<1> QED BY <1>1, ServiceInvariance, PTL DEF Spec, LifecycleHolds

-----------------------------------------------------------------------------
(* Answers.  Between its first read and its answer a request either leaves *)
(* the rows alone, or commits what it has decided.                         *)

RobotType == [cell |-> Places, status |-> RobotStatuses, task |-> TaskIds \cup {NoTask}]
TaskType == [status |-> TaskStatuses, robot |-> RobotIds \cup {NoRobot}]

AllIn(rows, Row) == \A i \in DOMAIN rows : rows[i] \in Row
UpdatesIn(updates, type) ==
  \A i \in DOMAIN updates :
    DOMAIN updates[i] \subseteq DOMAIN type /\ \A c \in DOMAIN updates[i] : updates[i][c] \in type[c]

RowsTyped ==
  /\ DOMAIN robots \subseteq RobotIds /\ AllIn(robots, RobotRow)
  /\ DOMAIN tasks \subseteq TaskIds /\ AllIn(tasks, TaskRow)

ReqTyped(req) ==
  /\ DOMAIN req = Fields
  /\ req.phase \in {"none", "list_tasks", "write_back", "flush", "done"}
  /\ req.kind \in Kinds \cup {"none"}
  /\ req.phase \in {"list_tasks", "write_back"} => req.kind = "allocation"
  /\ req.code \in {0, 200, 201, 204, 404, 409, 422, 500, 503}
  /\ DOMAIN req.pool \subseteq RobotIds /\ AllIn(req.pool, RobotRow)
  /\ AllIn(req.plan, TaskRow)

(* What a request that has decided will do to which rows, and answer.      *)
Decided(req) ==
  LET w == req.writes IN
  /\ req.code \in {200, 201, 204}
  /\ DOMAIN w.newRobots = (IF req.kind = "create_robot" THEN {req.id} ELSE {})
  /\ DOMAIN w.newTasks = (IF req.kind = "create_task" THEN {req.id} ELSE {})
  /\ w.goneRobots = (IF req.kind = "delete_robot" THEN {req.id} ELSE {})
  /\ w.goneTasks = (IF req.kind = "delete_task" THEN {req.id} ELSE {})
  /\ req.kind \in {"delete_robot", "delete_task"} => req.code = 204
  /\ req.kind \in {"create_robot", "create_task"} =>
       DOMAIN w.robots = {} /\ DOMAIN w.tasks = {}
  /\ DOMAIN w.newRobots \subseteq RobotIds /\ AllIn(w.newRobots, RobotRow)
  /\ DOMAIN w.newTasks \subseteq TaskIds /\ AllIn(w.newTasks, TaskRow)
  /\ UpdatesIn(w.robots, RobotType) /\ UpdatesIn(w.tasks, TaskType)

RowsAreThere(w) == DOMAIN w.robots \subseteq DOMAIN robots /\ DOMAIN w.tasks \subseteq DOMAIN tasks

(* A step of a request that is not its commit.                             *)
MovesTo(q, req) ==
  /\ request' = [request EXCEPT ![q] = req]
  /\ ReqTyped(req)
  /\ \/ req.phase = "done" /\ req.code \in {404, 409, 422, 503}
     \/ req.phase = "flush" /\ Decided(req) /\ RowsAreThere(req.writes)
     \/ req.phase \in {"list_tasks", "write_back"}

Moved(q) ==
  /\ request[q].phase # "done"
  /\ UNCHANGED <<robots, tasks, racedWrite>>
  /\ \E req : MovesTo(q, req)

(* The requests are records; this much of the invariant above is enough.   *)
Shaped == DOMAIN request = Requests /\ \A q \in Requests : DOMAIN request[q] = Fields

LEMMA ServiceIsShaped ==
  ASSUME ServiceInv
  PROVE  Shaped
BY DEF ServiceInv, RequestInv, Shaped

LEMMA NoRowsAreTyped ==
  ASSUME NEW Row
  PROVE  AllIn(NoRows, Row) /\ UpdatesIn(NoRows, Row)
BY NoRowsIsEmpty DEF AllIn, UpdatesIn

LEMMA StepMovesTo ==
  ASSUME NEW q \in Requests, NEW req, request[q].phase # "done",
         request' = [request EXCEPT ![q] = req], UNCHANGED <<robots, tasks, racedWrite>>,
         ReqTyped(req),
         \/ req.phase = "done" /\ req.code \in {404, 409, 422, 503}
         \/ req.phase = "flush" /\ Decided(req) /\ RowsAreThere(req.writes)
         \/ req.phase \in {"list_tasks", "write_back"}
  PROVE  Moved(q)
<1>1. MovesTo(q, req)
  BY DEF MovesTo
<1>. QED  BY <1>1 DEF Moved

LEMMA NoRowsFit ==
  /\ DOMAIN NoRows \subseteq RobotIds
  /\ AllIn(NoRows, RobotRow) /\ AllIn(NoRows, TaskRow)
BY NoRowsIsEmpty DEF AllIn

LEMMA AnswerMoves ==
  ASSUME Shaped, NEW q \in Requests, request[q].phase # "done",
         NEW kind \in Kinds, NEW id, NEW code \in {404, 409, 422, 503},
         Answer(q, kind, id, code)
  PROVE  Moved(q)
<1> DEFINE req == Answered([request[q] EXCEPT !.kind = kind, !.id = id], code)
<1>1. request' = [request EXCEPT ![q] = req] /\ UNCHANGED <<robots, tasks, racedWrite>>
  BY DEF Answer
<1>2. DOMAIN request[q] = Fields
  BY DEF Shaped
<1>3. /\ DOMAIN req = Fields /\ req.phase = "done" /\ req.code = code /\ req.kind = kind
      /\ req.pool = NoRows /\ req.plan = NoRows
  BY <1>2 DEF Answered, Fields
<1> HIDE DEF req
<1>4. ReqTyped(req)
  BY <1>3, NoRowsFit DEF ReqTyped
<1>5. MovesTo(q, req)
  BY <1>1, <1>3, <1>4 DEF MovesTo
<1>. QED  BY <1>1, <1>5 DEF Moved

LEMMA UnavailableMoves ==
  ASSUME Shaped, NEW q \in Requests, ReqTyped(request[q]), Unavailable(q)
  PROVE  Moved(q)
<1> DEFINE req == Answered(request[q], 503)
<1>1. request' = [request EXCEPT ![q] = req] /\ UNCHANGED <<robots, tasks, racedWrite>>
      /\ request[q].phase # "done"
  BY DEF Unavailable
<1>3. /\ DOMAIN req = Fields /\ req.phase = "done" /\ req.code = 503 /\ req.kind = request[q].kind
      /\ req.pool = NoRows /\ req.plan = NoRows
  BY DEF Answered, Fields, ReqTyped
<1> HIDE DEF req
<1>4. ReqTyped(req)
  BY <1>3, NoRowsFit DEF ReqTyped
<1>5. MovesTo(q, req)
  BY <1>1, <1>3, <1>4 DEF MovesTo
<1>. QED  BY <1>1, <1>5 DEF Moved

LEMMA StageMoves ==
  ASSUME Shaped, NEW q \in Requests, request[q].phase # "done",
         NEW kind \in Kinds, NEW id, NEW w, NEW code,
         Stage(q, kind, id, w, code),
         RowsAreThere(w),
         \A req : req.kind = kind /\ req.id = id /\ req.writes = w /\ req.code = code
                    => Decided(req)
  PROVE  Moved(q)
<1> DEFINE req == Staged(request[q], kind, id, w, code)
<1>1. request' = [request EXCEPT ![q] = req] /\ UNCHANGED <<robots, tasks, racedWrite>>
  BY StageIs
<1>2. DOMAIN request[q] = Fields
  BY DEF Shaped
<1>3. /\ DOMAIN req = Fields /\ req.phase = "flush" /\ req.code = code /\ req.kind = kind
      /\ req.id = id /\ req.writes = w /\ req.pool = NoRows /\ req.plan = NoRows
  BY <1>2, StagedFields
<1> HIDE DEF req
<1>4. Decided(req)
  BY <1>3
<1>5. ReqTyped(req)
  BY <1>3, <1>4, NoRowsFit DEF ReqTyped, Decided
<1>. QED  BY <1>1, <1>3, <1>4, <1>5, StepMovesTo

(* The updates of rows that were just read are typed, and the rows there.  *)
LEMMA UpdatesAreTyped ==
  ASSUME NEW loaded, NEW new, NEW type,
         \A i \in DOMAIN loaded \cap DOMAIN new :
           DOMAIN loaded[i] = DOMAIN type /\ \A c \in DOMAIN type : new[i][c] \in type[c]
  PROVE  /\ UpdatesIn(Updates(loaded, new), type)
         /\ DOMAIN Updates(loaded, new) \subseteq DOMAIN loaded
BY DEF UpdatesIn, Updates, Changed

LEMMA RowColumns ==
  /\ \A row \in RobotRow : DOMAIN row = DOMAIN RobotType
                           /\ \A c \in DOMAIN RobotType : row[c] \in RobotType[c]
  /\ \A row \in TaskRow : DOMAIN row = DOMAIN TaskType
                          /\ \A c \in DOMAIN TaskType : row[c] \in TaskType[c]
  /\ DOMAIN RobotType = {"cell", "status", "task"} /\ DOMAIN TaskType = {"status", "robot"}
  /\ RobotType.cell = Places /\ RobotType.status = RobotStatuses
  /\ RobotType.task = TaskIds \cup {NoTask}
  /\ TaskType.status = TaskStatuses /\ TaskType.robot = RobotIds \cup {NoRobot}
BY DEF RobotType, TaskType, RobotRow, TaskRow

LEMMA CreateRobotMoves ==
  ASSUME Shaped, RowsTyped, NEW q \in Requests, NEW r \in RobotIds, NEW c \in Places,
         NEW s \in RobotStatuses, CreateRobot(q, r, c, s)
  PROVE  Moved(q)
<1> DEFINE row == [cell |-> c, status |-> s, task |-> NoTask]
           w == [NoWrites EXCEPT !.newRobots = Single(r, row)]
<1>1. "create_robot" \in Kinds /\ request[q].phase # "done"
  BY DEF CreateRobot, Issue
<1>2. CASE r \in DOMAIN robots \/ IsTaken(c, NoRobot)
  BY <1>1, <1>2, AnswerMoves DEF CreateRobot
<1>3. CASE ~ (r \in DOMAIN robots \/ IsTaken(c, NoRobot))
  <2>1. Stage(q, "create_robot", r, w, 201)
    BY <1>3 DEF CreateRobot
  <2>2. /\ w.newRobots = Single(r, row) /\ w.robots = NoRows /\ w.goneRobots = {}
        /\ w.newTasks = NoRows /\ w.tasks = NoRows /\ w.goneTasks = {}
    BY DEF NoWrites
  <2>3. row \in RobotRow
    BY DEF RobotRow
  <2> HIDE DEF w, row
  <2>4. DOMAIN w.newRobots = {r} /\ AllIn(w.newRobots, RobotRow)
    BY <2>2, <2>3 DEF Single, AllIn
  <2>5. RowsAreThere(w)
    BY <2>2, NoRowsIsEmpty DEF RowsAreThere
  <2>6. ASSUME NEW req, req.kind = "create_robot", req.id = r, req.writes = w, req.code = 201
        PROVE  Decided(req)
    BY <2>2, <2>4, <2>6, NoRowsIsEmpty, NoRowsAreTyped DEF Decided
  <2>. QED  BY <1>1, <2>1, <2>5, <2>6, StageMoves
<1>. QED  BY <1>2, <1>3

LEMMA UpdateRobotMoves ==
  ASSUME Shaped, RowsTyped, NEW q \in Requests, NEW r \in RobotIds,
         NEW c \in Places \cup {Same}, NEW s \in PatchStatuses \cup {Same},
         NEW t \in TaskIds \cup {Same, Clear}, UpdateRobot(q, r, c, s, t)
  PROVE  Moved(q)
<1> DEFINE row == robots[r]
           new == [cell |-> IF c = Same THEN row.cell ELSE c,
                   status |-> IF s = Same THEN row.status ELSE s,
                   task |-> CASE t = Clear -> NoTask [] t = Same -> row.task [] OTHER -> t]
           updates == Updates(Single(r, row), Single(r, new))
           w == [NoWrites EXCEPT !.robots = updates]
<1>1. "update_robot" \in Kinds /\ request[q].phase # "done"
  BY DEF UpdateRobot, Issue
<1>2. CASE \E code \in {404, 409} : Answer(q, "update_robot", r, code)
  BY <1>1, <1>2, AnswerMoves
<1>3. CASE r \in DOMAIN robots /\ Stage(q, "update_robot", r, w, 200)
  <2>1. row \in RobotRow
    BY <1>3 DEF RowsTyped, AllIn
  <2>2. new.cell \in Places /\ new.status \in RobotStatuses /\ new.task \in TaskIds \cup {NoTask}
    <3>1. row.cell \in Places /\ row.status \in RobotStatuses /\ row.task \in TaskIds \cup {NoTask}
      BY <2>1 DEF RobotRow
    <3>2. new.cell \in Places
      BY <3>1
    <3>3. new.status \in RobotStatuses
      BY <3>1
    <3>4. new.task \in TaskIds \cup {NoTask}
      <4>1. CASE t = Clear
        BY <4>1
      <4>2. CASE t = Same
        BY <3>1, <4>2
      <4>3. CASE t \notin {Same, Clear}
        BY <4>3
      <4>. QED  BY <4>1, <4>2, <4>3
    <3>. QED  BY <3>2, <3>3, <3>4
  <2>3. /\ w.newRobots = NoRows /\ w.robots = updates /\ w.goneRobots = {}
        /\ w.newTasks = NoRows /\ w.tasks = NoRows /\ w.goneTasks = {}
    BY DEF NoWrites
  <2> HIDE DEF w, new
  <2>4. /\ DOMAIN Single(r, row) = {r} /\ Single(r, row)[r] = row
        /\ DOMAIN Single(r, new) = {r} /\ Single(r, new)[r] = new
    BY DEF Single
  <2>5. UpdatesIn(updates, RobotType) /\ DOMAIN updates \subseteq {r}
    <3>1. \A x \in DOMAIN RobotType : new[x] \in RobotType[x]
      BY <2>2, RowColumns
    <3>2. DOMAIN row = DOMAIN RobotType
      BY <2>1, RowColumns
    <3>. QED  BY <2>4, <3>1, <3>2, UpdatesAreTyped
  <2> HIDE DEF updates
  <2>6. RowsAreThere(w)
    BY <1>3, <2>3, <2>5, NoRowsIsEmpty DEF RowsAreThere
  <2>7. ASSUME NEW req, req.kind = "update_robot", req.id = r, req.writes = w, req.code = 200
        PROVE  Decided(req)
    BY <2>3, <2>5, <2>7, NoRowsIsEmpty, NoRowsAreTyped DEF Decided
  <2>. QED  BY <1>1, <1>3, <2>6, <2>7, StageMoves
<1>. QED  BY <1>2, <1>3 DEF UpdateRobot

LEMMA DeleteRobotMoves ==
  ASSUME Shaped, NEW q \in Requests, NEW r \in RobotIds, DeleteRobot(q, r)
  PROVE  Moved(q)
<1> DEFINE w == [NoWrites EXCEPT !.goneRobots = {r}]
<1>1. "delete_robot" \in Kinds /\ request[q].phase # "done"
  BY DEF DeleteRobot, Issue
<1>2. CASE r \notin DOMAIN robots
  BY <1>1, <1>2, AnswerMoves DEF DeleteRobot
<1>3. CASE r \in DOMAIN robots
  <2>1. Stage(q, "delete_robot", r, w, 204)
    BY <1>3 DEF DeleteRobot
  <2>2. /\ w.newRobots = NoRows /\ w.robots = NoRows /\ w.goneRobots = {r}
        /\ w.newTasks = NoRows /\ w.tasks = NoRows /\ w.goneTasks = {}
    BY DEF NoWrites
  <2> HIDE DEF w
  <2>3. RowsAreThere(w)
    BY <2>2, NoRowsIsEmpty DEF RowsAreThere
  <2>4. ASSUME NEW req, req.kind = "delete_robot", req.id = r, req.writes = w, req.code = 204
        PROVE  Decided(req)
    BY <2>2, <2>4, NoRowsIsEmpty, NoRowsAreTyped DEF Decided
  <2>. QED  BY <1>1, <2>1, <2>3, <2>4, StageMoves
<1>. QED  BY <1>2, <1>3

LEMMA CreateTaskMoves ==
  ASSUME Shaped, NEW q \in Requests, NEW t \in TaskIds, CreateTask(q, t)
  PROVE  Moved(q)
<1> DEFINE row == [status |-> "pending", robot |-> NoRobot]
           w == [NoWrites EXCEPT !.newTasks = Single(t, row)]
<1>1. "create_task" \in Kinds /\ request[q].phase # "done"
  BY DEF CreateTask, Issue
<1>2. CASE t \in DOMAIN tasks
  BY <1>1, <1>2, AnswerMoves DEF CreateTask
<1>3. CASE t \notin DOMAIN tasks
  <2>1. Stage(q, "create_task", t, w, 201)
    BY <1>3 DEF CreateTask
  <2>2. /\ w.newRobots = NoRows /\ w.robots = NoRows /\ w.goneRobots = {}
        /\ w.newTasks = Single(t, row) /\ w.tasks = NoRows /\ w.goneTasks = {}
    BY DEF NoWrites
  <2>3. row \in TaskRow
    BY DEF TaskRow, TaskStatuses
  <2> HIDE DEF w, row
  <2>4. DOMAIN w.newTasks = {t} /\ AllIn(w.newTasks, TaskRow)
    BY <2>2, <2>3 DEF Single, AllIn
  <2>5. RowsAreThere(w)
    BY <2>2, NoRowsIsEmpty DEF RowsAreThere
  <2>6. ASSUME NEW req, req.kind = "create_task", req.id = t, req.writes = w, req.code = 201
        PROVE  Decided(req)
    BY <2>2, <2>4, <2>6, NoRowsIsEmpty, NoRowsAreTyped DEF Decided
  <2>. QED  BY <1>1, <2>1, <2>5, <2>6, StageMoves
<1>. QED  BY <1>2, <1>3

LEMMA DeleteTaskMoves ==
  ASSUME Shaped, NEW q \in Requests, NEW t \in TaskIds, DeleteTask(q, t)
  PROVE  Moved(q)
<1> DEFINE w == [NoWrites EXCEPT !.goneTasks = {t}]
<1>1. "delete_task" \in Kinds /\ request[q].phase # "done"
  BY DEF DeleteTask, Issue
<1>2. CASE t \notin DOMAIN tasks
  BY <1>1, <1>2, AnswerMoves DEF DeleteTask
<1>3. CASE t \in DOMAIN tasks
  <2>1. Stage(q, "delete_task", t, w, 204)
    BY <1>3 DEF DeleteTask
  <2>2. /\ w.newRobots = NoRows /\ w.robots = NoRows /\ w.goneRobots = {}
        /\ w.newTasks = NoRows /\ w.tasks = NoRows /\ w.goneTasks = {t}
    BY DEF NoWrites
  <2> HIDE DEF w
  <2>3. RowsAreThere(w)
    BY <2>2, NoRowsIsEmpty DEF RowsAreThere
  <2>4. ASSUME NEW req, req.kind = "delete_task", req.id = t, req.writes = w, req.code = 204
        PROVE  Decided(req)
    BY <2>2, <2>4, NoRowsIsEmpty, NoRowsAreTyped DEF Decided
  <2>. QED  BY <1>1, <2>1, <2>3, <2>4, StageMoves
<1>. QED  BY <1>2, <1>3

(* What the body of a PATCH makes of the row of a task is a row.           *)
LEMMA TransitionIsTyped ==
  ASSUME RowsTyped, NEW row \in TaskRow, NEW target \in TaskStatuses, NEW r
  PROVE  /\ Transition(row, target, r).code \in {200, 409, 422}
         /\ Transition(row, target, r).row \in TaskRow
<1> DEFINE out == Transition(row, target, r)
           settled == \/ target = row.status
                      \/ target = "assigned" /\ r \notin DOMAIN robots
                      \/ target \notin Lifecycle[row.status]
                      \/ target = "in_progress" /\ row.robot = NoRobot
           named == CASE target = "assigned" -> r
                      [] target = "pending" -> NoRobot
                      [] OTHER -> row.robot
<1>1. CASE settled
  <2>1. \E code \in {200, 409, 422} : out = [code |-> code, row |-> row]
    BY <1>1 DEF Transition
  <2> HIDE DEF out
  <2>2. out.code \in {200, 409, 422} /\ out.row \in TaskRow
    BY <2>1
  <2>. QED  BY <2>2 DEF out
<1>2. CASE ~ settled
  <2>1. out = [code |-> 200, row |-> [status |-> target, robot |-> named]]
    BY <1>2, Zenon DEF Transition
  <2>2. named \in RobotIds \cup {NoRobot}
    <3>1. CASE target = "assigned"
      BY <1>2, <3>1 DEF RowsTyped
    <3>2. CASE target = "pending"
      BY <3>2
    <3>3. CASE target \notin {"assigned", "pending"}
      BY <3>3 DEF TaskRow
    <3>. QED  BY <3>1, <3>2, <3>3
  <2> HIDE DEF out, named
  <2>3. out.code = 200 /\ out.row \in TaskRow
    BY <2>1, <2>2 DEF TaskRow
  <2>. QED  BY <2>3 DEF out
<1>. QED  BY <1>1, <1>2

LEMMA RepointingIsTyped ==
  ASSUME RowsTyped, NEW row \in TaskRow, NEW r
  PROVE  /\ Repointing(row, r).code \in {200, 422}
         /\ Repointing(row, r).row \in TaskRow
BY DEF Repointing, TaskRow, RowsTyped

LEMMA UpdateTaskMoves ==
  ASSUME Shaped, RowsTyped, NEW q \in Requests, NEW t \in TaskIds,
         NEW target \in TaskStatuses \cup {Same}, NEW r, NEW edits \in BOOLEAN,
         UpdateTask(q, t, target, r, edits)
  PROVE  Moved(q)
<1> DEFINE row == tasks[t]
           out == IF edits /\ row.status # "pending" THEN [code |-> 409, row |-> row]
                  ELSE IF target # Same THEN Transition(row, target, r)
                  ELSE Repointing(row, r)
           updates == Updates(Single(t, row), Single(t, out.row))
           w == [NoWrites EXCEPT !.tasks = updates]
<1>0. "update_task" \in Kinds /\ request[q].phase # "done"
  BY DEF UpdateTask, Issue
<1>1. CASE t \notin DOMAIN tasks
  BY <1>0, <1>1, AnswerMoves DEF UpdateTask
<1>2. CASE t \in DOMAIN tasks
  <2>1. row \in TaskRow
    BY <1>2 DEF RowsTyped, AllIn
  <2>2. out.code \in {200, 409, 422} /\ out.row \in TaskRow
    <3>1. CASE edits /\ row.status # "pending"
      <4>1. out = [code |-> 409, row |-> row]
        BY <3>1
      <4> HIDE DEF out
      <4>. QED  BY <2>1, <4>1
    <3>2. CASE ~ (edits /\ row.status # "pending") /\ target # Same
      <4>1. out = Transition(row, target, r)
        BY <3>2
      <4>. QED  BY <2>1, <3>2, <4>1, TransitionIsTyped
    <3>3. CASE ~ (edits /\ row.status # "pending") /\ target = Same
      <4>1. out = Repointing(row, r)
        BY <3>3
      <4>. QED  BY <2>1, <4>1, RepointingIsTyped
    <3>. QED  BY <3>1, <3>2, <3>3
  <2>3. IF out.code # 200 THEN Answer(q, "update_task", t, out.code)
        ELSE Stage(q, "update_task", t, w, 200)
    BY <1>2 DEF UpdateTask
  <2>4. /\ w.newRobots = NoRows /\ w.robots = NoRows /\ w.goneRobots = {}
        /\ w.newTasks = NoRows /\ w.tasks = updates /\ w.goneTasks = {}
    BY DEF NoWrites
  <2> HIDE DEF w, out
  <2>5. CASE out.code # 200
    BY <1>0, <2>2, <2>3, <2>5, AnswerMoves
  <2>6. CASE out.code = 200
    <3>1. /\ DOMAIN Single(t, row) = {t} /\ Single(t, row)[t] = row
          /\ DOMAIN Single(t, out.row) = {t} /\ Single(t, out.row)[t] = out.row
      BY DEF Single
    <3>2. UpdatesIn(updates, TaskType) /\ DOMAIN updates \subseteq {t}
      <4>1. \A x \in DOMAIN TaskType : out.row[x] \in TaskType[x]
        BY <2>2, RowColumns
      <4>2. DOMAIN row = DOMAIN TaskType
        BY <2>1, RowColumns
      <4>. QED  BY <3>1, <4>1, <4>2, UpdatesAreTyped
    <3> HIDE DEF updates
    <3>3. RowsAreThere(w)
      BY <1>2, <2>4, <3>2, NoRowsIsEmpty DEF RowsAreThere
    <3>4. ASSUME NEW req, req.kind = "update_task", req.id = t, req.writes = w, req.code = 200
          PROVE  Decided(req)
      BY <2>4, <3>2, <3>4, NoRowsIsEmpty, NoRowsAreTyped DEF Decided
    <3>. QED  BY <1>0, <2>3, <2>6, <3>3, <3>4, StageMoves
  <2>. QED  BY <2>5, <2>6
<1>. QED  BY <1>1, <1>2

LEMMA ListFreeRobotsMoves ==
  ASSUME Shaped, RowsTyped, NEW q \in Requests, ReqTyped(request[q]), ListFreeRobots(q)
  PROVE  Moved(q)
<1> DEFINE pool == Restrict(robots, {r \in DOMAIN robots : IsFree(r)})
           req == [request[q] EXCEPT !.phase = "list_tasks", !.kind = "allocation", !.pool = pool]
<1>1. /\ request' = [request EXCEPT ![q] = req] /\ UNCHANGED <<robots, tasks, racedWrite>>
      /\ "allocation" \in Kinds /\ request[q].phase # "done"
  BY DEF ListFreeRobots, Issue
<1>2. DOMAIN pool \subseteq RobotIds /\ AllIn(pool, RobotRow)
  BY DEF AllIn, Restrict, RowsTyped
<1> HIDE DEF pool
<1>3. /\ DOMAIN req = Fields /\ req.phase = "list_tasks" /\ req.kind = "allocation"
      /\ req.pool = pool /\ req.plan = request[q].plan /\ req.code = request[q].code
  BY DEF Fields, ReqTyped
<1> HIDE DEF req
<1>4. ReqTyped(req)
  BY <1>1, <1>2, <1>3 DEF ReqTyped
<1>. QED  BY <1>1, <1>3, <1>4, StepMovesTo

LEMMA AllocateAndCommitMoves ==
  ASSUME Shaped, RowsTyped, NEW q \in Requests, ReqTyped(request[q]), AllocateAndCommit(q)
  PROVE  Moved(q)
<1> DEFINE pool == request[q].pool
           queue == Restrict(tasks, {t \in DOMAIN tasks : tasks[t].status = "pending"})
<1>0. "allocation" \in Kinds /\ request[q].phase = "list_tasks"
  <2>1. request[q].phase = "list_tasks"
    BY DEF AllocateAndCommit
  <2>. QED  BY <2>1 DEF ReqTyped
<1>1. CASE Answer(q, "allocation", NoTask, 422)
  BY <1>0, <1>1, AnswerMoves
<1>2. CASE Stage(q, "allocation", NoTask, NoWrites, 200)
  <2>1. RowsAreThere(NoWrites)
    BY NoRowsIsEmpty DEF RowsAreThere, NoWrites
  <2>2. ASSUME NEW req, req.kind = "allocation", req.id = NoTask, req.writes = NoWrites,
               req.code = 200
        PROVE  Decided(req)
    BY <2>2, NoRowsIsEmpty, NoRowsAreTyped DEF Decided, NoWrites
  <2>. QED  BY <1>0, <1>2, <2>1, <2>2, StageMoves
<1>3. ASSUME NEW m \in Matchings(DOMAIN pool, DOMAIN queue),
             request' = [request EXCEPT ![q].phase = "write_back",
                                        ![q].pool = RobotsAfter(pool, m),
                                        ![q].plan = TasksAfter(queue, m)],
             UNCHANGED <<robots, tasks, racedWrite>>
      PROVE  Moved(q)
  <2> DEFINE rows == RobotsAfter(pool, m)
             plan == TasksAfter(queue, m)
             req == [request[q] EXCEPT !.phase = "write_back", !.pool = rows, !.plan = plan]
  <2>1. request' = [request EXCEPT ![q] = req]
    BY <1>3
  <2>2. /\ DOMAIN m \subseteq DOMAIN queue /\ \A t \in DOMAIN m : m[t] \in DOMAIN pool
    BY DEF Matchings
  <2>3. DOMAIN queue \subseteq TaskIds /\ AllIn(queue, TaskRow)
    BY DEF Restrict, RowsTyped, AllIn
  <2>4. AllIn(pool, RobotRow) /\ DOMAIN pool \subseteq RobotIds
    BY DEF ReqTyped
  <2> HIDE DEF queue, pool
  <2>5. DOMAIN rows \subseteq RobotIds /\ AllIn(rows, RobotRow)
    <3>1. ASSUME NEW r \in DOMAIN pool PROVE rows[r] \in RobotRow
      <4>1. pool[r] \in RobotRow
        BY <2>4 DEF AllIn
      <4>2. CASE r \in Range(m)
        <5>1. (CHOOSE t \in DOMAIN m : m[t] = r) \in TaskIds
          BY <2>2, <2>3, <4>2 DEF Range
        <5>2. rows[r] = [pool[r] EXCEPT !.status = "assigned",
                                        !.task = CHOOSE t \in DOMAIN m : m[t] = r]
          BY <4>2 DEF RobotsAfter
        <5>. QED  BY <4>1, <5>1, <5>2 DEF RobotRow, RobotStatuses
      <4>3. CASE r \notin Range(m)
        BY <4>1, <4>3 DEF RobotsAfter
      <4>. QED  BY <4>2, <4>3
    <3>2. DOMAIN rows = DOMAIN pool
      BY DEF RobotsAfter
    <3>. QED  BY <2>4, <3>1, <3>2 DEF AllIn
  <2>6. AllIn(plan, TaskRow)
    BY <2>2, <2>3, <2>4 DEF AllIn, TasksAfter, TaskRow, TaskStatuses
  <2> HIDE DEF rows, plan
  <2>7. /\ DOMAIN req = Fields /\ req.phase = "write_back" /\ req.kind = request[q].kind
        /\ req.pool = rows /\ req.plan = plan /\ req.code = request[q].code
    BY DEF Fields, ReqTyped
  <2> HIDE DEF req
  <2>8. ReqTyped(req)
    BY <1>0, <2>5, <2>6, <2>7 DEF ReqTyped
  <2>. QED  BY <1>0, <1>3, <2>1, <2>7, <2>8, StepMovesTo
<1>. QED  BY <1>1, <1>2, <1>3 DEF AllocateAndCommit

(* The same, for rows of the two tables.                                   *)
LEMMA RobotUpdates ==
  ASSUME RowsTyped, NEW new, \A r \in DOMAIN robots \cap DOMAIN new : new[r] \in RobotRow
  PROVE  /\ UpdatesIn(Updates(robots, new), RobotType)
         /\ DOMAIN Updates(robots, new) \subseteq DOMAIN robots
<1>1. \A r \in DOMAIN robots \cap DOMAIN new :
        DOMAIN robots[r] = DOMAIN RobotType /\ \A c \in DOMAIN RobotType : new[r][c] \in RobotType[c]
  BY RowColumns DEF RowsTyped, AllIn
<1>. QED  BY <1>1, UpdatesAreTyped

LEMMA TaskUpdates ==
  ASSUME RowsTyped, NEW new, \A t \in DOMAIN tasks \cap DOMAIN new : new[t] \in TaskRow
  PROVE  /\ UpdatesIn(Updates(tasks, new), TaskType)
         /\ DOMAIN Updates(tasks, new) \subseteq DOMAIN tasks
<1>1. \A t \in DOMAIN tasks \cap DOMAIN new :
        DOMAIN tasks[t] = DOMAIN TaskType /\ \A c \in DOMAIN TaskType : new[t][c] \in TaskType[c]
  BY RowColumns DEF RowsTyped, AllIn
<1>. QED  BY <1>1, UpdatesAreTyped

LEMMA TargetIsTyped ==
  ASSUME NEW row \in RobotRow, NEW new, new.status \in RobotStatuses,
         new.task \in TaskIds \cup {NoTask}
  PROVE  RobotTarget(row, new) \in RobotRow
BY DEF RobotTarget, RobotRow

LEMMA WriteBackMoves ==
  ASSUME Shaped, RowsTyped, NEW q \in Requests, ReqTyped(request[q]), WriteBack(q)
  PROVE  Moved(q)
<1> DEFINE pool == request[q].pool
           plan == request[q].plan
           new == [r \in DOMAIN pool \cap DOMAIN robots |-> RobotTarget(robots[r], pool[r])]
           w == [NoWrites EXCEPT !.robots = Updates(robots, new), !.tasks = Updates(tasks, plan)]
<1>1. Stage(q, "allocation", NoTask, w, 200) /\ "allocation" \in Kinds /\ request[q].phase # "done"
  BY DEF WriteBack, ReqTyped
<1>2. /\ w.newRobots = NoRows /\ w.robots = Updates(robots, new) /\ w.goneRobots = {}
      /\ w.newTasks = NoRows /\ w.tasks = Updates(tasks, plan) /\ w.goneTasks = {}
  BY DEF NoWrites
<1>3. AllIn(pool, RobotRow) /\ AllIn(plan, TaskRow)
  BY DEF ReqTyped
<1>4. ASSUME NEW r \in DOMAIN robots \cap DOMAIN new PROVE new[r] \in RobotRow
  <2>1. robots[r] \in RobotRow /\ pool[r] \in RobotRow
    BY <1>3 DEF RowsTyped, AllIn
  <2>2. pool[r].status \in RobotStatuses /\ pool[r].task \in TaskIds \cup {NoTask}
    BY <2>1 DEF RobotRow
  <2>. QED  BY <2>1, <2>2, TargetIsTyped
<1> HIDE DEF w, new, pool, plan
<1>5. UpdatesIn(w.robots, RobotType) /\ DOMAIN w.robots \subseteq DOMAIN robots
  BY <1>2, <1>4, RobotUpdates
<1>6. UpdatesIn(w.tasks, TaskType) /\ DOMAIN w.tasks \subseteq DOMAIN tasks
  <2>1. \A t \in DOMAIN tasks \cap DOMAIN plan : plan[t] \in TaskRow
    BY <1>3 DEF AllIn
  <2>. QED  BY <1>2, <2>1, TaskUpdates
<1>7. RowsAreThere(w)
  BY <1>5, <1>6 DEF RowsAreThere
<1>8. ASSUME NEW req, req.kind = "allocation", req.id = NoTask, req.writes = w, req.code = 200
      PROVE  Decided(req)
  BY <1>2, <1>5, <1>6, <1>8, NoRowsIsEmpty, NoRowsAreTyped DEF Decided
<1>. QED  BY <1>1, <1>7, <1>8, StageMoves

LEMMA PersistReassignmentMoves ==
  ASSUME Shaped, RowsTyped, NEW q \in Requests, NEW f, NEW s, NEW t \in TaskIds,
         PersistReassignment(q, f, s, t)
  PROVE  Moved(q)
<1> DEFINE outcome == Overlaid(Single(f, [status |-> "offline", task |-> NoTask]),
                               Single(s, [status |-> "assigned", task |-> t]))
           new == [r \in {f, s} \cap DOMAIN robots |-> RobotTarget(robots[r], outcome[r])]
           target == [status |-> "assigned", robot |-> s]
           w == [NoWrites EXCEPT !.robots = Updates(robots, new),
                                 !.tasks = Updates(tasks, Single(t, target))]
<1>0. "recovery" \in Kinds /\ request[q].phase # "done" /\ f # s
  BY DEF PersistReassignment, Issue
<1>1. CASE t \notin DOMAIN tasks \/ s \notin DOMAIN robots
  <2>1. Stage(q, "recovery", t, NoWrites, 200)
    BY <1>1 DEF PersistReassignment
  <2>2. RowsAreThere(NoWrites)
    BY NoRowsIsEmpty DEF RowsAreThere, NoWrites
  <2>3. ASSUME NEW req, req.kind = "recovery", req.id = t, req.writes = NoWrites, req.code = 200
        PROVE  Decided(req)
    BY <2>3, NoRowsIsEmpty, NoRowsAreTyped DEF Decided, NoWrites
  <2>. QED  BY <1>0, <2>1, <2>2, <2>3, StageMoves
<1>2. CASE t \in DOMAIN tasks /\ s \in DOMAIN robots
  <2>1. Stage(q, "recovery", t, w, 200)
    BY <1>2 DEF PersistReassignment
  <2>2. /\ w.newRobots = NoRows /\ w.robots = Updates(robots, new) /\ w.goneRobots = {}
        /\ w.newTasks = NoRows /\ w.tasks = Updates(tasks, Single(t, target)) /\ w.goneTasks = {}
    BY DEF NoWrites
  <2>3. \A r \in {f, s} : outcome[r].status \in RobotStatuses /\ outcome[r].task \in TaskIds \cup {NoTask}
    BY <1>0 DEF Overlaid, Single, RobotStatuses
  <2> HIDE DEF outcome
  <2>4. ASSUME NEW r \in DOMAIN robots \cap DOMAIN new PROVE new[r] \in RobotRow
    <3>1. robots[r] \in RobotRow /\ r \in {f, s}
      BY DEF RowsTyped, AllIn
    <3>. QED  BY <2>3, <3>1, TargetIsTyped
  <2>5. target \in TaskRow
    BY <1>2 DEF TaskRow, TaskStatuses, RowsTyped
  <2>6. DOMAIN Single(t, target) = {t} /\ Single(t, target)[t] = target
    BY DEF Single
  <2> HIDE DEF w, new, target
  <2>7. UpdatesIn(w.robots, RobotType) /\ DOMAIN w.robots \subseteq DOMAIN robots
    BY <2>2, <2>4, RobotUpdates
  <2>8. UpdatesIn(w.tasks, TaskType) /\ DOMAIN w.tasks \subseteq DOMAIN tasks
    BY <2>2, <2>5, <2>6, TaskUpdates
  <2>9. RowsAreThere(w)
    BY <2>7, <2>8 DEF RowsAreThere
  <2>10. ASSUME NEW req, req.kind = "recovery", req.id = t, req.writes = w, req.code = 200
         PROVE  Decided(req)
    BY <2>2, <2>7, <2>8, <2>10, NoRowsIsEmpty, NoRowsAreTyped DEF Decided
  <2>. QED  BY <1>0, <2>1, <2>9, <2>10, StageMoves
<1>. QED  BY <1>1, <1>2

LEMMA StepMoves ==
  ASSUME ServiceInv, RowsTyped, \A q \in Requests : ReqTyped(request[q]), Next
  PROVE  \E q \in Requests : Moved(q) \/ Commit(q)
<1>1. PICK q \in Requests :
    \/ \E r \in RobotIds, c \in Places, s \in PatchStatuses : CreateRobot(q, r, c, s)
    \/ \E r \in RobotIds, c \in Places \cup {Same}, s \in PatchStatuses \cup {Same},
          t \in TaskIds \cup {Same, Clear} : UpdateRobot(q, r, c, s, t)
    \/ \E r \in RobotIds : DeleteRobot(q, r)
    \/ \E t \in TaskIds : CreateTask(q, t) \/ DeleteTask(q, t)
    \/ \E t \in TaskIds, s \in TaskStatuses \cup {Same}, r \in RobotIds \cup {Same},
          edits \in BOOLEAN : UpdateTask(q, t, s, r, edits)
    \/ ListFreeRobots(q) \/ AllocateAndCommit(q) \/ WriteBack(q)
    \/ \E f, s \in RobotIds, t \in TaskIds : PersistReassignment(q, f, s, t)
    \/ Commit(q)
    \/ Unavailable(q)
  BY DEF Next
<1>2. ReqTyped(request[q])
  OBVIOUS
<1>3. CASE \E r \in RobotIds :
             \/ \E c \in Places, s \in PatchStatuses : CreateRobot(q, r, c, s)
             \/ \E c \in Places \cup {Same}, s \in PatchStatuses \cup {Same},
                  t \in TaskIds \cup {Same, Clear} : UpdateRobot(q, r, c, s, t)
             \/ DeleteRobot(q, r)
  BY <1>3, CreateRobotMoves, UpdateRobotMoves, DeleteRobotMoves, ServiceIsShaped
<1>4. CASE \E t \in TaskIds : CreateTask(q, t) \/ DeleteTask(q, t)
  BY <1>4, CreateTaskMoves, DeleteTaskMoves, ServiceIsShaped
<1>5. CASE \E t \in TaskIds, s \in TaskStatuses \cup {Same}, r \in RobotIds \cup {Same},
             edits \in BOOLEAN : UpdateTask(q, t, s, r, edits)
  BY <1>5, UpdateTaskMoves, ServiceIsShaped
<1>6. CASE ListFreeRobots(q) \/ AllocateAndCommit(q) \/ WriteBack(q) \/ Unavailable(q)
  BY <1>2, <1>6, ListFreeRobotsMoves, AllocateAndCommitMoves, WriteBackMoves,
     UnavailableMoves, ServiceIsShaped
<1>7. CASE \E f, s \in RobotIds, t \in TaskIds : PersistReassignment(q, f, s, t)
  BY <1>7, PersistReassignmentMoves, ServiceIsShaped
<1>. QED  BY <1>1, <1>3, <1>4, <1>5, <1>6, <1>7

-----------------------------------------------------------------------------
(* What a commit does to the rows and to the answers.                      *)

Wrote(q) ==
  LET w == request[q].writes IN
  /\ request'[q] = Answered(request[q], request[q].code)
  /\ robots' = RobotsWith(w) /\ tasks' = TasksWith(w)
  /\ ~ ConstraintFires(w) /\ RowsAreThere(w)

Refused(q) ==
  /\ \E code \in {409, 500} :
       /\ request'[q] = Answered(request[q], code)
       /\ code = 500 => ~ RowsAreThere(request[q].writes)
       /\ code = 409 => ConstraintFires(request[q].writes)
  /\ UNCHANGED <<robots, tasks>>

(* Another request is at most marked as raced.                             *)
OthersStay(q) ==
  /\ DOMAIN request' = Requests
  /\ \A p \in Requests \ {q} : /\ DOMAIN request'[p] = Fields
                               /\ \A f \in Fields \ {"raced"} : request'[p][f] = request[p][f]

(* The flush is refused only if a key or a missing row is in its way.      *)
LEMMA CommitShape ==
  ASSUME Shaped, NEW q \in Requests, Commit(q)
  PROVE  request[q].phase = "flush" /\ OthersStay(q) /\ (Wrote(q) \/ Refused(q))
<1> DEFINE w == request[q].writes
<1>0. DOMAIN request = Requests /\ \A p \in Requests : DOMAIN request[p] = Fields
  BY DEF Shaped
<1>1. request[q].phase = "flush"
  BY DEF Commit
<1>2. CASE Failure(w) = {}
  <2>1. ~ ConstraintFires(w) /\ RowsAreThere(w)
    BY <1>2 DEF Failure, RowsAreGone, RowsAreThere
  <2>2. robots' = RobotsWith(w) /\ tasks' = TasksWith(w)
    BY <1>2 DEF Commit
  <2>3. \/ request' = [request EXCEPT ![q] = Answered(@, @.code)]
        \/ request' = Race(q)
    BY <1>2 DEF Commit
  <2>4. request'[q] = Answered(request[q], request[q].code)
    BY <1>0, <2>3 DEF Race
  <2>5. OthersStay(q)
    <3>1. CASE request' = [request EXCEPT ![q] = Answered(@, @.code)]
      BY <1>0, <3>1 DEF OthersStay
    <3>2. CASE request' = Race(q)
      BY <1>0, <3>2 DEF OthersStay, Race, Fields
    <3>. QED  BY <2>3, <3>1, <3>2
  <2>. QED  BY <1>1, <2>1, <2>2, <2>4, <2>5 DEF Wrote
<1>3. CASE Failure(w) # {}
  <2>1. PICK code \in Failure(w) : request' = [request EXCEPT ![q] = Answered(@, code)]
    BY <1>3 DEF Commit
  <2>2. /\ code \in {409, 500}
        /\ code = 500 => ~ RowsAreThere(w)
        /\ code = 409 => ConstraintFires(w)
    BY <2>1 DEF Failure, RowsAreGone, RowsAreThere
  <2>3. request'[q] = Answered(request[q], code) /\ UNCHANGED <<robots, tasks>>
    BY <1>0, <1>3, <2>1 DEF Commit
  <2>4. OthersStay(q)
    BY <1>0, <2>1 DEF OthersStay
  <2>. QED  BY <1>1, <2>2, <2>3, <2>4 DEF Refused
<1>. QED  BY <1>2, <1>3

LEMMA AnsweredFields ==
  ASSUME NEW req, DOMAIN req = Fields, NEW code
  PROVE  /\ DOMAIN Answered(req, code) = Fields
         /\ Answered(req, code).phase = "done" /\ Answered(req, code).code = code
         /\ Answered(req, code).kind = req.kind /\ Answered(req, code).id = req.id
         /\ Answered(req, code).pool = NoRows /\ Answered(req, code).plan = NoRows
BY DEF Answered, Fields

LEMMA WithDomains ==
  ASSUME NEW w
  PROVE  /\ DOMAIN RobotsWith(w) = DOMAIN w.newRobots \cup (DOMAIN robots \ w.goneRobots)
         /\ DOMAIN TasksWith(w) = DOMAIN w.newTasks \cup (DOMAIN tasks \ w.goneTasks)
<1> DEFINE rs == Without(Patched(robots, w.robots), w.goneRobots)
           ts == SetNull(Without(Patched(tasks, w.tasks), w.goneTasks), w.goneRobots)
<1>1. DOMAIN rs = DOMAIN robots \ w.goneRobots
  BY DEF Without, Restrict, Patched
<1>2. DOMAIN ts = DOMAIN tasks \ w.goneTasks
  BY DEF SetNull, Without, Restrict, Patched
<1>3. RobotsWith(w) = Overlaid(w.newRobots, rs) /\ TasksWith(w) = Overlaid(w.newTasks, ts)
  BY DEF RobotsWith, TasksWith
<1> HIDE DEF rs, ts
<1>4. DOMAIN RobotsWith(w) = DOMAIN w.newRobots \cup DOMAIN rs
  BY <1>3 DEF Overlaid
<1>5. DOMAIN TasksWith(w) = DOMAIN w.newTasks \cup DOMAIN ts
  BY <1>3 DEF Overlaid
<1>. QED  BY <1>1, <1>2, <1>4, <1>5

(* Rows with updates of their type in them are rows.                       *)
LEMMA PatchedIsTyped ==
  /\ \A rows, updates : AllIn(rows, RobotRow) /\ UpdatesIn(updates, RobotType)
                          => AllIn(Patched(rows, updates), RobotRow)
  /\ \A rows, updates : AllIn(rows, TaskRow) /\ UpdatesIn(updates, TaskType)
                          => AllIn(Patched(rows, updates), TaskRow)
<1>1. ASSUME NEW rows, NEW updates, AllIn(rows, RobotRow), UpdatesIn(updates, RobotType),
             NEW i \in DOMAIN rows
      PROVE  Patched(rows, updates)[i] \in RobotRow
  <2>1. rows[i] \in RobotRow
    BY <1>1 DEF AllIn
  <2>2. CASE i \in DOMAIN updates
    <3> DEFINE new == Overlaid(updates[i], rows[i])
    <3>1. Patched(rows, updates)[i] = new
      BY <2>2 DEF Patched
    <3>2. DOMAIN updates[i] \subseteq {"cell", "status", "task"}
          /\ \A c \in DOMAIN updates[i] : updates[i][c] \in RobotType[c]
      BY <1>1, <2>2, RowColumns DEF UpdatesIn
    <3>3. DOMAIN rows[i] = {"cell", "status", "task"}
          /\ \A c \in DOMAIN rows[i] : rows[i][c] \in RobotType[c]
      BY <2>1, RowColumns
    <3>4. new = [c \in {"cell", "status", "task"} |->
                   IF c \in DOMAIN updates[i] THEN updates[i][c] ELSE rows[i][c]]
      BY <3>2, <3>3 DEF Overlaid
    <3> HIDE DEF new
    <3>5. \A c \in {"cell", "status", "task"} : new[c] \in RobotType[c]
      BY <3>2, <3>3, <3>4
    <3>6. new.cell \in Places /\ new.status \in RobotStatuses /\ new.task \in TaskIds \cup {NoTask}
      BY <3>5, RowColumns
    <3>7. new = [cell |-> new.cell, status |-> new.status, task |-> new.task]
      BY <3>4
    <3>8. new \in RobotRow
      BY <3>6, <3>7 DEF RobotRow
    <3>. QED  BY <3>1, <3>8
  <2>3. CASE i \notin DOMAIN updates
    BY <2>1, <2>3 DEF Patched
  <2>. QED  BY <2>2, <2>3
<1>2. ASSUME NEW rows, NEW updates, AllIn(rows, TaskRow), UpdatesIn(updates, TaskType),
             NEW i \in DOMAIN rows
      PROVE  Patched(rows, updates)[i] \in TaskRow
  <2>1. rows[i] \in TaskRow
    BY <1>2 DEF AllIn
  <2>2. CASE i \in DOMAIN updates
    <3> DEFINE new == Overlaid(updates[i], rows[i])
    <3>1. Patched(rows, updates)[i] = new
      BY <2>2 DEF Patched
    <3>2. DOMAIN updates[i] \subseteq {"status", "robot"}
          /\ \A c \in DOMAIN updates[i] : updates[i][c] \in TaskType[c]
      BY <1>2, <2>2, RowColumns DEF UpdatesIn
    <3>3. DOMAIN rows[i] = {"status", "robot"}
          /\ \A c \in DOMAIN rows[i] : rows[i][c] \in TaskType[c]
      BY <2>1, RowColumns
    <3>4. new = [c \in {"status", "robot"} |->
                   IF c \in DOMAIN updates[i] THEN updates[i][c] ELSE rows[i][c]]
      BY <3>2, <3>3 DEF Overlaid
    <3> HIDE DEF new
    <3>5. \A c \in {"status", "robot"} : new[c] \in TaskType[c]
      BY <3>2, <3>3, <3>4
    <3>6. new.status \in TaskStatuses /\ new.robot \in RobotIds \cup {NoRobot}
      BY <3>5, RowColumns
    <3>7. new = [status |-> new.status, robot |-> new.robot]
      BY <3>4
    <3>8. new \in TaskRow
      BY <3>6, <3>7 DEF TaskRow
    <3>. QED  BY <3>1, <3>8
  <2>3. CASE i \notin DOMAIN updates
    BY <2>1, <2>3 DEF Patched
  <2>. QED  BY <2>2, <2>3
<1>3. \A rows, updates : DOMAIN Patched(rows, updates) = DOMAIN rows
  BY DEF Patched
<1>. QED  BY <1>1, <1>2, <1>3 DEF AllIn

LEMMA OverlaidIsTyped ==
  ASSUME NEW f, NEW g, NEW Row, AllIn(f, Row), AllIn(g, Row)
  PROVE  AllIn(Overlaid(f, g), Row)
BY DEF AllIn, Overlaid

LEMMA WrittenRowsAreTyped ==
  ASSUME RowsTyped, NEW req, Decided(req)
  PROVE  /\ DOMAIN RobotsWith(req.writes) \subseteq RobotIds
         /\ AllIn(RobotsWith(req.writes), RobotRow)
         /\ DOMAIN TasksWith(req.writes) \subseteq TaskIds
         /\ AllIn(TasksWith(req.writes), TaskRow)
<1> DEFINE w == req.writes
           rs == Without(Patched(robots, w.robots), w.goneRobots)
           kept == Without(Patched(tasks, w.tasks), w.goneTasks)
           ts == SetNull(kept, w.goneRobots)
<1>1. AllIn(Patched(robots, w.robots), RobotRow) /\ AllIn(Patched(tasks, w.tasks), TaskRow)
  BY PatchedIsTyped DEF RowsTyped, Decided
<1>2. AllIn(rs, RobotRow)
  BY <1>1 DEF AllIn, Without, Restrict
<1>3. AllIn(kept, TaskRow)
  BY <1>1 DEF AllIn, Without, Restrict
<1> HIDE DEF kept
<1>4. AllIn(ts, TaskRow)
  BY <1>3 DEF AllIn, SetNull, TaskRow
<1>5. RobotsWith(w) = Overlaid(w.newRobots, rs) /\ TasksWith(w) = Overlaid(w.newTasks, ts)
  BY DEF RobotsWith, TasksWith, kept
<1>6. /\ DOMAIN RobotsWith(w) \subseteq RobotIds /\ DOMAIN TasksWith(w) \subseteq TaskIds
  <2>1. /\ DOMAIN RobotsWith(w) = DOMAIN w.newRobots \cup (DOMAIN robots \ w.goneRobots)
        /\ DOMAIN TasksWith(w) = DOMAIN w.newTasks \cup (DOMAIN tasks \ w.goneTasks)
    BY WithDomains
  <2>2. /\ DOMAIN w.newRobots \subseteq RobotIds /\ DOMAIN w.newTasks \subseteq TaskIds
        /\ DOMAIN robots \subseteq RobotIds /\ DOMAIN tasks \subseteq TaskIds
    BY DEF Decided, RowsTyped
  <2> HIDE DEF w
  <2>. QED  BY <2>1, <2>2
<1>7. AllIn(w.newRobots, RobotRow) /\ AllIn(w.newTasks, TaskRow)
  BY DEF Decided
<1> HIDE DEF rs, ts
<1>8. AllIn(RobotsWith(w), RobotRow) /\ AllIn(TasksWith(w), TaskRow)
  BY <1>2, <1>4, <1>5, <1>7, OverlaidIsTyped
<1>. QED  BY <1>6, <1>8

-----------------------------------------------------------------------------
(* The answers agree with the rows, and with one another.                  *)

Undone(q, delete) == \E p \in Requests : request[p].id = request[q].id /\ Said(p, delete, 204)

(* A row whose creation was answered 201 stays until its deletion is       *)
(* answered 204, and until then no other creation of it is.                *)
CreationsHold(create, delete, ids) ==
  \A q \in Requests :
    Said(q, create, 201) =>
      \/ Undone(q, delete)
      \/ /\ request[q].id \in ids
         /\ \A p \in Requests \ {q} : request[p].id = request[q].id => ~ Said(p, create, 201)

DecisionHolds(q) == request[q].phase = "flush" => Decided(request[q])

KeysInv ==
  /\ ServiceInv
  /\ RowsTyped
  /\ racedWrite \in BOOLEAN
  /\ \A q \in Requests : ReqTyped(request[q])
  /\ \A q \in Requests : DecisionHolds(q)
  /\ CreationsHold("create_robot", "delete_robot", DOMAIN robots)
  /\ CreationsHold("create_task", "delete_task", DOMAIN tasks)
  /\ \A q \in Requests :
       request[q].kind \in {"create_robot", "create_task"} /\ request[q].phase = "done"
         => request[q].code # 500

LEMMA InitKeys == Init => KeysInv
<1> SUFFICES ASSUME Init PROVE KeysInv
  OBVIOUS
<1>1. ServiceInv
  BY InitHolds
<1>2. RowsTyped
  <2>1. PICK S \in SUBSET RobotIds : robots \in [S -> StartRows]
    BY DEF Init
  <2>2. PICK T \in SUBSET TaskIds : tasks \in [T -> TaskRow]
    BY DEF Init
  <2>3. \A row \in StartRows : row \in RobotRow
    BY DEF StartRows, RobotRow, RobotStatuses
  <2>. QED  BY <2>1, <2>2, <2>3 DEF RowsTyped, AllIn
<1>3. \A q \in Requests : request[q] = NotIssued
  BY DEF Init
<1>4. /\ NotIssued.phase = "none" /\ NotIssued.kind = "none" /\ NotIssued.code = 0
      /\ NotIssued.pool = NoRows /\ NotIssued.plan = NoRows /\ DOMAIN NotIssued = Fields
  BY DEF NotIssued, Fields
<1>5. \A q \in Requests : ReqTyped(request[q]) /\ request[q].phase = "none"
  BY <1>3, <1>4, NoRowsIsEmpty, NoRowsAreTyped DEF ReqTyped
<1>6. racedWrite \in BOOLEAN
  BY DEF Init
<1>. QED  BY <1>1, <1>2, <1>5, <1>6
          DEF KeysInv, DecisionHolds, CreationsHold, Said

(* What was said stays said, and by whom.                                  *)
LEMMA SaidStays ==
  ASSUME ServiceInv, NEW q \in Requests, request[q].phase # "done", OthersStay(q),
         NEW p \in Requests, NEW kind, NEW code
  PROVE  /\ p # q => (Said(p, kind, code)' <=> Said(p, kind, code))
         /\ Said(p, kind, code) => Said(p, kind, code)' /\ request'[p].id = request[p].id
<1>1. p # q => /\ request'[p].kind = request[p].kind /\ request'[p].code = request[p].code
               /\ request'[p].phase = request[p].phase /\ request'[p].id = request[p].id
  BY DEF OthersStay, Fields
<1>. QED  BY <1>1 DEF Said

LEMMA UndoneStays ==
  ASSUME ServiceInv, NEW q \in Requests, request[q].phase # "done", OthersStay(q),
         NEW p \in Requests, NEW delete, request'[p].id = request[p].id
  PROVE  Undone(p, delete) => Undone(p, delete)'
<1> SUFFICES ASSUME Undone(p, delete) PROVE Undone(p, delete)'
  OBVIOUS
<1>1. PICK x \in Requests : request[x].id = request[p].id /\ Said(x, delete, 204)
  BY DEF Undone
<1>2. Said(x, delete, 204)' /\ request'[x].id = request[x].id
  BY <1>1, SaidStays
<1>. QED  BY <1>1, <1>2 DEF Undone

(* The same of the next state, over the ids it has.                        *)
CreationsHoldNext(create, delete, next) ==
  \A p \in Requests :
    Said(p, create, 201)' =>
      \/ Undone(p, delete)'
      \/ /\ request'[p].id \in next
         /\ \A x \in Requests \ {p} : request'[x].id = request'[p].id => ~ Said(x, create, 201)'

(* A step that takes away no id but one whose deletion it answers, and     *)
(* answers no creation of an id that was there.                            *)
LEMMA CreationsStay ==
  ASSUME ServiceInv, NEW q \in Requests, request[q].phase # "done", OthersStay(q),
         NEW create, NEW delete, NEW ids, NEW next,
         CreationsHold(create, delete, ids),
         ids \subseteq next \/ (request'[q].phase = "done" /\ request'[q].kind = delete
                                /\ request'[q].code = 204 /\ ids \ {request'[q].id} \subseteq next),
         Said(q, create, 201)' => request'[q].id \notin ids /\ request'[q].id \in next
  PROVE  CreationsHoldNext(create, delete, next)
<1> SUFFICES ASSUME NEW p \in Requests, Said(p, create, 201)', ~ Undone(p, delete)'
             PROVE  /\ request'[p].id \in next
                    /\ \A x \in Requests \ {p} :
                         request'[x].id = request'[p].id => ~ Said(x, create, 201)'
  BY DEF CreationsHoldNext
<1>1. \A x \in Requests \ {q} : /\ request'[x].id = request[x].id
                                /\ Said(x, create, 201)' <=> Said(x, create, 201)
  BY SaidStays DEF OthersStay, Fields
<1>2. ASSUME NEW x \in Requests \ {q}, Said(x, create, 201), ~ Undone(x, delete)'
      PROVE  /\ request[x].id \in ids /\ request[x].id \in next
             /\ \A y \in Requests \ {x} : request[y].id = request[x].id => ~ Said(y, create, 201)
  <2>1. ~ Undone(x, delete)
    BY <1>1, <1>2, UndoneStays
  <2>2. ~ (request'[q].id = request'[x].id /\ Said(q, delete, 204)')
    BY <1>2 DEF Undone
  <2>3. request[x].id \in ids
        /\ \A y \in Requests \ {x} : request[y].id = request[x].id => ~ Said(y, create, 201)
    BY <1>2, <2>1 DEF CreationsHold
  <2>4. request[x].id \in next
    BY <1>1, <2>2, <2>3 DEF Said
  <2>. QED  BY <2>3, <2>4
<1>3. CASE p = q
  <2>1. request'[q].id \notin ids /\ request'[q].id \in next
    BY <1>3
  <2>2. ASSUME NEW x \in Requests \ {p}, request'[x].id = request'[p].id, Said(x, create, 201)'
        PROVE  FALSE
    <3>1. Said(x, create, 201) /\ ~ Undone(x, delete)'
      BY <1>1, <1>3, <2>2 DEF Undone
    <3>. QED  BY <1>1, <1>2, <1>3, <2>1, <2>2, <3>1
  <2>. QED  BY <1>3, <2>1, <2>2
<1>4. CASE p # q
  <2>1. Said(p, create, 201) /\ request'[p].id = request[p].id
    BY <1>1, <1>4
  <2>2. /\ request[p].id \in ids /\ request[p].id \in next
        /\ \A y \in Requests \ {p} : request[y].id = request[p].id => ~ Said(y, create, 201)
    BY <1>2, <1>4, <2>1
  <2>3. ASSUME NEW x \in Requests \ {p}, request'[x].id = request'[p].id, Said(x, create, 201)'
        PROVE  FALSE
    <3>1. CASE x = q
      BY <2>1, <2>2, <2>3, <3>1
    <3>2. CASE x # q
      BY <1>1, <2>1, <2>2, <2>3, <3>2
    <3>. QED  BY <3>1, <3>2
  <2>. QED  BY <2>1, <2>2, <2>3
<1>. QED  BY <1>3, <1>4

LEMMA MovedLeavesOthers ==
  ASSUME ServiceInv, NEW q \in Requests, Moved(q)
  PROVE  OthersStay(q)
BY DEF Moved, MovesTo, OthersStay, ServiceInv, RequestInv

LEMMA DecisionsStay ==
  ASSUME NEW q \in Requests, OthersStay(q), NEW p \in Requests \ {q}, DecisionHolds(p)
  PROVE  DecisionHolds(p)'
<1>1. /\ request'[p].phase = request[p].phase /\ request'[p].kind = request[p].kind
      /\ request'[p].id = request[p].id /\ request'[p].code = request[p].code
      /\ request'[p].writes = request[p].writes
  BY DEF OthersStay, Fields
<1>. QED  BY <1>1 DEF DecisionHolds, Decided

LEMMA TypesOfOthersStay ==
  ASSUME ServiceInv, NEW q \in Requests, OthersStay(q), NEW p \in Requests \ {q},
         ReqTyped(request[p])
  PROVE  ReqTyped(request[p])'
<1>1. /\ DOMAIN request'[p] = Fields
      /\ request'[p].phase = request[p].phase /\ request'[p].kind = request[p].kind
      /\ request'[p].code = request[p].code
      /\ request'[p].pool = request[p].pool /\ request'[p].plan = request[p].plan
  BY DEF OthersStay, Fields
<1>. QED  BY <1>1 DEF ReqTyped

LEMMA MovedKeepsKeys ==
  ASSUME KeysInv, NEW q \in Requests, Moved(q), ServiceInv'
  PROVE  KeysInv'
<1>0. ServiceInv
  BY DEF KeysInv
<1>1. request[q].phase # "done" /\ UNCHANGED <<robots, tasks, racedWrite>> /\ OthersStay(q)
  BY <1>0, MovedLeavesOthers DEF Moved
<1>2. /\ ReqTyped(request[q])'
      /\ \/ request'[q].phase = "done" /\ request'[q].code \in {404, 409, 422, 503}
         \/ /\ request'[q].phase = "flush" /\ Decided(request[q])'
            /\ RowsAreThere(request'[q].writes)
         \/ request'[q].phase \in {"list_tasks", "write_back"}
  <2>0. PICK req : MovesTo(q, req)
    BY DEF Moved
  <2>1. /\ request' = [request EXCEPT ![q] = req] /\ ReqTyped(req)
        /\ \/ req.phase = "done" /\ req.code \in {404, 409, 422, 503}
           \/ req.phase = "flush" /\ Decided(req) /\ RowsAreThere(req.writes)
           \/ req.phase \in {"list_tasks", "write_back"}
    BY <2>0 DEF MovesTo
  <2>2. request'[q] = req
    BY <1>0, <2>1 DEF ServiceInv
  <2>3. ReqTyped(request'[q]) /\ (Decided(req) => Decided(request'[q]))
    BY <2>1, <2>2
  <2>4. ReqTyped(request[q])' /\ (Decided(req) => Decided(request[q])')
    BY <2>3 DEF ReqTyped, Decided
  <2>. QED  BY <2>1, <2>2, <2>4
<1>3. RowsTyped' /\ (racedWrite \in BOOLEAN)'
  BY <1>1 DEF KeysInv, RowsTyped
<1>4. ASSUME NEW p \in Requests PROVE ReqTyped(request[p])' /\ DecisionHolds(p)'
  <2>1. CASE p = q
    <3>1. DecisionHolds(q)'
      BY <1>1, <1>2 DEF DecisionHolds, RowsAreThere
    <3>. QED  BY <1>2, <2>1, <3>1
  <2>2. CASE p # q
    BY <1>0, <1>1, <2>2, DecisionsStay, TypesOfOthersStay DEF KeysInv
  <2>. QED  BY <2>1, <2>2
<1>5. ~ Said(q, "create_robot", 201)' /\ ~ Said(q, "create_task", 201)'
  BY <1>2 DEF Said
<1>6. CreationsHold("create_robot", "delete_robot", DOMAIN robots)'
  <2>1. CreationsHold("create_robot", "delete_robot", DOMAIN robots)
    BY DEF KeysInv
  <2>2. DOMAIN robots \subseteq DOMAIN robots'
    BY <1>1
  <2>3. CreationsHoldNext("create_robot", "delete_robot", DOMAIN robots')
    BY <1>0, <1>1, <1>5, <2>1, <2>2, CreationsStay
  <2>. QED  BY <2>3 DEF CreationsHold, CreationsHoldNext
<1>7. CreationsHold("create_task", "delete_task", DOMAIN tasks)'
  <2>1. CreationsHold("create_task", "delete_task", DOMAIN tasks)
    BY DEF KeysInv
  <2>2. DOMAIN tasks \subseteq DOMAIN tasks'
    BY <1>1
  <2>3. CreationsHoldNext("create_task", "delete_task", DOMAIN tasks')
    BY <1>0, <1>1, <1>5, <2>1, <2>2, CreationsStay
  <2>. QED  BY <2>3 DEF CreationsHold, CreationsHoldNext
<1>9. ASSUME NEW p \in Requests, request'[p].kind \in {"create_robot", "create_task"},
             request'[p].phase = "done"
      PROVE  request'[p].code # 500
  BY <1>1, <1>2, <1>9 DEF KeysInv, OthersStay, Fields
<1>. QED  BY <1>3, <1>4, <1>6, <1>7, <1>9 DEF KeysInv

LEMMA CommitKeepsKeys ==
  ASSUME KeysInv, NEW q \in Requests, Commit(q), ServiceInv'
  PROVE  KeysInv'
<1> DEFINE w == request[q].writes
<1>0. ServiceInv /\ ReqTyped(request[q])
  BY DEF KeysInv
<1>1. request[q].phase = "flush" /\ OthersStay(q) /\ (Wrote(q) \/ Refused(q))
  BY <1>0, CommitShape, ServiceIsShaped
<1>2. Decided(request[q])
  BY <1>1 DEF KeysInv, DecisionHolds
<1>3. PICK code : /\ request'[q] = Answered(request[q], code)
                  /\ \/ code = request[q].code /\ Wrote(q)
                     \/ /\ code \in {409, 500} /\ (code = 500 => ~ RowsAreThere(w))
                        /\ UNCHANGED <<robots, tasks>>
  BY <1>1 DEF Wrote, Refused
<1>4. /\ DOMAIN request'[q] = Fields /\ request'[q].phase = "done" /\ request'[q].code = code
      /\ request'[q].kind = request[q].kind /\ request'[q].id = request[q].id
      /\ request'[q].pool = NoRows /\ request'[q].plan = NoRows
  BY <1>0, <1>3, AnsweredFields DEF ReqTyped
<1>5. /\ request[q].code \in {200, 201, 204}
      /\ request[q].kind \in {"create_robot", "create_task"} => RowsAreThere(w)
      /\ request[q].kind \in {"delete_robot", "delete_task"} => request[q].code = 204
  BY <1>2, <1>1 DEF Decided, RowsAreThere
<1>6. code \in {200, 201, 204, 409, 500}
  BY <1>3, <1>5
<1>7. ReqTyped(request[q])'
  BY <1>0, <1>4, <1>6, NoRowsIsEmpty, NoRowsAreTyped DEF ReqTyped
<1>8. RowsTyped'
  <2>1. CASE Wrote(q)
    <3>1. robots' = RobotsWith(w) /\ tasks' = TasksWith(w)
      BY <2>1 DEF Wrote
    <3>2. /\ DOMAIN RobotsWith(w) \subseteq RobotIds /\ AllIn(RobotsWith(w), RobotRow)
          /\ DOMAIN TasksWith(w) \subseteq TaskIds /\ AllIn(TasksWith(w), TaskRow)
      BY <1>2, WrittenRowsAreTyped DEF KeysInv
    <3> HIDE DEF w
    <3>3. /\ DOMAIN robots' \subseteq RobotIds /\ AllIn(robots', RobotRow)
          /\ DOMAIN tasks' \subseteq TaskIds /\ AllIn(tasks', TaskRow)
      BY <3>1, <3>2
    <3>. QED  BY <3>3 DEF RowsTyped, AllIn
  <2>2. CASE UNCHANGED <<robots, tasks>>
    BY <2>2 DEF KeysInv, RowsTyped, AllIn
  <2>. QED  BY <1>3, <2>1, <2>2
<1>9. /\ Wrote(q) => /\ DOMAIN robots' = DOMAIN w.newRobots \cup (DOMAIN robots \ w.goneRobots)
                     /\ DOMAIN tasks' = DOMAIN w.newTasks \cup (DOMAIN tasks \ w.goneTasks)
      /\ DOMAIN w.newRobots = (IF request[q].kind = "create_robot" THEN {request[q].id} ELSE {})
      /\ DOMAIN w.newTasks = (IF request[q].kind = "create_task" THEN {request[q].id} ELSE {})
      /\ w.goneRobots = (IF request[q].kind = "delete_robot" THEN {request[q].id} ELSE {})
      /\ w.goneTasks = (IF request[q].kind = "delete_task" THEN {request[q].id} ELSE {})
  <2>1. DOMAIN RobotsWith(w) = DOMAIN w.newRobots \cup (DOMAIN robots \ w.goneRobots)
        /\ DOMAIN TasksWith(w) = DOMAIN w.newTasks \cup (DOMAIN tasks \ w.goneTasks)
    BY WithDomains
  <2>2. Wrote(q) => robots' = RobotsWith(w) /\ tasks' = TasksWith(w)
    BY DEF Wrote
  <2>3. /\ DOMAIN w.newRobots = (IF request[q].kind = "create_robot" THEN {request[q].id} ELSE {})
        /\ DOMAIN w.newTasks = (IF request[q].kind = "create_task" THEN {request[q].id} ELSE {})
        /\ w.goneRobots = (IF request[q].kind = "delete_robot" THEN {request[q].id} ELSE {})
        /\ w.goneTasks = (IF request[q].kind = "delete_task" THEN {request[q].id} ELSE {})
    BY <1>2 DEF Decided
  <2> HIDE DEF w
  <2>. QED  BY <2>1, <2>2, <2>3
<1>10. Wrote(q) => /\ DOMAIN w.newRobots \cap DOMAIN robots = {}
                   /\ DOMAIN w.newTasks \cap DOMAIN tasks = {}
  BY DEF Wrote, ConstraintFires
<1> HIDE DEF w
<1>11. \/ DOMAIN robots \subseteq DOMAIN robots'
       \/ /\ request'[q].kind = "delete_robot" /\ request'[q].code = 204
          /\ DOMAIN robots \ {request'[q].id} \subseteq DOMAIN robots'
  <2>1. CASE Wrote(q) /\ code = request[q].code
    BY <1>4, <1>5, <1>9, <2>1
  <2>2. CASE UNCHANGED <<robots, tasks>>
    BY <2>2
  <2>. QED  BY <1>3, <2>1, <2>2
<1>12. \/ DOMAIN tasks \subseteq DOMAIN tasks'
       \/ /\ request'[q].kind = "delete_task" /\ request'[q].code = 204
          /\ DOMAIN tasks \ {request'[q].id} \subseteq DOMAIN tasks'
  <2>1. CASE Wrote(q) /\ code = request[q].code
    BY <1>4, <1>5, <1>9, <2>1
  <2>2. CASE UNCHANGED <<robots, tasks>>
    BY <2>2
  <2>. QED  BY <1>3, <2>1, <2>2
<1>13. ASSUME NEW p \in Requests PROVE ReqTyped(request[p])' /\ DecisionHolds(p)'
  <2>1. CASE p = q
    BY <1>4, <1>7, <2>1 DEF DecisionHolds
  <2>2. CASE p # q
    BY <1>0, <1>1, <2>2, DecisionsStay, TypesOfOthersStay DEF KeysInv
  <2>. QED  BY <2>1, <2>2
<1>14. CreationsHold("create_robot", "delete_robot", DOMAIN robots)'
  <2>1. CreationsHold("create_robot", "delete_robot", DOMAIN robots)
    BY DEF KeysInv
  <2>2. Said(q, "create_robot", 201)'
          => request'[q].id \notin DOMAIN robots /\ request'[q].id \in DOMAIN robots'
    <3>1. ASSUME request[q].kind = "create_robot", code = 201, Wrote(q)
          PROVE  request[q].id \notin DOMAIN robots /\ request[q].id \in DOMAIN robots'
      BY <1>9, <1>10, <3>1
    <3>. QED  BY <1>3, <1>4, <3>1 DEF Said
  <2>3. CreationsHoldNext("create_robot", "delete_robot", DOMAIN robots')
    BY <1>0, <1>1, <1>4, <1>11, <2>1, <2>2, CreationsStay
  <2>. QED  BY <2>3 DEF CreationsHold, CreationsHoldNext
<1>15. CreationsHold("create_task", "delete_task", DOMAIN tasks)'
  <2>1. CreationsHold("create_task", "delete_task", DOMAIN tasks)
    BY DEF KeysInv
  <2>2. Said(q, "create_task", 201)'
          => request'[q].id \notin DOMAIN tasks /\ request'[q].id \in DOMAIN tasks'
    <3>1. ASSUME request[q].kind = "create_task", code = 201, Wrote(q)
          PROVE  request[q].id \notin DOMAIN tasks /\ request[q].id \in DOMAIN tasks'
      BY <1>9, <1>10, <3>1
    <3>. QED  BY <1>3, <1>4, <3>1 DEF Said
  <2>3. CreationsHoldNext("create_task", "delete_task", DOMAIN tasks')
    BY <1>0, <1>1, <1>4, <1>12, <2>1, <2>2, CreationsStay
  <2>. QED  BY <2>3 DEF CreationsHold, CreationsHoldNext
<1>17. ASSUME NEW p \in Requests, request'[p].kind \in {"create_robot", "create_task"},
              request'[p].phase = "done"
       PROVE  request'[p].code # 500
  <2>1. CASE p = q
    BY <1>3, <1>4, <1>5, <1>17, <2>1
  <2>2. CASE p # q
    BY <1>1, <1>17, <2>2 DEF KeysInv, OthersStay, Fields
  <2>. QED  BY <2>1, <2>2
<1>18. (racedWrite \in BOOLEAN)'
  BY DEF Commit, KeysInv
<1>. QED  BY <1>8, <1>13, <1>14, <1>15, <1>17, <1>18 DEF KeysInv

(* The rows keep their types, what a request has decided and what it was   *)
(* answered agree with them, through every interleaving of the requests.   *)
THEOREM KeysInvariance == Spec => []KeysInv
<1>1. ASSUME KeysInv, [Next]_vars, ServiceInv' PROVE KeysInv'
  <2>1. CASE Next
    <3>1. PICK q \in Requests : Moved(q) \/ Commit(q)
      BY <1>1, <2>1, StepMoves DEF KeysInv
    <3>. QED  BY <1>1, <3>1, MovedKeepsKeys, CommitKeepsKeys
  <2>2. CASE UNCHANGED vars
    BY <1>1, <2>2 DEF vars, KeysInv, RowsTyped, AllIn, ReqTyped, DecisionHolds, Decided,
                      UpdatesIn, CreationsHold, Undone, Said
  <2>. QED  BY <1>1, <2>1, <2>2
<1>. QED  BY <1>1, InitKeys, ServiceInvariance, PTL DEF Spec

(* However creations, deletions and assignments overlap, one creation of   *)
(* an id is answered 201 unless it was deleted in between, none with a     *)
(* 500, and no task points at a robot without a row (models.py, the keys;  *)
(* the answers of robot_service.py and task_service.py).                   *)
THEOREM KeysAlwaysHold == Spec => []KeysHold
<1>1. KeysInv => KeysHold
  <2> SUFFICES ASSUME KeysInv PROVE KeysHold
    OBVIOUS
  <2>1. PointersResolve
    BY DEF KeysInv, ServiceInv, RowsInv
  <2>2. \A rows, Row : AllIn(rows, Row) => Range(rows) \subseteq Row
    BY DEF AllIn, Range
  <2>3. TypeOK
    BY <2>2 DEF KeysInv, RowsTyped, ReqTyped, TypeOK
  <2>4. OneCreateWins
    <3>1. ASSUME NEW q \in Requests, Said(q, "create_robot", 201),
                 ~ \E p \in Requests : request[p].id = request[q].id /\ Said(p, "delete_robot", 204)
          PROVE  /\ request[q].id \in DOMAIN robots
                 /\ \A p \in Requests \ {q} : request[p].id = request[q].id
                                                => ~ Said(p, "create_robot", 201)
      BY <3>1 DEF KeysInv, CreationsHold, Undone
    <3>2. ASSUME NEW q \in Requests, Said(q, "create_task", 201),
                 ~ \E p \in Requests : request[p].id = request[q].id /\ Said(p, "delete_task", 204)
          PROVE  /\ request[q].id \in DOMAIN tasks
                 /\ \A p \in Requests \ {q} : request[p].id = request[q].id
                                                => ~ Said(p, "create_task", 201)
      BY <3>2 DEF KeysInv, CreationsHold, Undone
    <3>3. \A q \in Requests :
            request[q].kind \in {"create_robot", "create_task"} /\ request[q].phase = "done"
              => request[q].code # 500
      BY DEF KeysInv
    <3>4. ASSUME NEW q \in Requests, request[q].phase = "done", request[q].code = 201,
                 request[q].kind = "create_robot"
          PROVE  Said(q, "create_robot", 201)
      BY <3>4 DEF Said
    <3>5. ASSUME NEW q \in Requests, request[q].phase = "done", request[q].code = 201,
                 request[q].kind = "create_task"
          PROVE  Said(q, "create_task", 201)
      BY <3>5 DEF Said
    <3>. QED  BY <3>1, <3>2, <3>3, <3>4, <3>5 DEF OneCreateWins
  <2>. QED  BY <2>1, <2>3, <2>4 DEF KeysHold
<1>. QED  BY <1>1, KeysInvariance, PTL

(* What a request has decided to update it can only lose to a deletion.    *)
LEMMA MovedLosesNothing ==
  ASSUME KeysInv, NEW q \in Requests, Moved(q), NEW p \in Requests
  PROVE  ErrsForALostRow(p) /\ LosesToDeletions(p)
<1>0. Shaped
  BY ServiceIsShaped DEF KeysInv
<1>1. PICK req : MovesTo(q, req)
  BY DEF Moved
<1>2. UNCHANGED <<robots, tasks>>
  BY DEF Moved
<1>3. CASE p = q
  <2>1. request'[q] = req
    BY <1>0, <1>1 DEF MovesTo, Shaped
  <2>2. ErrsForALostRow(q)
    BY <1>1, <2>1 DEF MovesTo, ErrsForALostRow
  <2>3. ASSUME req.phase = "flush" PROVE LostRobots(q)' = {} /\ LostTasks(q)' = {}
    <3>1. RowsAreThere(req.writes)
      BY <1>1, <2>3 DEF MovesTo
    <3>. QED  BY <1>2, <2>1, <3>1 DEF RowsAreThere, LostRobots, LostTasks
  <2>. QED  BY <1>3, <2>1, <2>2, <2>3 DEF LosesToDeletions
<1>4. CASE p # q
  <2>1. request'[p] = request[p]
    BY <1>0, <1>1, <1>4 DEF MovesTo, Shaped
  <2>2. LostRobots(p)' = LostRobots(p) /\ LostTasks(p)' = LostTasks(p)
    BY <1>2, <2>1 DEF LostRobots, LostTasks
  <2>. QED  BY <2>1, <2>2 DEF ErrsForALostRow, LosesToDeletions
<1>. QED  BY <1>3, <1>4

LEMMA CommitLosesToDeletions ==
  ASSUME KeysInv, NEW q \in Requests, Commit(q), NEW p \in Requests
  PROVE  ErrsForALostRow(p) /\ LosesToDeletions(p)
<1> DEFINE w == request[q].writes
<1>0. Shaped /\ DOMAIN request[q] = Fields
  BY ServiceIsShaped DEF KeysInv, Shaped
<1>1. request[q].phase = "flush" /\ OthersStay(q) /\ (Wrote(q) \/ Refused(q))
  BY <1>0, CommitShape
<1>2. Decided(request[q])
  BY <1>1 DEF KeysInv, DecisionHolds
<1>3. PICK code : /\ request'[q] = Answered(request[q], code)
                  /\ \/ code = request[q].code /\ Wrote(q)
                     \/ /\ code \in {409, 500} /\ (code = 500 => ~ RowsAreThere(w))
                        /\ UNCHANGED <<robots, tasks>>
  BY <1>1 DEF Wrote, Refused
<1>4. request'[q].phase = "done" /\ request'[q].code = code
  BY <1>0, <1>3, AnsweredFields
<1>5. CASE p = q
  <2>1. ASSUME code = 500 PROVE LostRobots(q) \cup LostTasks(q) # {}
    <3>1. ~ RowsAreThere(w)
      BY <1>2, <1>3, <2>1 DEF Decided
    <3>. QED  BY <3>1 DEF RowsAreThere, LostRobots, LostTasks
  <2>. QED  BY <1>1, <1>4, <1>5, <2>1 DEF ErrsForALostRow, LosesToDeletions, Commits
<1>6. CASE p # q
  <2>1. request'[p].phase = request[p].phase /\ request'[p].writes = request[p].writes
    BY <1>1, <1>6 DEF OthersStay, Fields
  <2>2. ErrsForALostRow(p)
    BY <2>1 DEF ErrsForALostRow
  <2>3. ASSUME Wrote(q)
        PROVE  /\ \A r \in DOMAIN robots \ DOMAIN robots' : Deletes(q, "delete_robot", r)
               /\ \A t \in DOMAIN tasks \ DOMAIN tasks' : Deletes(q, "delete_task", t)
    <3>1. /\ DOMAIN robots' = DOMAIN w.newRobots \cup (DOMAIN robots \ w.goneRobots)
          /\ DOMAIN tasks' = DOMAIN w.newTasks \cup (DOMAIN tasks \ w.goneTasks)
      BY <2>3, WithDomains DEF Wrote
    <3>2. /\ w.goneRobots = (IF request[q].kind = "delete_robot" THEN {request[q].id} ELSE {})
          /\ w.goneTasks = (IF request[q].kind = "delete_task" THEN {request[q].id} ELSE {})
          /\ request[q].kind \in {"delete_robot", "delete_task"} => request[q].code = 204
      BY <1>2 DEF Decided
    <3>3. request'[q].code = request[q].code
      BY <1>0, <2>3, AnsweredFields DEF Wrote
    <3> HIDE DEF w
    <3>. QED  BY <1>1, <1>4, <3>1, <3>2, <3>3 DEF Deletes, Commits
  <2>4. /\ \A r \in LostRobots(p)' \ LostRobots(p) : r \in DOMAIN robots \ DOMAIN robots'
        /\ \A t \in LostTasks(p)' \ LostTasks(p) : t \in DOMAIN tasks \ DOMAIN tasks'
    BY <2>1 DEF LostRobots, LostTasks
  <2>5. LosesToDeletions(p)
    <3>1. CASE Wrote(q)
      BY <1>6, <2>3, <2>4, <3>1 DEF LosesToDeletions
    <3>2. CASE UNCHANGED <<robots, tasks>>
      BY <2>4, <3>2 DEF LosesToDeletions
    <3>. QED  BY <1>3, <3>1, <3>2
  <2>. QED  BY <2>2, <2>5
<1>. QED  BY <1>5, <1>6

(* A server error answers only a request that has lost a row it updates,   *)
(* and such a row is lost only to the deletion of that very row by another *)
(* request, answered 204 after this one had decided and before it wrote    *)
(* (StaleDataError, which no handler of errors.py knows).                  *)
THEOREM OnlyDeletionsCauseErrors == Spec => ErrorsNeedADeletion
<1>1. ASSUME KeysInv, [Next]_vars
      PROVE  [\A q \in Requests : ErrsForALostRow(q) /\ LosesToDeletions(q)]_vars
  <2>1. CASE Next
    <3>1. PICK p \in Requests : Moved(p) \/ Commit(p)
      BY <1>1, <2>1, StepMoves DEF KeysInv
    <3>. QED  BY <1>1, <3>1, MovedLosesNothing, CommitLosesToDeletions
  <2>. QED  BY <1>1, <2>1
<1>. QED  BY <1>1, KeysInvariance, PTL DEF Spec, ErrorsNeedADeletion

-----------------------------------------------------------------------------
(* An allocation nobody interfered with.  What it has read is still so     *)
(* when it writes: a commit that changes rows marks it as raced.           *)

FreeRobots == Restrict(robots, {r \in DOMAIN robots : IsFree(r)})
PendingTasks == Restrict(tasks, {t \in DOMAIN tasks : tasks[t].status = "pending"})

(* A pool and a plan that some matching of what is free would leave.       *)
Matched(pool, plan) ==
  \E m \in Matchings(DOMAIN FreeRobots, DOMAIN PendingTasks) :
    pool = RobotsAfter(FreeRobots, m) /\ plan = TasksAfter(PendingTasks, m)

(* Tables that differ from those of now by assignments of what is free.    *)
TakesWhatIsFree(rs, ts) ==
  /\ \A t \in DOMAIN tasks :
       ts[t] # tasks[t] =>
         tasks[t].status = "pending" /\ ts[t].status = "assigned" /\ rs[ts[t].robot].task = t
  /\ \A r \in DOMAIN robots :
       rs[r] # robots[r] =>
         robots[r].status = "idle" /\ robots[r].task = NoTask /\ ts[rs[r].task].robot = r

AllocInv(req) ==
  ~ req.raced =>
    /\ req.phase = "list_tasks" => req.pool = FreeRobots
    /\ req.phase = "write_back" => Matched(req.pool, req.plan)
    /\ req.phase = "flush" /\ req.kind = "allocation" =>
         TakesWhatIsFree(RobotsWith(req.writes), TasksWith(req.writes))

LEMMA RowsAreTheirColumns ==
  /\ \A a, b \in RobotRow : a.cell = b.cell /\ a.status = b.status /\ a.task = b.task => a = b
  /\ \A a, b \in TaskRow : a.status = b.status /\ a.robot = b.robot => a = b
BY DEF RobotRow, TaskRow

LEMMA RowsHaveColumns ==
  ASSUME RowsTyped
  PROVE  HaveColumns(robots, RobotColumns) /\ HaveColumns(tasks, TaskColumns)
BY DEF RowsTyped, AllIn, HaveColumns, RobotRow, TaskRow, RobotColumns, TaskColumns

(* Writes that leave new in some rows, once they are in the tables.        *)
LEMMA WithUpdates ==
  ASSUME RowsTyped, NEW w, WritesAreTyped(w), w.newRobots = NoRows, w.newTasks = NoRows,
         w.goneRobots = {}, w.goneTasks = {}, NEW newRobots, NEW newTasks,
         w.robots = Updates(robots, newRobots), w.tasks = Updates(tasks, newTasks)
  PROVE  /\ DOMAIN RobotsWith(w) = DOMAIN robots /\ DOMAIN TasksWith(w) = DOMAIN tasks
         /\ \A r \in DOMAIN robots : \A c \in RobotColumns :
              RobotsWith(w)[r][c] = IF r \in DOMAIN newRobots THEN newRobots[r][c] ELSE robots[r][c]
         /\ \A t \in DOMAIN tasks : \A c \in TaskColumns :
              TasksWith(w)[t][c] = IF t \in DOMAIN newTasks THEN newTasks[t][c] ELSE tasks[t][c]
<1>1. DOMAIN RobotsWith(w) = DOMAIN robots /\ DOMAIN TasksWith(w) = DOMAIN tasks
  BY WithDomains, NoRowsIsEmpty
<1>2. HaveColumns(robots, RobotColumns) /\ HaveColumns(tasks, TaskColumns)
  BY RowsHaveColumns
<1>3. /\ Become(robots, w.robots, RobotColumns, newRobots)
      /\ Become(tasks, w.tasks, TaskColumns, newTasks)
  BY <1>2, UpdatesBecome
<1>4. ASSUME NEW r \in DOMAIN robots PROVE RobotsWith(w)[r] = Patched(robots, w.robots)[r]
  BY <1>1, <1>2, NoRowsIsEmpty, RobotsWithRow
<1>5. ASSUME NEW t \in DOMAIN tasks
      PROVE  /\ TasksWith(w)[t].status = Patched(tasks, w.tasks)[t].status
             /\ TasksWith(w)[t].robot = Patched(tasks, w.tasks)[t].robot
  BY <1>1, <1>2, NoRowsIsEmpty, TasksWithRow
<1>6. \A r \in DOMAIN robots : \A c \in RobotColumns :
        RobotsWith(w)[r][c] = IF r \in DOMAIN newRobots THEN newRobots[r][c] ELSE robots[r][c]
  BY <1>3, <1>4 DEF Become
<1>7. ASSUME NEW t \in DOMAIN tasks, NEW c \in TaskColumns
      PROVE  TasksWith(w)[t][c] = IF t \in DOMAIN newTasks THEN newTasks[t][c] ELSE tasks[t][c]
  BY <1>3, <1>5 DEF Become, TaskColumns
<1>. QED  BY <1>1, <1>6, <1>7

(* The rows a matching leaves are those it was given, with what it took.   *)
LEMMA AfterMatching ==
  ASSUME NEW rs, NEW ts, NEW m \in Matchings(DOMAIN rs, DOMAIN ts),
         AllIn(rs, RobotRow), AllIn(ts, TaskRow)
  PROVE  /\ DOMAIN RobotsAfter(rs, m) = DOMAIN rs /\ DOMAIN TasksAfter(ts, m) = DOMAIN ts
         /\ DOMAIN m \subseteq DOMAIN ts
         /\ \A t \in DOMAIN m :
              /\ m[t] \in DOMAIN rs
              /\ TasksAfter(ts, m)[t].status = "assigned" /\ TasksAfter(ts, m)[t].robot = m[t]
              /\ RobotsAfter(rs, m)[m[t]].task = t
         /\ \A t \in DOMAIN ts \ DOMAIN m : TasksAfter(ts, m)[t] = ts[t]
         /\ \A r \in DOMAIN rs \ Range(m) : RobotsAfter(rs, m)[r] = rs[r]
<1>1. /\ DOMAIN m \subseteq DOMAIN ts /\ \A t \in DOMAIN m : m[t] \in DOMAIN rs
      /\ \A a, b \in DOMAIN m : m[a] = m[b] => a = b
  BY DEF Matchings, IsInjective
<1>2. DOMAIN RobotsAfter(rs, m) = DOMAIN rs /\ DOMAIN TasksAfter(ts, m) = DOMAIN ts
  BY DEF RobotsAfter, TasksAfter
<1>3. ASSUME NEW t \in DOMAIN m
      PROVE  /\ TasksAfter(ts, m)[t].status = "assigned" /\ TasksAfter(ts, m)[t].robot = m[t]
             /\ RobotsAfter(rs, m)[m[t]].task = t
  <2>1. TasksAfter(ts, m)[t] = [status |-> "assigned", robot |-> m[t]]
    BY <1>1 DEF TasksAfter
  <2>2. (CHOOSE k \in DOMAIN m : m[k] = m[t]) = t
    BY <1>1
  <2>3. m[t] \in DOMAIN rs /\ m[t] \in Range(m) /\ rs[m[t]] \in RobotRow
    BY <1>1 DEF Range, AllIn
  <2>4. RobotsAfter(rs, m)[m[t]]
          = [rs[m[t]] EXCEPT !.status = "assigned", !.task = CHOOSE k \in DOMAIN m : m[k] = m[t]]
    BY <2>3 DEF RobotsAfter
  <2>5. RobotsAfter(rs, m)[m[t]].task = t
    BY <2>2, <2>3, <2>4 DEF RobotRow
  <2>. QED  BY <2>1, <2>5
<1>4. \A t \in DOMAIN ts \ DOMAIN m : TasksAfter(ts, m)[t] = ts[t]
  BY DEF TasksAfter
<1>5. \A r \in DOMAIN rs \ Range(m) : RobotsAfter(rs, m)[r] = rs[r]
  BY DEF RobotsAfter
<1>. QED  BY <1>1, <1>2, <1>3, <1>4, <1>5

LEMMA NothingTaken ==
  ASSUME RowsTyped
  PROVE  TakesWhatIsFree(RobotsWith(NoWrites), TasksWith(NoWrites))
<1> DEFINE rs == RobotsWith(NoWrites)
           ts == TasksWith(NoWrites)
<1>1. /\ NoWrites.newRobots = NoRows /\ NoWrites.robots = NoRows /\ NoWrites.goneRobots = {}
      /\ NoWrites.newTasks = NoRows /\ NoWrites.tasks = NoRows /\ NoWrites.goneTasks = {}
  BY DEF NoWrites
<1>2. Updates(robots, NoRows) = NoRows /\ Updates(tasks, NoRows) = NoRows
  BY DEF Updates, NoRows
<1>3. WritesAreTyped(NoWrites)
  BY <1>1, NoRowsIsEmpty DEF WritesAreTyped, HaveColumns, SomeColumns
<1>4. /\ \A r \in DOMAIN robots : \A c \in RobotColumns : rs[r][c] = robots[r][c]
      /\ \A t \in DOMAIN tasks : \A c \in TaskColumns : ts[t][c] = tasks[t][c]
      /\ DOMAIN rs = DOMAIN robots /\ DOMAIN ts = DOMAIN tasks
  BY <1>1, <1>2, <1>3, WithUpdates, NoRowsIsEmpty
<1>5. AllIn(rs, RobotRow) /\ AllIn(ts, TaskRow)
  <2> DEFINE req == [kind |-> "update_robot", id |-> NoTask, writes |-> NoWrites, code |-> 200]
  <2>1. Decided(req)
    BY <1>1, NoRowsIsEmpty, NoRowsAreTyped DEF Decided
  <2>2. req.writes = NoWrites
    OBVIOUS
  <2> HIDE DEF req
  <2>. QED  BY <2>1, <2>2, WrittenRowsAreTyped
<1> HIDE DEF rs, ts
<1>6. \A r \in DOMAIN robots : rs[r] = robots[r]
  BY <1>4, <1>5, RowsAreTheirColumns DEF RobotColumns, RowsTyped, AllIn
<1>7. \A t \in DOMAIN tasks : ts[t] = tasks[t]
  BY <1>4, <1>5, RowsAreTheirColumns DEF TaskColumns, RowsTyped, AllIn
<1>8. TakesWhatIsFree(rs, ts)
  BY <1>6, <1>7 DEF TakesWhatIsFree
<1>. QED  BY <1>8 DEF rs, ts

(* Tables in which a matching of what is free has been carried out.        *)
Applied(m, rs, ts) ==
  /\ DOMAIN rs = DOMAIN robots /\ DOMAIN ts = DOMAIN tasks
  /\ \A t \in DOMAIN tasks \ DOMAIN m : ts[t] = tasks[t]
  /\ \A r \in DOMAIN robots \ Range(m) : rs[r] = robots[r]
  /\ \A t \in DOMAIN m :
       /\ t \in DOMAIN tasks /\ tasks[t].status = "pending"
       /\ ts[t].status = "assigned" /\ ts[t].robot = m[t]
       /\ m[t] \in DOMAIN robots /\ IsFree(m[t]) /\ rs[m[t]].task = t

(* What WriteBack decides from rows that are still what they were.         *)
LEMMA WriteBackApplies ==
  ASSUME RowsTyped, NEW pool, NEW plan,
         NEW m \in Matchings(DOMAIN FreeRobots, DOMAIN PendingTasks),
         pool = RobotsAfter(FreeRobots, m), plan = TasksAfter(PendingTasks, m),
         NEW req, Decided(req), WritesAreTyped(req.writes), req.kind = "allocation",
         req.writes.robots = Updates(robots, [r \in DOMAIN pool \cap DOMAIN robots |->
                                                RobotTarget(robots[r], pool[r])]),
         req.writes.tasks = Updates(tasks, plan),
         req.writes.newRobots = NoRows, req.writes.newTasks = NoRows
  PROVE  Applied(m, RobotsWith(req.writes), TasksWith(req.writes))
<1> DEFINE rs == RobotsWith(req.writes)
           ts == TasksWith(req.writes)
           new == [r \in DOMAIN pool \cap DOMAIN robots |-> RobotTarget(robots[r], pool[r])]
<1>2. /\ DOMAIN FreeRobots = {r \in DOMAIN robots : IsFree(r)}
      /\ \A r \in DOMAIN FreeRobots : FreeRobots[r] = robots[r]
      /\ DOMAIN PendingTasks = {t \in DOMAIN tasks : tasks[t].status = "pending"}
      /\ \A t \in DOMAIN PendingTasks : PendingTasks[t] = tasks[t]
  BY DEF FreeRobots, PendingTasks, Restrict
<1>3. AllIn(FreeRobots, RobotRow) /\ AllIn(PendingTasks, TaskRow)
  BY <1>2 DEF AllIn, RowsTyped
<1>4. /\ DOMAIN pool = DOMAIN FreeRobots /\ DOMAIN plan = DOMAIN PendingTasks
      /\ DOMAIN m \subseteq DOMAIN PendingTasks
      /\ \A t \in DOMAIN m :
           /\ m[t] \in DOMAIN FreeRobots
           /\ plan[t].status = "assigned" /\ plan[t].robot = m[t] /\ pool[m[t]].task = t
      /\ \A t \in DOMAIN PendingTasks \ DOMAIN m : plan[t] = PendingTasks[t]
      /\ \A r \in DOMAIN FreeRobots \ Range(m) : pool[r] = FreeRobots[r]
  BY <1>3, AfterMatching
<1>5. /\ DOMAIN new = DOMAIN FreeRobots
      /\ \A r \in DOMAIN FreeRobots : /\ new[r].cell = robots[r].cell
                                      /\ new[r].status = pool[r].status
                                      /\ new[r].task = pool[r].task
  <2>1. DOMAIN new = DOMAIN FreeRobots
    BY <1>2, <1>4
  <2>2. ASSUME NEW r \in DOMAIN FreeRobots
        PROVE  /\ new[r].cell = robots[r].cell /\ new[r].status = pool[r].status
               /\ new[r].task = pool[r].task
    <3>1. robots[r] \in RobotRow /\ r \in DOMAIN pool \cap DOMAIN robots
      BY <1>2, <1>4 DEF RowsTyped, AllIn
    <3>. QED  BY <3>1 DEF RobotTarget, RobotRow
  <2>. QED  BY <2>1, <2>2
<1>6. req.writes.goneRobots = {} /\ req.writes.goneTasks = {}
  BY DEF Decided
<1> HIDE DEF new
<1>7. req.writes.robots = Updates(robots, new)
  BY DEF new
<1>8. /\ DOMAIN rs = DOMAIN robots /\ DOMAIN ts = DOMAIN tasks
      /\ \A r \in DOMAIN robots : \A c \in RobotColumns :
           rs[r][c] = IF r \in DOMAIN new THEN new[r][c] ELSE robots[r][c]
      /\ \A t \in DOMAIN tasks : \A c \in TaskColumns :
           ts[t][c] = IF t \in DOMAIN plan THEN plan[t][c] ELSE tasks[t][c]
  <2> DEFINE w == req.writes
  <2>1. /\ WritesAreTyped(w) /\ w.newRobots = NoRows /\ w.newTasks = NoRows
        /\ w.goneRobots = {} /\ w.goneTasks = {}
        /\ w.robots = Updates(robots, new) /\ w.tasks = Updates(tasks, plan)
    BY <1>6, <1>7
  <2> HIDE DEF w
  <2>2. /\ DOMAIN RobotsWith(w) = DOMAIN robots /\ DOMAIN TasksWith(w) = DOMAIN tasks
        /\ \A r \in DOMAIN robots : \A c \in RobotColumns :
             RobotsWith(w)[r][c] = IF r \in DOMAIN new THEN new[r][c] ELSE robots[r][c]
        /\ \A t \in DOMAIN tasks : \A c \in TaskColumns :
             TasksWith(w)[t][c] = IF t \in DOMAIN plan THEN plan[t][c] ELSE tasks[t][c]
    BY <2>1, WithUpdates
  <2>. QED  BY <2>2 DEF w
<1>9. AllIn(rs, RobotRow) /\ AllIn(ts, TaskRow)
  BY WrittenRowsAreTyped
<1> HIDE DEF rs, ts
<1>10. ASSUME NEW t \in DOMAIN tasks, t \notin DOMAIN m PROVE ts[t] = tasks[t]
  <2>1. ts[t].status = tasks[t].status /\ ts[t].robot = tasks[t].robot
    BY <1>2, <1>4, <1>8, <1>10 DEF TaskColumns
  <2>2. ts[t] \in TaskRow /\ tasks[t] \in TaskRow
    BY <1>8, <1>9 DEF RowsTyped, AllIn
  <2>. QED  BY <2>1, <2>2, RowsAreTheirColumns
<1>11. ASSUME NEW r \in DOMAIN robots, r \notin Range(m) PROVE rs[r] = robots[r]
  <2>1. rs[r].cell = robots[r].cell /\ rs[r].status = robots[r].status /\ rs[r].task = robots[r].task
    BY <1>2, <1>4, <1>5, <1>8, <1>11 DEF RobotColumns
  <2>2. rs[r] \in RobotRow /\ robots[r] \in RobotRow
    BY <1>8, <1>9 DEF RowsTyped, AllIn
  <2>. QED  BY <2>1, <2>2, RowsAreTheirColumns
<1>12. ASSUME NEW t \in DOMAIN m
       PROVE  /\ t \in DOMAIN tasks /\ tasks[t].status = "pending"
              /\ ts[t].status = "assigned" /\ ts[t].robot = m[t]
              /\ m[t] \in DOMAIN robots /\ IsFree(m[t]) /\ rs[m[t]].task = t
  <2>1. t \in DOMAIN PendingTasks /\ t \in DOMAIN tasks /\ tasks[t].status = "pending"
    BY <1>2, <1>4
  <2>2. ts[t].status = "assigned" /\ ts[t].robot = m[t]
    BY <1>4, <1>8, <2>1 DEF TaskColumns
  <2>3. m[t] \in DOMAIN FreeRobots /\ m[t] \in DOMAIN robots /\ IsFree(m[t])
    BY <1>2, <1>4
  <2>4. rs[m[t]].task = t
    BY <1>4, <1>5, <1>8, <2>3 DEF RobotColumns
  <2>. QED  BY <2>1, <2>2, <2>3, <2>4
<1>13. Applied(m, rs, ts)
  BY <1>8, <1>10, <1>11, <1>12 DEF Applied
<1>. QED  BY <1>13 DEF rs, ts

LEMMA AppliedTakesWhatIsFree ==
  ASSUME NEW m, NEW rs, NEW ts, Applied(m, rs, ts)
  PROVE  TakesWhatIsFree(rs, ts)
<1>1. ASSUME NEW t \in DOMAIN tasks, ts[t] # tasks[t]
      PROVE  tasks[t].status = "pending" /\ ts[t].status = "assigned" /\ rs[ts[t].robot].task = t
  BY <1>1 DEF Applied
<1>2. ASSUME NEW r \in DOMAIN robots, rs[r] # robots[r]
      PROVE  robots[r].status = "idle" /\ robots[r].task = NoTask /\ ts[rs[r].task].robot = r
  <2>1. PICK t \in DOMAIN m : r = m[t]
    BY <1>2 DEF Applied, Range
  <2>. QED  BY <2>1 DEF Applied, IsFree
<1>. QED  BY <1>1, <1>2 DEF TakesWhatIsFree

LEMMA WriteBackTakesWhatIsFree ==
  ASSUME RowsTyped, NEW pool, NEW plan, Matched(pool, plan),
         NEW req, Decided(req), WritesAreTyped(req.writes), req.kind = "allocation",
         req.writes.robots = Updates(robots, [r \in DOMAIN pool \cap DOMAIN robots |->
                                                RobotTarget(robots[r], pool[r])]),
         req.writes.tasks = Updates(tasks, plan),
         req.writes.newRobots = NoRows, req.writes.newTasks = NoRows
  PROVE  TakesWhatIsFree(RobotsWith(req.writes), TasksWith(req.writes))
<1>1. PICK m \in Matchings(DOMAIN FreeRobots, DOMAIN PendingTasks) :
             pool = RobotsAfter(FreeRobots, m) /\ plan = TasksAfter(PendingTasks, m)
  BY DEF Matched
<1>2. Applied(m, RobotsWith(req.writes), TasksWith(req.writes))
  BY <1>1, WriteBackApplies
<1>. QED  BY <1>2, AppliedTakesWhatIsFree

(* A step by a request that is not an allocation on its way.               *)
Elsewhere(q) ==
  /\ UNCHANGED <<robots, tasks>>
  /\ \E req : /\ request' = [request EXCEPT ![q] = req]
              /\ DOMAIN req = Fields
              /\ req.phase = "done" \/ (req.phase = "flush" /\ req.kind # "allocation")

LEMMA AnswerIsElsewhere ==
  ASSUME ServiceInv, NEW q \in Requests, NEW kind, NEW id, NEW code, Answer(q, kind, id, code)
  PROVE  Elsewhere(q)
<1> DEFINE req == [request[q] EXCEPT !.kind = kind, !.id = id]
<1>1. request' = [request EXCEPT ![q] = Answered(req, code)] /\ UNCHANGED <<robots, tasks>>
  BY DEF Answer
<1>2. DOMAIN req = Fields
  BY DEF ServiceInv, RequestInv
<1> HIDE DEF req
<1>3. DOMAIN Answered(req, code) = Fields /\ Answered(req, code).phase = "done"
  BY <1>2, AnsweredFields
<1>. QED  BY <1>1, <1>3 DEF Elsewhere

LEMMA StageIsElsewhere ==
  ASSUME ServiceInv, NEW q \in Requests, NEW kind, kind # "allocation", NEW id, NEW w, NEW code,
         Stage(q, kind, id, w, code)
  PROVE  Elsewhere(q)
<1> DEFINE req == Staged(request[q], kind, id, w, code)
<1>1. request' = [request EXCEPT ![q] = req] /\ UNCHANGED <<robots, tasks>>
  BY StageIs
<1>2. DOMAIN req = Fields /\ req.phase = "flush" /\ req.kind = kind
  BY ServiceIsShaped, StagedFields DEF Shaped
<1> HIDE DEF req
<1>. QED  BY <1>1, <1>2 DEF Elsewhere

LEMMA UnavailableIsElsewhere ==
  ASSUME ServiceInv, NEW q \in Requests, Unavailable(q)
  PROVE  Elsewhere(q)
<1>1. request' = [request EXCEPT ![q] = Answered(request[q], 503)] /\ UNCHANGED <<robots, tasks>>
  BY DEF Unavailable
<1>2. DOMAIN Answered(request[q], 503) = Fields /\ Answered(request[q], 503).phase = "done"
  BY AnsweredFields DEF ServiceInv, RequestInv
<1>. QED  BY <1>1, <1>2 DEF Elsewhere

LEMMA StepsOfAllocations ==
  ASSUME ServiceInv, Next
  PROVE  \E q \in Requests : \/ Elsewhere(q) \/ Commit(q)
                             \/ ListFreeRobots(q) \/ AllocateAndCommit(q) \/ WriteBack(q)
<1>1. PICK q \in Requests :
    \/ \E r \in RobotIds, c \in Places, s \in PatchStatuses : CreateRobot(q, r, c, s)
    \/ \E r \in RobotIds, c \in Places \cup {Same}, s \in PatchStatuses \cup {Same},
          t \in TaskIds \cup {Same, Clear} : UpdateRobot(q, r, c, s, t)
    \/ \E r \in RobotIds : DeleteRobot(q, r)
    \/ \E t \in TaskIds : CreateTask(q, t) \/ DeleteTask(q, t)
    \/ \E t \in TaskIds, s \in TaskStatuses \cup {Same}, r \in RobotIds \cup {Same},
          edits \in BOOLEAN : UpdateTask(q, t, s, r, edits)
    \/ ListFreeRobots(q) \/ AllocateAndCommit(q) \/ WriteBack(q)
    \/ \E f, s \in RobotIds, t \in TaskIds : PersistReassignment(q, f, s, t)
    \/ Commit(q)
    \/ Unavailable(q)
  BY DEF Next
<1> DEFINE Settles(kind) == \/ \E id, code : Answer(q, kind, id, code)
                            \/ \E id, w, code : Stage(q, kind, id, w, code)
<1>2. \A kind : kind # "allocation" /\ Settles(kind) => Elsewhere(q)
  BY AnswerIsElsewhere, StageIsElsewhere
<1>3. ASSUME NEW r, NEW c, NEW s, CreateRobot(q, r, c, s) PROVE Settles("create_robot")
  BY <1>3 DEF CreateRobot
<1>4. ASSUME NEW r, NEW c, NEW s, NEW t, UpdateRobot(q, r, c, s, t) PROVE Settles("update_robot")
  BY <1>4 DEF UpdateRobot
<1>5. ASSUME NEW r, DeleteRobot(q, r) PROVE Settles("delete_robot")
  BY <1>5 DEF DeleteRobot
<1>6. ASSUME NEW t, CreateTask(q, t) PROVE Settles("create_task")
  BY <1>6 DEF CreateTask
<1>7. ASSUME NEW t, DeleteTask(q, t) PROVE Settles("delete_task")
  BY <1>7 DEF DeleteTask
<1>8. ASSUME NEW t, NEW s, NEW r, NEW edits, UpdateTask(q, t, s, r, edits)
      PROVE  Settles("update_task")
  BY <1>8 DEF UpdateTask
<1>9. ASSUME NEW f, NEW s, NEW t, PersistReassignment(q, f, s, t) PROVE Settles("recovery")
  BY <1>9 DEF PersistReassignment
<1> HIDE DEF Settles
<1>10. CASE \/ \E r \in RobotIds, c \in Places, s \in PatchStatuses : CreateRobot(q, r, c, s)
            \/ \E r \in RobotIds, c \in Places \cup {Same}, s \in PatchStatuses \cup {Same},
                  t \in TaskIds \cup {Same, Clear} : UpdateRobot(q, r, c, s, t)
            \/ \E r \in RobotIds : DeleteRobot(q, r)
  BY <1>2, <1>3, <1>4, <1>5, <1>10
<1>11. CASE \/ \E t \in TaskIds : CreateTask(q, t) \/ DeleteTask(q, t)
            \/ \E t \in TaskIds, s \in TaskStatuses \cup {Same}, r \in RobotIds \cup {Same},
                  edits \in BOOLEAN : UpdateTask(q, t, s, r, edits)
  BY <1>2, <1>6, <1>7, <1>8, <1>11
<1>12. CASE \E f, s \in RobotIds, t \in TaskIds : PersistReassignment(q, f, s, t)
  BY <1>2, <1>9, <1>12
<1>. QED  BY <1>1, <1>10, <1>11, <1>12, UnavailableIsElsewhere

(* What holds of a request as long as rows and request stay.               *)
LEMMA AllocStays ==
  ASSUME ServiceInv, NEW q \in Requests, OthersStay(q), NEW p \in Requests \ {q},
         AllocInv(request[p]), ~ request'[p].raced => ~ request[p].raced,
         UNCHANGED <<robots, tasks>>
  PROVE  AllocInv(request[p])'
<1>1. /\ request'[p].phase = request[p].phase /\ request'[p].kind = request[p].kind
      /\ request'[p].writes = request[p].writes
      /\ request'[p].pool = request[p].pool /\ request'[p].plan = request[p].plan
  BY DEF OthersStay, Fields
<1>2. FreeRobots' = FreeRobots
  BY DEF FreeRobots, IsFree
<1>3. Matched(request[p].pool, request[p].plan) => Matched(request[p].pool, request[p].plan)'
  BY <1>1 DEF Matched, FreeRobots, PendingTasks, IsFree
<1>4. TakesWhatIsFree(RobotsWith(request[p].writes), TasksWith(request[p].writes))
        => TakesWhatIsFree(RobotsWith(request[p].writes), TasksWith(request[p].writes))'
  <2>1. /\ RobotsWith(request[p].writes)' = RobotsWith(request[p].writes)
        /\ TasksWith(request[p].writes)' = TasksWith(request[p].writes)
    BY <1>1 DEF RobotsWith, TasksWith
  <2>. QED  BY <2>1 DEF TakesWhatIsFree
<1>5. CASE request'[p].raced
  BY <1>5 DEF AllocInv
<1>6. CASE ~ request'[p].raced
  <2>1. /\ request[p].phase = "list_tasks" => request[p].pool = FreeRobots
        /\ request[p].phase = "write_back" => Matched(request[p].pool, request[p].plan)
        /\ request[p].phase = "flush" /\ request[p].kind = "allocation" =>
             TakesWhatIsFree(RobotsWith(request[p].writes), TasksWith(request[p].writes))
    BY <1>6 DEF AllocInv
  <2>. QED  BY <1>1, <1>2, <1>3, <1>4, <2>1 DEF AllocInv
<1>. QED  BY <1>5, <1>6

(* The step of one request changes nothing of the others, rows apart.      *)
LEMMA OneRequestSteps ==
  ASSUME ServiceInv, NEW q \in Requests, NEW req, request' = [request EXCEPT ![q] = req],
         UNCHANGED <<robots, tasks>>, \A p \in Requests : AllocInv(request[p]), AllocInv(req)'
  PROVE  \A p \in Requests : AllocInv(request[p])'
<1>1. DOMAIN request = Requests /\ \A p \in Requests : DOMAIN request[p] = Fields
  BY DEF ServiceInv, RequestInv
<1>2. OthersStay(q) /\ request'[q] = req /\ \A p \in Requests \ {q} : request'[p] = request[p]
  BY <1>1 DEF OthersStay
<1>3. ASSUME NEW p \in Requests \ {q} PROVE AllocInv(request[p])'
  BY <1>2, AllocStays
<1>4. AllocInv(request[q])'
  BY <1>2 DEF AllocInv
<1>. QED  BY <1>3, <1>4

LEMMA ElsewhereKeepsAlloc ==
  ASSUME ServiceInv, NEW q \in Requests, Elsewhere(q), \A p \in Requests : AllocInv(request[p])
  PROVE  \A p \in Requests : AllocInv(request[p])'
<1>1. PICK req : /\ request' = [request EXCEPT ![q] = req]
                 /\ req.phase = "done" \/ (req.phase = "flush" /\ req.kind # "allocation")
  BY DEF Elsewhere
<1>2. AllocInv(req)'
  BY <1>1 DEF AllocInv
<1>3. UNCHANGED <<robots, tasks>>
  BY DEF Elsewhere
<1>. QED  BY <1>1, <1>2, <1>3, OneRequestSteps

LEMMA CommitKeepsAlloc ==
  ASSUME ServiceInv, NEW q \in Requests, Commit(q), \A p \in Requests : AllocInv(request[p])
  PROVE  \A p \in Requests : AllocInv(request[p])'
<1>1. OthersStay(q) /\ request'[q].phase = "done"
  <2>1. OthersStay(q) /\ \E code : request'[q] = Answered(request[q], code)
    BY CommitShape, ServiceIsShaped DEF Wrote, Refused
  <2>. QED  BY <2>1, AnsweredFields DEF ServiceInv, RequestInv
<1>2. ASSUME NEW p \in Requests \ {q}
      PROVE  /\ ~ request'[p].raced => ~ request[p].raced
             /\ \/ UNCHANGED <<robots, tasks>>
                \/ request[p].phase \in {"none", "done"}
                \/ request'[p].raced
  <2>1. DOMAIN request = Requests /\ DOMAIN request[p] = Fields
    BY DEF ServiceInv, RequestInv
  <2>2. CASE request' = Race(q)
    <3>1. request'[p].raced = (request[p].raced \/ request[p].phase \notin {"none", "done"})
      BY <2>1, <2>2 DEF Race, Fields
    <3>. QED  BY <3>1
  <2>3. CASE UNCHANGED <<robots, tasks>> /\ \E code : request' = [request EXCEPT ![q] = Answered(@, code)]
    BY <2>1, <2>3
  <2>. QED  BY <2>2, <2>3 DEF Commit
<1>3. ASSUME NEW p \in Requests \ {q} PROVE AllocInv(request[p])'
  <2>1. CASE UNCHANGED <<robots, tasks>>
    BY <1>1, <1>2, <2>1, AllocStays
  <2>2. CASE request[p].phase \in {"none", "done"}
    BY <1>1, <2>2 DEF AllocInv, OthersStay, Fields
  <2>3. CASE request'[p].raced
    BY <2>3 DEF AllocInv
  <2>. QED  BY <1>2, <2>1, <2>2, <2>3
<1>4. AllocInv(request[q])'
  BY <1>1 DEF AllocInv
<1>. QED  BY <1>3, <1>4

LEMMA ListFreeRobotsKeepsAlloc ==
  ASSUME ServiceInv, NEW q \in Requests, ListFreeRobots(q), \A p \in Requests : AllocInv(request[p])
  PROVE  \A p \in Requests : AllocInv(request[p])'
<1>1. PICK req : req = [request[q] EXCEPT !.phase = "list_tasks", !.kind = "allocation",
                                          !.pool = FreeRobots]
  OBVIOUS
<1>2. request' = [request EXCEPT ![q] = req] /\ UNCHANGED <<robots, tasks>>
  BY <1>1 DEF ListFreeRobots, FreeRobots
<1>3. req.phase = "list_tasks" /\ req.pool = FreeRobots
  BY <1>1 DEF ServiceInv, RequestInv, Fields
<1>4. FreeRobots' = FreeRobots
  BY <1>2 DEF FreeRobots, IsFree
<1>5. AllocInv(req)'
  BY <1>3, <1>4 DEF AllocInv
<1>. QED  BY <1>2, <1>5, OneRequestSteps

LEMMA AllocateAndCommitKeepsAlloc ==
  ASSUME ServiceInv, RowsTyped, NEW q \in Requests, AllocateAndCommit(q),
         \A p \in Requests : AllocInv(request[p])
  PROVE  \A p \in Requests : AllocInv(request[p])'
<1> DEFINE pool == request[q].pool
<1>1. CASE Answer(q, "allocation", NoTask, 422)
  BY <1>1, AnswerIsElsewhere, ElsewhereKeepsAlloc
<1>2. CASE Stage(q, "allocation", NoTask, NoWrites, 200)
  <2>1. PICK req : req = Staged(request[q], "allocation", NoTask, NoWrites, 200)
    OBVIOUS
  <2>2. request' = [request EXCEPT ![q] = req] /\ UNCHANGED <<robots, tasks>>
    BY <1>2, <2>1, StageIs
  <2>3. req.phase = "flush" /\ req.writes = NoWrites
    BY <2>1, ServiceIsShaped, StagedFields DEF Shaped
  <2>4. TakesWhatIsFree(RobotsWith(NoWrites), TasksWith(NoWrites))
    BY NothingTaken
  <2>5. RobotsWith(NoWrites)' = RobotsWith(NoWrites) /\ TasksWith(NoWrites)' = TasksWith(NoWrites)
    BY <2>2 DEF RobotsWith, TasksWith
  <2>6. TakesWhatIsFree(RobotsWith(NoWrites), TasksWith(NoWrites))'
    BY <2>2, <2>4, <2>5 DEF TakesWhatIsFree
  <2>7. AllocInv(req)'
    BY <2>3, <2>6 DEF AllocInv
  <2>. QED  BY <2>2, <2>7, OneRequestSteps
<1>3. ASSUME NEW m \in Matchings(DOMAIN pool, DOMAIN PendingTasks),
             request' = [request EXCEPT ![q].phase = "write_back",
                                        ![q].pool = RobotsAfter(pool, m),
                                        ![q].plan = TasksAfter(PendingTasks, m)],
             UNCHANGED <<robots, tasks, racedWrite>>
      PROVE  \A p \in Requests : AllocInv(request[p])'
  <2>1. PICK req : req = [request[q] EXCEPT !.phase = "write_back", !.pool = RobotsAfter(pool, m),
                                            !.plan = TasksAfter(PendingTasks, m)]
    OBVIOUS
  <2>2. request' = [request EXCEPT ![q] = req]
    BY <1>3, <2>1
  <2>3. /\ req.phase = "write_back" /\ req.raced = request[q].raced
        /\ req.pool = RobotsAfter(pool, m) /\ req.plan = TasksAfter(PendingTasks, m)
    BY <2>1 DEF ServiceInv, RequestInv, Fields
  <2>4. ~ req.raced => Matched(req.pool, req.plan)
    <3>1. ~ req.raced => pool = FreeRobots
      BY <2>3 DEF AllocInv, AllocateAndCommit
    <3>. QED  BY <2>3, <3>1 DEF Matched
  <2>5. FreeRobots' = FreeRobots /\ PendingTasks' = PendingTasks
    BY <1>3 DEF FreeRobots, PendingTasks, IsFree
  <2>6. ~ req.raced => Matched(req.pool, req.plan)'
    BY <2>4, <2>5 DEF Matched
  <2>7. AllocInv(req)'
    BY <2>3, <2>6 DEF AllocInv
  <2>. QED  BY <1>3, <2>2, <2>7, OneRequestSteps
<1>. QED  BY <1>1, <1>2, <1>3 DEF AllocateAndCommit, PendingTasks

LEMMA WriteBackKeepsAlloc ==
  ASSUME ServiceInv, RowsTyped, NEW q \in Requests, WriteBack(q),
         \A p \in Requests : AllocInv(request[p]),
         ServiceInv', DecisionHolds(q)'
  PROVE  \A p \in Requests : AllocInv(request[p])'
<1> DEFINE new == [r \in DOMAIN request[q].pool \cap DOMAIN robots |->
                     RobotTarget(robots[r], request[q].pool[r])]
<1>1. PICK w : w = [NoWrites EXCEPT !.robots = Updates(robots, new),
                                    !.tasks = Updates(tasks, request[q].plan)]
  OBVIOUS
<1>2. PICK req : req = Staged(request[q], "allocation", NoTask, w, 200)
  OBVIOUS
<1>3. request' = [request EXCEPT ![q] = req] /\ UNCHANGED <<robots, tasks>>
      /\ request[q].phase = "write_back"
  <2>1. Stage(q, "allocation", NoTask, w, 200) /\ request[q].phase = "write_back"
    BY <1>1 DEF WriteBack
  <2>. QED  BY <1>2, <2>1, StageIs
<1>4. /\ req.phase = "flush" /\ req.kind = "allocation" /\ req.writes = w
      /\ req.raced = request[q].raced
  BY <1>2, ServiceIsShaped, StagedFields DEF Shaped
<1>5. request'[q] = req
  BY <1>3 DEF ServiceInv
<1>6. Decided(req) /\ WritesAreTyped(w)
  <2>1. Decided(request[q])'
    BY <1>4, <1>5 DEF DecisionHolds
  <2>2. StagedInv(request[q])'
    BY <1>4, <1>5 DEF ServiceInv, RequestInv
  <2>. QED  BY <1>4, <1>5, <2>1, <2>2 DEF Decided, StagedInv, WritesAreTyped
<1>7. /\ w.robots = Updates(robots, new) /\ w.tasks = Updates(tasks, request[q].plan)
      /\ w.newRobots = NoRows /\ w.newTasks = NoRows
  BY <1>1 DEF NoWrites
<1>8. ~ req.raced => TakesWhatIsFree(RobotsWith(w), TasksWith(w))
  <2>1. ASSUME ~ req.raced PROVE Matched(request[q].pool, request[q].plan)
    BY <1>3, <1>4, <2>1 DEF AllocInv
  <2>. QED  BY <1>4, <1>6, <1>7, <2>1, WriteBackTakesWhatIsFree
<1>9. RobotsWith(w)' = RobotsWith(w) /\ TasksWith(w)' = TasksWith(w)
  BY <1>3 DEF RobotsWith, TasksWith
<1>10. ~ req.raced => TakesWhatIsFree(RobotsWith(w), TasksWith(w))'
  BY <1>3, <1>8, <1>9 DEF TakesWhatIsFree
<1>11. AllocInv(req)'
  BY <1>4, <1>10 DEF AllocInv
<1>. QED  BY <1>3, <1>11, OneRequestSteps

AllocationInv == KeysInv /\ \A q \in Requests : AllocInv(request[q])

(* What an unhindered allocation has read, it still finds: its pool, its   *)
(* matching and its writes fit the rows of now.                            *)
THEOREM AllocationInvariance == Spec => []AllocationInv
<1>1. Init => AllocationInv
  <2>1. Init => \A q \in Requests : request[q].phase = "none"
    BY DEF Init, NotIssued
  <2>. QED  BY <2>1, InitKeys DEF AllocationInv, AllocInv
<1>2. ASSUME AllocationInv, [Next]_vars, KeysInv' PROVE AllocationInv'
  <2>0. /\ ServiceInv /\ RowsTyped /\ ServiceInv' /\ \A q \in Requests : DecisionHolds(q)'
        /\ \A p \in Requests : AllocInv(request[p])
    BY <1>2 DEF AllocationInv, KeysInv
  <2>1. CASE Next
    <3>1. PICK q \in Requests : \/ Elsewhere(q) \/ Commit(q)
                                \/ ListFreeRobots(q) \/ AllocateAndCommit(q) \/ WriteBack(q)
      BY <2>0, <2>1, StepsOfAllocations
    <3>2. \A p \in Requests : AllocInv(request[p])'
      BY <2>0, <3>1, ElsewhereKeepsAlloc, CommitKeepsAlloc, ListFreeRobotsKeepsAlloc,
         AllocateAndCommitKeepsAlloc, WriteBackKeepsAlloc
    <3>. QED  BY <1>2, <3>2 DEF AllocationInv
  <2>2. CASE UNCHANGED vars
    <3>1. UNCHANGED <<robots, tasks, request>>
      BY <2>2 DEF vars
    <3>2. FreeRobots' = FreeRobots /\ PendingTasks' = PendingTasks
      BY <3>1 DEF FreeRobots, PendingTasks, IsFree
    <3>3. ASSUME NEW q \in Requests PROVE AllocInv(request[q])'
      <4>1. Matched(request[q].pool, request[q].plan) => Matched(request[q].pool, request[q].plan)'
        BY <3>1, <3>2 DEF Matched
      <4>2. /\ RobotsWith(request[q].writes)' = RobotsWith(request[q].writes)
            /\ TasksWith(request[q].writes)' = TasksWith(request[q].writes)
        BY <3>1 DEF RobotsWith, TasksWith
      <4>3. TakesWhatIsFree(RobotsWith(request[q].writes), TasksWith(request[q].writes))
              => TakesWhatIsFree(RobotsWith(request[q].writes), TasksWith(request[q].writes))'
        BY <3>1, <4>2 DEF TakesWhatIsFree
      <4>. QED  BY <2>0, <3>1, <3>2, <4>1, <4>3 DEF AllocInv
    <3>. QED  BY <1>2, <3>3 DEF AllocationInv
  <2>. QED  BY <1>2, <2>1, <2>2
<1>. QED  BY <1>1, <1>2, KeysInvariance, PTL DEF Spec

(* An allocation that nobody interfered with takes robots that were idle   *)
(* and had no task, gives them tasks that were pending, and leaves both    *)
(* sides of every assignment pointing at each other (_write_back of        *)
(* allocation_service.py).                                                 *)
THEOREM AllocationsTakeWhatIsFree == Spec => AllocationStealsNothing
<1>1. ASSUME AllocationInv, [Next]_vars
      PROVE  \A q \in Requests :
               Commits(q) /\ request[q].kind = "allocation" /\ ~ request[q].raced =>
                 /\ \A t \in DOMAIN tasks :
                      tasks'[t] # tasks[t] =>
                        /\ tasks[t].status = "pending" /\ tasks'[t].status = "assigned"
                        /\ robots'[tasks'[t].robot].task = t
                 /\ \A r \in DOMAIN robots :
                      robots'[r] # robots[r] =>
                        /\ robots[r].status = "idle" /\ robots[r].task = NoTask
                        /\ tasks'[robots'[r].task].robot = r
  <2>0. ServiceInv
    BY <1>1 DEF AllocationInv, KeysInv
  <2> TAKE q \in Requests
  <2> HAVE Commits(q) /\ request[q].kind = "allocation" /\ ~ request[q].raced
  <2>1. CASE UNCHANGED <<robots, tasks>>
    BY <2>1
  <2>2. CASE ~ UNCHANGED <<robots, tasks>>
    <3>1. Next
      BY <1>1, <2>2 DEF vars
    <3>2. PICK p \in Requests : Commit(p)
      <4>1. \A p \in Requests : ~ Elsewhere(p) /\ ~ ListFreeRobots(p)
        BY <2>2 DEF Elsewhere, ListFreeRobots
      <4>2. \A p \in Requests : \A kind, id, w, code :
              ~ Answer(p, kind, id, code) /\ ~ Stage(p, kind, id, w, code)
        BY <2>2 DEF Answer, Stage
      <4>3. \A p \in Requests : ~ AllocateAndCommit(p) /\ ~ WriteBack(p)
        BY <2>2, RowsStand
      <4>. QED  BY <2>0, <3>1, <4>1, <4>3, StepsOfAllocations
    <3>3. OthersStay(p) /\ Wrote(p)
      BY <2>0, <2>2, <3>2, CommitShape, ServiceIsShaped DEF Refused
    <3>4. p = q
      BY <3>3 DEF OthersStay, Commits, Fields
    <3>5. robots' = RobotsWith(request[q].writes) /\ tasks' = TasksWith(request[q].writes)
      BY <3>3, <3>4 DEF Wrote
    <3>6. TakesWhatIsFree(RobotsWith(request[q].writes), TasksWith(request[q].writes))
      BY <1>1 DEF AllocationInv, AllocInv, Commits
    <3>. QED  BY <3>5, <3>6 DEF TakesWhatIsFree
  <2>. QED  BY <2>1, <2>2
<1>. QED  BY <1>1, AllocationInvariance, PTL DEF Spec, AllocationStealsNothing

-----------------------------------------------------------------------------
(* The dashboard, for any demo fleet and queue, any rows at the start, any *)
(* number of requests, presses and faults.                                 *)
(*                                                                         *)
(* A script waits for one request at a time, so that with nothing late the *)
(* request it waits for is the only one under way, and what this one has   *)
(* decided is what the tables will be.  The invariant says of a press that *)
(* nothing disturbs how far Initialise has come, of the tables as they are *)
(* or as the request will leave them; and of operators who have met no     *)
(* fault that every row came from the session's assignments by failures    *)
(* the spare took over.                                                    *)

USE DashboardAssumption DEF DashboardAssumption

(* The server, as its client finds it: typed, and nobody decides what it   *)
(* cannot write.                                                           *)
IsTable(rows) == rows = [i \in DOMAIN rows |-> rows[i]]
IsSettled(req) == ReqTyped(req) /\ (req.phase = "flush" => Decided(req))
ServerTyped ==
  /\ Shaped /\ RowsTyped /\ IsTable(robots) /\ IsTable(tasks)
  /\ \A q \in Requests : IsSettled(request[q])

(* The script and what it works on.                                        *)
ScriptTyped ==
  /\ DashTypeOK
  /\ DOMAIN reply \subseteq TaskIds /\ Range(reply) \subseteq RobotIds
  /\ pc = "delete_tasks" => todo \subseteq TaskIds
  /\ pc = "create_tasks" => todo \subseteq DemoTasks
  /\ pc = "delete_robots" => todo \subseteq RobotIds
  /\ pc = "create_robots" => todo \subseteq DOMAIN Home
  /\ awaiting # Nobody => pc \in Loops \cup {"allocate", "fail"}

(* Only a request that is awaited or late is under way.                    *)
InFlight == \A q \in Requests \ late : q # awaiting => request[q].phase = "none"

FaultsAreKnown ==
  /\ faults \in Nat
  /\ faults = 0 => quiet
  /\ quiet => late = {}

DemoRobot(r) == [cell |-> Home[r], status |-> "idle", task |-> NoTask]
DemoTask == [status |-> "pending", robot |-> NoRobot]
DemoRobotsIn(rs, ids) == DOMAIN rs = ids /\ \A r \in ids : rs[r] = DemoRobot(r)
DemoTasksIn(ts, ids) == DOMAIN ts = ids /\ \A t \in ids : ts[t] = DemoTask

(* How far Initialise has come at that place, with these ids left.         *)
Halfway(at, left, rs, ts) ==
  /\ at = "delete_tasks" => DOMAIN ts = left
  /\ at = "list_robots" => DOMAIN ts = {}
  /\ at = "delete_robots" => DOMAIN ts = {} /\ DOMAIN rs = left
  /\ at = "create_robots" => DOMAIN ts = {} /\ DemoRobotsIn(rs, DOMAIN Home \ left)
  /\ at = "create_tasks" =>
       DemoRobotsIn(rs, DOMAIN Home) /\ DemoTasksIn(ts, DemoTasks \ left)
  /\ at = "count" => DemoRobotsIn(rs, DOMAIN Home) /\ DemoTasksIn(ts, DemoTasks)

WillSucceed(req) ==
  LET w == req.writes
      left == todo \ {Min(todo)}
  IN /\ req.code \in {201, 204}
     /\ \/ req.phase = "done" /\ Halfway(pc, left, robots, tasks)
        \/ /\ req.phase = "flush" /\ ~ ConstraintFires(w) /\ RowsAreThere(w)
           /\ Halfway(pc, left, RobotsWith(w), TasksWith(w))

IsExact == /\ shown # "not initialised"
           /\ shown = "initialised" => robots = DemoRobotRows /\ tasks = DemoTaskRows

Progress ==
  quiet =>
    /\ awaiting = Nobody => Halfway(pc, todo, robots, tasks)
    /\ awaiting # Nobody /\ pc \in Loops => WillSucceed(request[awaiting])
    /\ pc = "idle" => IsExact

(* Robot and task agree, and the rows have come from the session's         *)
(* assignments by failures the spare took over.                            *)
IsActive(row) == row.status \in {"assigned", "in_progress"}
Sound(rs, ts, given) ==
  /\ \A r \in DOMAIN rs, t \in DOMAIN ts :
       (rs[r].task = t) <=> (ts[t].robot = r /\ IsActive(ts[t]))
  /\ \A t \in DOMAIN given :
       /\ given[t] \in DOMAIN rs => rs[given[t]].task \in {NoTask, t}
       /\ t \in DOMAIN ts /\ IsActive(ts[t]) => ts[t].robot \in {given[t], Spare}

MatchedWith(pool, plan, given) ==
  \E m \in Matchings(DOMAIN FreeRobots, DOMAIN PendingTasks) :
    /\ pool = RobotsAfter(FreeRobots, m) /\ plan = TasksAfter(PendingTasks, m)
    /\ given = Assignments(plan)

(* What the session will believe once the request has succeeded.           *)
Believed == IF pc = "allocate" THEN reply ELSE allocation

WillBeSound(req) ==
  /\ req.phase = "done" => Sound(robots, tasks, IF req.code < 400 THEN Believed ELSE allocation)
  /\ req.phase # "done" => Sound(robots, tasks, allocation)
  /\ req.phase = "flush" => Sound(RobotsWith(req.writes), TasksWith(req.writes), Believed)
  /\ req.phase \in {"list_tasks", "write_back"} => pc = "allocate"
  /\ req.phase = "list_tasks" => req.pool = FreeRobots
  /\ req.phase = "write_back" => MatchedWith(req.pool, req.plan, reply)

Sides ==
  faults = 0 /\ ~ unawares =>
    /\ pc \in {"idle", "allocate", "read_robots", "read_tasks", "fail"} /\ awaiting = Nobody
         => Sound(robots, tasks, allocation)
    /\ pc \in {"allocate", "fail"} /\ awaiting # Nobody => WillBeSound(request[awaiting])

DashInv == ServerTyped /\ ScriptTyped /\ InFlight /\ FaultsAreKnown /\ Progress /\ Sides

-----------------------------------------------------------------------------
(* The server keeps its types, whoever calls.                              *)

Steps(q) == OthersStay(q) /\ IsSettled(request[q])'

LEMMA StepsKeepTypes ==
  ASSUME ServerTyped, NEW q \in Requests, Steps(q),
         RowsTyped', IsTable(robots)', IsTable(tasks)'
  PROVE  ServerTyped'
<1>1. ASSUME NEW p \in Requests PROVE IsSettled(request[p])'
  <2>1. CASE p = q
    BY <2>1 DEF Steps
  <2>2. CASE p # q
    <3>1. /\ DOMAIN request'[p] = Fields
          /\ request'[p].phase = request[p].phase /\ request'[p].kind = request[p].kind
          /\ request'[p].id = request[p].id /\ request'[p].code = request[p].code
          /\ request'[p].pool = request[p].pool /\ request'[p].plan = request[p].plan
          /\ request'[p].writes = request[p].writes
      BY <2>2 DEF Steps, OthersStay, Fields
    <3>2. IsSettled(request[p])
      BY DEF ServerTyped
    <3>3. ReqTyped(request[p])'
      BY <3>1, <3>2 DEF IsSettled, ReqTyped
    <3>4. Decided(request[p]) => Decided(request[p])'
      BY <3>1 DEF Decided
    <3>. QED  BY <3>1, <3>2, <3>3, <3>4 DEF IsSettled
  <2>. QED  BY <2>1, <2>2
<1>2. Shaped'
  BY <1>1 DEF Shaped, Steps, OthersStay, IsSettled, ReqTyped
<1>. QED  BY <1>1, <1>2 DEF ServerTyped

LEMMA TablesStand ==
  ASSUME ServerTyped, UNCHANGED <<robots, tasks>>
  PROVE  RowsTyped' /\ IsTable(robots)' /\ IsTable(tasks)'
<1>1. RowsTyped /\ IsTable(robots) /\ IsTable(tasks)
  BY DEF ServerTyped
<1>2. IsTable(robots)' /\ IsTable(tasks)'
  BY <1>1 DEF IsTable
<1>. QED  BY <1>1, <1>2 DEF RowsTyped, AllIn

LEMMA ServerStands ==
  ASSUME ServerTyped, UNCHANGED Server
  PROVE  ServerTyped'
<1>1. UNCHANGED <<robots, tasks, request>>
  BY DEF Server
<1>2. RowsTyped' /\ IsTable(robots)' /\ IsTable(tasks)'
  BY <1>1, TablesStand
<1>3. ASSUME NEW q \in Requests PROVE IsSettled(request[q])'
  <2>1. IsSettled(request[q])
    BY DEF ServerTyped
  <2>2. ReqTyped(request[q])'
    BY <1>1, <2>1 DEF IsSettled, ReqTyped
  <2>3. Decided(request[q]) => Decided(request[q])'
    BY <1>1 DEF Decided
  <2>. QED  BY <1>1, <2>1, <2>2, <2>3 DEF IsSettled
<1>4. Shaped'
  BY <1>1 DEF ServerTyped, Shaped
<1>. QED  BY <1>2, <1>3, <1>4 DEF ServerTyped

(* A request becomes another one, and the rows stay.                       *)
Becomes(q, req) ==
  /\ request' = [request EXCEPT ![q] = req]
  /\ UNCHANGED <<robots, tasks, racedWrite>>

LEMMA BecomesSteps ==
  ASSUME ServerTyped, NEW q \in Requests, NEW req, Becomes(q, req), IsSettled(req)
  PROVE  Steps(q) /\ request'[q] = req /\ ServerTyped'
<1>1. request'[q] = req /\ DOMAIN request' = Requests
      /\ \A p \in Requests \ {q} : request'[p] = request[p]
  BY DEF Becomes, ServerTyped, Shaped
<1>2. IsSettled(request[q])'
  <2>1. ReqTyped(request'[q]) /\ (req.phase = "flush" => Decided(request'[q]))
    BY <1>1 DEF IsSettled
  <2>. QED  BY <1>1, <2>1 DEF IsSettled, ReqTyped, Decided
<1>3. OthersStay(q)
  BY <1>1 DEF OthersStay, ServerTyped, Shaped
<1>4. UNCHANGED <<robots, tasks>>
  BY DEF Becomes
<1>. QED  BY <1>1, <1>2, <1>3, <1>4, StepsKeepTypes, TablesStand DEF Steps

LEMMA MovedBecomes ==
  ASSUME NEW q \in Requests, Moved(q)
  PROVE  \E req : Becomes(q, req) /\ IsSettled(req)
<1>1. PICK req : MovesTo(q, req)
  BY DEF Moved
<1>2. Becomes(q, req)
  BY <1>1 DEF Moved, MovesTo, Becomes
<1>3. IsSettled(req)
  BY <1>1 DEF MovesTo, IsSettled
<1>. QED  BY <1>2, <1>3

LEMMA MovedKeepsTypes ==
  ASSUME ServerTyped, NEW q \in Requests, Moved(q)
  PROVE  Steps(q) /\ ServerTyped' /\ UNCHANGED <<robots, tasks>>
<1>1. PICK req : Becomes(q, req) /\ IsSettled(req)
  BY MovedBecomes
<1>. QED  BY <1>1, BecomesSteps DEF Becomes

LEMMA ReadKeepsTypes ==
  ASSUME ServerTyped, NEW q \in Requests, Read(q)
  PROVE  /\ Steps(q) /\ ServerTyped' /\ UNCHANGED <<robots, tasks>>
         /\ request'[q].phase = "none"
<1>1. Becomes(q, NotIssued)
  BY DEF Read, Becomes
<1>2. /\ NotIssued.phase = "none" /\ NotIssued.kind = "none" /\ NotIssued.code = 0
      /\ NotIssued.pool = NoRows /\ NotIssued.plan = NoRows /\ DOMAIN NotIssued = Fields
  BY DEF NotIssued, Fields
<1> HIDE DEF NotIssued
<1>3. IsSettled(NotIssued)
  BY <1>2, NoRowsFit DEF IsSettled, ReqTyped
<1>. QED  BY <1>1, <1>2, <1>3, BecomesSteps DEF Becomes

(* An answer that only reports.                                            *)
LEMMA AnswerBecomes ==
  ASSUME ServerTyped, NEW q \in Requests, NEW kind \in Kinds, NEW id,
         NEW code \in {200, 404, 409, 422, 503}, Answer(q, kind, id, code)
  PROVE  /\ Steps(q) /\ ServerTyped' /\ UNCHANGED <<robots, tasks>>
         /\ request'[q].phase = "done" /\ request'[q].code = code
<1> DEFINE req == Answered([request[q] EXCEPT !.kind = kind, !.id = id], code)
<1>1. Becomes(q, req)
  BY DEF Answer, Becomes
<1>2. DOMAIN request[q] = Fields
  BY DEF ServerTyped, Shaped
<1>3. /\ DOMAIN req = Fields /\ req.phase = "done" /\ req.code = code /\ req.kind = kind
      /\ req.pool = NoRows /\ req.plan = NoRows
  BY <1>2 DEF Answered, Fields
<1> HIDE DEF req
<1>4. IsSettled(req)
  BY <1>3, NoRowsFit DEF IsSettled, ReqTyped
<1>5. Steps(q) /\ request'[q] = req /\ ServerTyped'
  BY <1>1, <1>4, BecomesSteps
<1>6. UNCHANGED <<robots, tasks>>
  BY <1>1 DEF Becomes
<1>. QED  BY <1>3, <1>5, <1>6

LEMMA CommitKeepsTypes ==
  ASSUME ServerTyped, NEW q \in Requests, Commit(q)
  PROVE  Steps(q) /\ ServerTyped' /\ request'[q].phase = "done"
<1> DEFINE w == request[q].writes
<1>1. request[q].phase = "flush" /\ OthersStay(q) /\ (Wrote(q) \/ Refused(q))
  BY CommitShape DEF ServerTyped
<1>2. ReqTyped(request[q]) /\ Decided(request[q])
  BY <1>1 DEF ServerTyped, IsSettled
<1>3. PICK code : /\ request'[q] = Answered(request[q], code)
                  /\ code = request[q].code \/ code \in {409, 500}
  BY <1>1 DEF Wrote, Refused
<1>4. /\ DOMAIN request'[q] = Fields /\ request'[q].phase = "done" /\ request'[q].code = code
      /\ request'[q].kind = request[q].kind
      /\ request'[q].pool = NoRows /\ request'[q].plan = NoRows
  BY <1>2, <1>3, AnsweredFields DEF ReqTyped
<1>5. code \in {200, 201, 204, 409, 500}
  BY <1>2, <1>3 DEF Decided
<1>6. ReqTyped(request[q])'
  BY <1>2, <1>4, <1>5, NoRowsFit DEF ReqTyped
<1>7. RowsTyped' /\ IsTable(robots)' /\ IsTable(tasks)'
  <2>1. CASE Wrote(q)
    <3>1. robots' = RobotsWith(w) /\ tasks' = TasksWith(w)
      BY <2>1 DEF Wrote
    <3>2. /\ DOMAIN RobotsWith(w) \subseteq RobotIds /\ AllIn(RobotsWith(w), RobotRow)
          /\ DOMAIN TasksWith(w) \subseteq TaskIds /\ AllIn(TasksWith(w), TaskRow)
      BY <1>2, WrittenRowsAreTyped DEF ServerTyped
    <3>3. IsTable(RobotsWith(w)) /\ IsTable(TasksWith(w))
      BY DEF IsTable, RobotsWith, TasksWith, Overlaid
    <3> HIDE DEF w
    <3>4. RowsTyped'
      BY <3>1, <3>2 DEF RowsTyped, AllIn
    <3>. QED  BY <3>1, <3>3, <3>4 DEF IsTable
  <2>2. CASE UNCHANGED <<robots, tasks>>
    BY <2>2, TablesStand
  <2>. QED  BY <1>1, <2>1, <2>2 DEF Refused
<1>8. Steps(q)
  BY <1>1, <1>4, <1>6 DEF Steps, IsSettled
<1>. QED  BY <1>4, <1>7, <1>8, StepsKeepTypes

-----------------------------------------------------------------------------
(* Steps of the dashboard that do not touch the rows.                      *)

Messages == {"nothing", "error", "not initialised", "initialised", "allocated", "recovered"}

LEMMA EndingIsTyped ==
  ASSUME ScriptTyped, NEW message \in Messages, EndsWith(message),
         late' \subseteq Requests, quiet' \in BOOLEAN, unawares' \in BOOLEAN,
         scenarioReady' \in BOOLEAN,
         DOMAIN allocation' \subseteq TaskIds, Range(allocation') \subseteq RobotIds
  PROVE  ScriptTyped'
<1>1. /\ pc' = "idle" /\ shown' = message /\ awaiting' = Nobody /\ todo' = {} /\ reply' = NoRows
  BY DEF EndsWith
<1>2. DashTypeOK'
  BY <1>1 DEF DashTypeOK, Messages, Loops
<1>3. DOMAIN reply' \subseteq TaskIds /\ Range(reply') \subseteq RobotIds
  BY <1>1, NoRowsIsEmpty DEF Range
<1>. QED  BY <1>1, <1>2, <1>3 DEF ScriptTyped

(* With a fault nothing is promised.                                       *)
LEMMA FaultsExcuse ==
  ASSUME FaultsAreKnown, Fault
  PROVE  FaultsAreKnown' /\ Progress' /\ Sides'
<1>1. faults' \in Nat /\ faults' # 0 /\ quiet' = FALSE
  BY DEF FaultsAreKnown, Fault
<1>. QED  BY <1>1 DEF FaultsAreKnown, Progress, Sides

LEMMA CannotConnectKeeps ==
  ASSUME DashInv, CannotConnect
  PROVE  DashInv'
<1>1. Fault /\ UNCHANGED Server /\ UNCHANGED <<allocation, scenarioReady, late, unawares>>
      /\ awaiting = Nobody
  BY DEF CannotConnect
<1>2. \/ EndsWith("error")
      \/ pc' \in {"read_tasks", "fail"} /\ UNCHANGED <<shown, awaiting, todo, seen, reply>>
  BY DEF CannotConnect
<1>3. ServerTyped'
  BY <1>1, ServerStands DEF DashInv
<1>4. ScriptTyped'
  <2>1. CASE EndsWith("error")
    BY <1>1, <2>1, EndingIsTyped DEF DashInv, ScriptTyped, DashTypeOK, Messages, Fault
  <2>2. CASE pc' \in {"read_tasks", "fail"} /\ UNCHANGED <<shown, awaiting, todo, seen, reply>>
    BY <1>1, <2>2 DEF DashInv, ScriptTyped, DashTypeOK, Fault
  <2>. QED  BY <1>2, <2>1, <2>2
<1>5. InFlight'
  BY <1>1, <1>2 DEF DashInv, InFlight, EndsWith, Server
<1>. QED  BY <1>1, <1>3, <1>4, <1>5, FaultsExcuse DEF DashInv

LEMMA TimeOutKeeps ==
  ASSUME DashInv, TimeOut
  PROVE  DashInv'
<1>1. /\ Fault /\ UNCHANGED Server /\ UNCHANGED <<allocation, scenarioReady, unawares>>
      /\ EndsWith("error") /\ late' = late \cup {awaiting} /\ awaiting # Nobody
  BY DEF TimeOut
<1>2. ServerTyped'
  BY <1>1, ServerStands DEF DashInv
<1>3. ScriptTyped'
  BY <1>1, EndingIsTyped DEF DashInv, ScriptTyped, DashTypeOK, Messages, Fault
<1>4. InFlight'
  BY <1>1 DEF DashInv, InFlight, EndsWith, Server
<1>. QED  BY <1>1, <1>2, <1>3, <1>4, FaultsExcuse DEF DashInv

(* Where requests other than one stay, and that one is answered for.       *)
LEMMA FlightStays ==
  ASSUME InFlight, NEW q \in Requests, OthersStay(q), late' = late,
         awaiting \in {awaiting', q, Nobody},
         q \in late \cup {awaiting'} \/ request'[q].phase = "none"
  PROVE  InFlight'
<1>1. \A p \in Requests \ {q} : request'[p].phase = request[p].phase
  BY DEF OthersStay, Fields
<1>2. ASSUME NEW p \in Requests \ late, p # awaiting' PROVE request'[p].phase = "none"
  <2>1. CASE p = q
    BY <1>2, <2>1
  <2>2. CASE p # q
    <3>1. p # awaiting
      BY <1>2, <2>2
    <3>. QED  BY <1>1, <2>2, <3>1 DEF InFlight
  <2>. QED  BY <2>1, <2>2
<1>. QED  BY <1>2 DEF InFlight

LEMMA ScriptStands ==
  ASSUME ScriptTyped, UNCHANGED <<sessionVars, scriptVars>>,
         late' \subseteq Requests, quiet' \in BOOLEAN, unawares' \in BOOLEAN
  PROVE  ScriptTyped'
<1>1. UNCHANGED <<allocation, scenarioReady, shown, pc, awaiting, todo, reply>>
  BY DEF sessionVars, scriptVars
<1>2. DashTypeOK'
  BY <1>1 DEF ScriptTyped, DashTypeOK
<1>. QED  BY <1>1, <1>2 DEF ScriptTyped

LEMMA BreakdownKeeps ==
  ASSUME DashInv, NEW q \in Requests, Breakdown(q)
  PROVE  DashInv'
<1>1. Fault /\ Unavailable(q) /\ UNCHANGED <<sessionVars, scriptVars, late, unawares>>
  BY DEF Breakdown
<1>2. Steps(q) /\ ServerTyped'
  <2>1. Shaped /\ ReqTyped(request[q]) /\ ServerTyped
    BY DEF DashInv, ServerTyped, IsSettled
  <2>. QED  BY <1>1, <2>1, UnavailableMoves, MovedKeepsTypes
<1>3. ScriptTyped'
  BY <1>1, ScriptStands DEF DashInv, ScriptTyped, DashTypeOK, Fault
<1>4. InFlight'
  <2>1. request[q].phase # "none" /\ awaiting' = awaiting /\ late' = late
    BY <1>1 DEF Unavailable, scriptVars
  <2>2. q \in late \cup {awaiting}
    BY <2>1 DEF DashInv, InFlight
  <2>. QED  BY <1>2, <2>1, <2>2, FlightStays DEF DashInv, Steps
<1>. QED  BY <1>1, <1>2, <1>3, <1>4, FaultsExcuse DEF DashInv

LEMMA DropAnswerKeeps ==
  ASSUME DashInv, NEW q \in Requests, DropAnswer(q)
  PROVE  DashInv'
<1>1. /\ q \in late /\ Read(q) /\ late' = late \ {q}
      /\ UNCHANGED <<sessionVars, scriptVars, faults, quiet, unawares>>
  BY DEF DropAnswer
<1>2. Steps(q) /\ ServerTyped' /\ request'[q].phase = "none"
  BY <1>1, ReadKeepsTypes DEF DashInv
<1>3. ScriptTyped'
  BY <1>1, ScriptStands DEF DashInv, ScriptTyped, DashTypeOK
<1>4. InFlight'
  <2>1. \A p \in Requests \ {q} : request'[p].phase = request[p].phase
    BY <1>2 DEF Steps, OthersStay, Fields
  <2>. QED  BY <1>1, <1>2, <2>1 DEF DashInv, InFlight, scriptVars
<1>5. ~ quiet /\ faults # 0
  BY <1>1 DEF DashInv, FaultsAreKnown
<1>6. FaultsAreKnown' /\ Progress' /\ Sides'
  BY <1>1, <1>5 DEF DashInv, FaultsAreKnown, Progress, Sides
<1>. QED  BY <1>2, <1>3, <1>4, <1>6 DEF DashInv

(* The demo's rows are sound, whatever the session believes.               *)
LEMMA DemoIsSound ==
  ASSUME NEW rs, NEW ts, NEW given, NEW X, NEW Y \in SUBSET TaskIds,
         DemoRobotsIn(rs, X), DemoTasksIn(ts, Y)
  PROVE  Sound(rs, ts, given)
<1>1. \A r \in DOMAIN rs : rs[r].task = NoTask
  BY DEF DemoRobotsIn, DemoRobot
<1>2. \A t \in DOMAIN ts : ~ IsActive(ts[t]) /\ t # NoTask
  <2>1. DOMAIN ts = Y /\ \A t \in Y : ts[t].status = "pending"
    BY DEF DemoTasksIn, DemoTask
  <2>2. \A t \in Y : t # NoTask
    OBVIOUS
  <2>. QED  BY <2>1, <2>2 DEF IsActive
<1>. QED  BY <1>1, <1>2 DEF Sound

LEMMA SoundForNobody ==
  ASSUME NEW rs, NEW ts, NEW given, Sound(rs, ts, given), NEW none, DOMAIN none = {}
  PROVE  Sound(rs, ts, none)
BY DEF Sound

LEMMA PressKeeps ==
  ASSUME DashInv, Operator
  PROVE  DashInv'
<1>1. /\ pc = "idle" /\ UNCHANGED Server /\ quiet' = (late = {})
      /\ UNCHANGED <<awaiting, todo, seen, reply, late, faults, unawares>>
  BY DEF Operator, Press, PressInitialise, PressAllocate, PressFail, PressReset
<1>2. \/ UNCHANGED sessionVars /\ pc' \in {"list_tasks", "allocate", "read_robots"}
      \/ /\ pc' = "idle" /\ allocation' = NoRows /\ scenarioReady' = FALSE
         /\ shown' = "nothing"
  BY <1>1 DEF Operator, PressInitialise, PressAllocate, PressFail, PressReset
<1>3. awaiting = Nobody
  BY <1>1 DEF DashInv, ScriptTyped, DashTypeOK
<1>4. ServerTyped'
  BY <1>1, ServerStands DEF DashInv
<1>5. ScriptTyped'
  <2>1. UNCHANGED sessionVars \/ (DOMAIN allocation' = {} /\ Range(allocation') = {})
    BY <1>2, NoRowsIsEmpty DEF Range
  <2>. QED  BY <1>1, <1>2, <1>3, <2>1 DEF DashInv, ScriptTyped, DashTypeOK, sessionVars, Loops
<1>6. InFlight'
  BY <1>1 DEF DashInv, InFlight, Server
<1>7. FaultsAreKnown'
  BY <1>1 DEF DashInv, FaultsAreKnown
<1>8. Progress'
  BY <1>1, <1>2, <1>3 DEF Progress, Halfway, IsExact
<1>9. Sides'
  <2>1. ASSUME faults = 0, ~ unawares PROVE Sound(robots', tasks', allocation')
    <3>1. Sound(robots, tasks, allocation)
      BY <1>1, <1>3, <2>1 DEF DashInv, Sides
    <3>2. robots' = robots /\ tasks' = tasks /\ (allocation' = allocation \/ DOMAIN allocation' = {})
      BY <1>1, <1>2, NoRowsIsEmpty DEF Server, sessionVars
    <3>. QED  BY <3>1, <3>2, SoundForNobody
  <2>. QED  BY <1>1, <1>3, <2>1 DEF Sides
<1>. QED  BY <1>4, <1>5, <1>6, <1>7, <1>8, <1>9 DEF DashInv

(* A step of Initialise between two calls.                                 *)
LEMMA StepKeeps ==
  ASSUME DashInv, NEW next \in Loops \cup {"list_robots", "count"}, NEW ids, Step(next, ids),
         awaiting = Nobody,
         ids \subseteq RobotIds \cup TaskIds,
         next = "delete_tasks" => ids \subseteq TaskIds,
         next = "create_tasks" => ids \subseteq DemoTasks,
         next = "delete_robots" => ids \subseteq RobotIds,
         next = "create_robots" => ids \subseteq DOMAIN Home,
         quiet => Halfway(next, ids, robots, tasks)
  PROVE  DashInv'
<1>1. /\ pc' = next /\ todo' = ids /\ UNCHANGED Server
      /\ UNCHANGED <<sessionVars, awaiting, seen, reply, worldVars>>
  BY DEF Step
<1>2. ServerTyped'
  BY <1>1, ServerStands DEF DashInv
<1>3. ScriptTyped'
  BY <1>1 DEF DashInv, ScriptTyped, DashTypeOK, sessionVars, worldVars, Loops
<1>4. InFlight' /\ FaultsAreKnown'
  BY <1>1 DEF DashInv, InFlight, FaultsAreKnown, Server, worldVars
<1>5. Progress'
  <2>1. robots' = robots /\ tasks' = tasks /\ awaiting' = Nobody /\ quiet' = quiet /\ pc' # "idle"
    BY <1>1 DEF Server, worldVars, Loops
  <2>. QED  BY <1>1, <2>1 DEF Progress
<1>6. Sides'
  BY <1>1 DEF Sides, Loops
<1>. QED  BY <1>2, <1>3, <1>4, <1>5, <1>6 DEF DashInv

LEMMA ListsKeep ==
  ASSUME DashInv, ListTasks \/ ListRobots \/ LoopEnds
  PROVE  DashInv'
<1>1. /\ RowsTyped
      /\ quiet /\ awaiting = Nobody => Halfway(pc, todo, robots, tasks)
      /\ pc \in {"list_tasks", "list_robots"} => awaiting = Nobody
  BY DEF DashInv, ServerTyped, Progress, ScriptTyped, Loops
<1>2. CASE ListTasks
  <2>1. Halfway("delete_tasks", DOMAIN tasks, robots, tasks)
    BY DEF Halfway
  <2>2. DOMAIN tasks \subseteq TaskIds
    BY <1>1 DEF RowsTyped
  <2>. QED  BY <1>1, <1>2, <2>1, <2>2, StepKeeps DEF ListTasks, Loops
<1>3. CASE ListRobots
  <2>1. quiet => Halfway("delete_robots", DOMAIN robots, robots, tasks)
    BY <1>1, <1>3 DEF Halfway, ListRobots
  <2>2. DOMAIN robots \subseteq RobotIds
    BY <1>1 DEF RowsTyped
  <2>. QED  BY <1>1, <1>3, <2>1, <2>2, StepKeeps DEF ListRobots, Loops
<1>4. CASE LoopEnds
  <2>1. awaiting = Nobody /\ todo = {} /\ (quiet => Halfway(pc, {}, robots, tasks))
    BY <1>1, <1>4 DEF LoopEnds
  <2>2. CASE pc = "delete_tasks" /\ Step("list_robots", {})
    <3>1. quiet => Halfway("list_robots", {}, robots, tasks)
      BY <2>1, <2>2 DEF Halfway
    <3>. QED  BY <2>1, <2>2, <3>1, StepKeeps
  <2>3. CASE pc = "delete_robots" /\ Step("create_robots", DOMAIN Home)
    <3>1. quiet => Halfway("create_robots", DOMAIN Home, robots, tasks)
      BY <2>1, <2>3 DEF Halfway, DemoRobotsIn
    <3>2. "create_robots" \in Loops /\ DOMAIN Home \subseteq RobotIds
      BY DEF Loops
    <3>. QED  BY <2>1, <2>3, <3>1, <3>2, StepKeeps
  <2>4. CASE pc = "create_robots" /\ Step("create_tasks", DemoTasks)
    <3>1. quiet => Halfway("create_tasks", DemoTasks, robots, tasks)
      BY <2>1, <2>4 DEF Halfway, DemoTasksIn
    <3>2. "create_tasks" \in Loops /\ DemoTasks \subseteq TaskIds
      BY DEF Loops
    <3>. QED  BY <2>1, <2>4, <3>1, <3>2, StepKeeps
  <2>5. CASE pc = "create_tasks" /\ Step("count", {})
    <3>1. quiet => Halfway("count", {}, robots, tasks)
      BY <2>1, <2>5 DEF Halfway
    <3>. QED  BY <2>1, <2>5, <3>1, StepKeeps
  <2>. QED  BY <1>4, <2>2, <2>3, <2>4, <2>5 DEF LoopEnds
<1>. QED  BY <1>2, <1>3, <1>4

LEMMA ReportKeeps ==
  ASSUME DashInv, Report
  PROVE  DashInv'
<1>1. /\ pc = "count" /\ EndsWith("initialised") /\ scenarioReady' = TRUE
      /\ UNCHANGED Server /\ UNCHANGED <<allocation, late, faults, quiet, unawares>>
  BY DEF Report, worldVars
<1>2. awaiting = Nobody
  BY <1>1 DEF DashInv, ScriptTyped, Loops
<1>3. ServerTyped'
  BY <1>1, ServerStands DEF DashInv
<1>4. ScriptTyped'
  BY <1>1, EndingIsTyped DEF DashInv, ScriptTyped, DashTypeOK, Messages
<1>5. InFlight' /\ FaultsAreKnown'
  BY <1>1, <1>2 DEF DashInv, InFlight, FaultsAreKnown, Server, EndsWith
<1>6. pc' = "idle" /\ awaiting' = Nobody /\ shown' = "initialised"
      /\ robots' = robots /\ tasks' = tasks
  BY <1>1 DEF EndsWith, Server
<1>7. quiet => DemoRobotsIn(robots, DOMAIN Home) /\ DemoTasksIn(tasks, DemoTasks)
  BY <1>1, <1>2 DEF DashInv, Progress, Halfway
<1>8. quiet => robots = DemoRobotRows /\ tasks = DemoTaskRows
  <2>1. robots = [r \in DOMAIN robots |-> robots[r]] /\ tasks = [t \in DOMAIN tasks |-> tasks[t]]
    BY DEF DashInv, ServerTyped, IsTable
  <2>2. DemoRobotsIn(robots, DOMAIN Home) => robots = DemoRobotRows
    BY <2>1 DEF DemoRobotsIn, DemoRobot, DemoRobotRows
  <2>3. DemoTasksIn(tasks, DemoTasks) => tasks = DemoTaskRows
    BY <2>1 DEF DemoTasksIn, DemoTask, DemoTaskRows
  <2>. QED  BY <1>7, <2>2, <2>3
<1>9. Progress'
  <2>1. quiet => robots' = DemoRobotRows /\ tasks' = DemoTaskRows
    BY <1>6, <1>8
  <2>2. IsExact' <=> (robots' = DemoRobotRows /\ tasks' = DemoTaskRows)
    BY <1>6 DEF IsExact, DemoRobotRows, DemoTaskRows
  <2>3. Halfway(pc', todo', robots', tasks')
    BY <1>6 DEF Halfway
  <2>. QED  BY <1>1, <1>6, <2>1, <2>2, <2>3 DEF Progress, Loops
<1>10. Sides'
  <2>1. quiet => Sound(robots', tasks', allocation')
    BY <1>6, <1>7, DemoIsSound
  <2>2. faults' = 0 => quiet
    BY <1>1 DEF DashInv, FaultsAreKnown
  <2>. QED  BY <1>6, <2>1, <2>2 DEF Sides
<1>. QED  BY <1>3, <1>4, <1>5, <1>9, <1>10 DEF DashInv

LEMMA LooksKeep ==
  ASSUME DashInv, ReadRobots \/ ReadTasks
  PROVE  DashInv'
<1>1. /\ pc \in {"read_robots", "read_tasks"} /\ pc' \in {"read_tasks", "fail"}
      /\ UNCHANGED Server /\ UNCHANGED <<sessionVars, awaiting, todo, reply, worldVars>>
  BY DEF ReadRobots, ReadTasks, Look
<1>2. awaiting = Nobody
  BY <1>1 DEF DashInv, ScriptTyped, Loops
<1>3. ServerTyped'
  BY <1>1, ServerStands DEF DashInv
<1>4. ScriptTyped'
  BY <1>1, <1>2 DEF DashInv, ScriptTyped, DashTypeOK, sessionVars, worldVars
<1>5. InFlight' /\ FaultsAreKnown'
  BY <1>1 DEF DashInv, InFlight, FaultsAreKnown, Server, worldVars
<1>6. Progress'
  BY <1>1, <1>2 DEF Progress, Halfway
<1>7. Sides'
  <2>1. robots' = robots /\ tasks' = tasks /\ allocation' = allocation /\ faults' = faults
        /\ unawares' = unawares /\ awaiting' = Nobody
    BY <1>1, <1>2 DEF Server, sessionVars, worldVars
  <2>2. faults = 0 /\ ~ unawares => Sound(robots, tasks, allocation)
    BY <1>1, <1>2 DEF DashInv, Sides
  <2>. QED  BY <2>1, <2>2 DEF Sides
<1>. QED  BY <1>3, <1>4, <1>5, <1>6, <1>7 DEF DashInv

-----------------------------------------------------------------------------
(* Answers that are read.                                                  *)

LEMMA ReadKeeps ==
  ASSUME DashInv, NEW q \in Requests, Read(q), awaiting = q, awaiting' = Nobody, late' = late
  PROVE  ServerTyped' /\ InFlight' /\ robots' = robots /\ tasks' = tasks
<1>1. Steps(q) /\ ServerTyped' /\ UNCHANGED <<robots, tasks>> /\ request'[q].phase = "none"
  BY ReadKeepsTypes DEF DashInv
<1>. QED  BY <1>1, FlightStays DEF DashInv, Steps

LEMMA LoopContinuesKeeps ==
  ASSUME DashInv, NEW q \in Requests, LoopContinues(q)
  PROVE  DashInv'
<1>1. /\ pc \in Loops /\ awaiting = q /\ request[q].phase = "done" /\ Read(q)
      /\ UNCHANGED <<allocation, scenarioReady, late, faults, quiet, unawares>>
      /\ awaiting' = Nobody
  BY DEF LoopContinues, worldVars, EndsWith
<1>2. ServerTyped' /\ InFlight' /\ robots' = robots /\ tasks' = tasks
  BY <1>1, ReadKeeps
<1>3. FaultsAreKnown'
  BY <1>1 DEF DashInv, FaultsAreKnown
<1>4. quiet => Succeeded(q) /\ Halfway(pc, todo \ {Min(todo)}, robots, tasks)
  <2>1. quiet => WillSucceed(request[q])
    BY <1>1 DEF DashInv, Progress
  <2>. QED  BY <1>1, <2>1 DEF WillSucceed, Succeeded
<1>5. CASE Succeeded(q)
  <2>1. /\ todo' = todo \ {Min(todo)} /\ UNCHANGED <<pc, shown, seen, reply>>
    BY <1>5 DEF LoopContinues
  <2>2. ScriptTyped'
    BY <1>1, <2>1 DEF DashInv, ScriptTyped, DashTypeOK
  <2>3. Progress'
    BY <1>1, <1>2, <1>4, <2>1 DEF Progress, Loops
  <2>4. Sides'
    BY <1>1, <2>1 DEF Sides, Loops
  <2>. QED  BY <1>2, <1>3, <2>2, <2>3, <2>4 DEF DashInv
<1>6. CASE ~ Succeeded(q)
  <2>1. EndsWith("not initialised")
    BY <1>6 DEF LoopContinues
  <2>2. ScriptTyped'
    BY <1>1, <2>1, EndingIsTyped DEF DashInv, ScriptTyped, DashTypeOK, Messages
  <2>3. ~ quiet' /\ faults' # 0
    BY <1>1, <1>4, <1>6 DEF DashInv, FaultsAreKnown
  <2>. QED  BY <1>2, <1>3, <2>2, <2>3 DEF DashInv, Progress, Sides
<1>. QED  BY <1>5, <1>6

(* A script of one call has its answer.                                    *)
LEMMA EndKeeps ==
  ASSUME DashInv, NEW q \in Requests, pc \in {"allocate", "fail"}, awaiting = q, Read(q),
         NEW message \in {"error", "allocated", "recovered"}, EndsWith(message),
         UNCHANGED <<scenarioReady, late, faults, quiet, unawares>>,
         DOMAIN allocation' \subseteq TaskIds, Range(allocation') \subseteq RobotIds,
         faults = 0 /\ ~ unawares => Sound(robots, tasks, allocation')
  PROVE  DashInv'
<1>1. pc' = "idle" /\ awaiting' = Nobody /\ shown' = message
  BY DEF EndsWith
<1>2. ServerTyped' /\ InFlight' /\ robots' = robots /\ tasks' = tasks
  BY <1>1, ReadKeeps
<1>3. FaultsAreKnown'
  BY DEF DashInv, FaultsAreKnown
<1>4. ScriptTyped'
  BY EndingIsTyped DEF DashInv, ScriptTyped, DashTypeOK, Messages
<1>5. Progress'
  BY <1>1 DEF Progress, Halfway, IsExact, Loops
<1>6. Sides'
  BY <1>1, <1>2 DEF Sides
<1>. QED  BY <1>2, <1>3, <1>4, <1>5, <1>6 DEF DashInv

LEMMA ReturnsKeep ==
  ASSUME DashInv, NEW q \in Requests, AllocationReturns(q) \/ FailureReturns(q)
  PROVE  DashInv'
<1>1. /\ pc \in {"allocate", "fail"} /\ awaiting = q /\ Read(q) /\ request[q].phase = "done"
      /\ UNCHANGED <<scenarioReady, late, faults, quiet, unawares>>
  BY DEF AllocationReturns, FailureReturns, worldVars
<1>2. faults = 0 /\ ~ unawares
        => Sound(robots, tasks, IF request[q].code < 400 THEN Believed ELSE allocation)
  BY <1>1 DEF DashInv, Sides, WillBeSound
<1>3. allocation' = IF request[q].code < 400 THEN Believed ELSE allocation
  BY DEF AllocationReturns, FailureReturns, Succeeded, Believed
<1>4. DOMAIN allocation' \subseteq TaskIds /\ Range(allocation') \subseteq RobotIds
  BY <1>3 DEF DashInv, ScriptTyped, DashTypeOK, Believed
<1>5. \E message \in {"error", "allocated", "recovered"} : EndsWith(message)
  BY DEF AllocationReturns, FailureReturns
<1>6. faults = 0 /\ ~ unawares => Sound(robots, tasks, allocation')
  BY <1>2, <1>3
<1>. QED  BY <1>1, <1>4, <1>5, <1>6, EndKeeps

-----------------------------------------------------------------------------
(* The calls of Initialise.                                                *)

LEMMA MinIsOneOfThem ==
  ASSUME NEW S \in SUBSET Nat, S # {}
  PROVE  Min(S) \in S
<1>1. PICK n \in S : \A m \in S : ~ (<<m, n>> \in OpToRel(<, Nat))
  BY NatLessThanWellFounded, WFMin
<1>2. \A m, k \in Nat : m < k => <<m, k>> \in OpToRel(<, Nat)
  BY Zenon DEF OpToRel
<1>3. \A m \in S : n <= m
  <2>1. \A m \in S : ~ (m < n)
    BY <1>1, <1>2
  <2>. QED  BY <2>1
<1>. QED  BY <1>3 DEF Min

(* Writes that update and delete nothing only add.                         *)
LEMMA AddedRows ==
  ASSUME RowsTyped, NEW w, w.robots = NoRows, w.tasks = NoRows, w.goneRobots = {}, w.goneTasks = {}
  PROVE  /\ \A r \in DOMAIN w.newRobots : RobotsWith(w)[r] = w.newRobots[r]
         /\ \A r \in DOMAIN robots \ DOMAIN w.newRobots : RobotsWith(w)[r] = robots[r]
         /\ \A t \in DOMAIN w.newTasks : TasksWith(w)[t] = w.newTasks[t]
         /\ \A t \in DOMAIN tasks \ DOMAIN w.newTasks : TasksWith(w)[t] = tasks[t]
<1> DEFINE rs == Without(Patched(robots, w.robots), w.goneRobots)
           kept == Without(Patched(tasks, w.tasks), w.goneTasks)
           ts == SetNull(kept, w.goneRobots)
<1>1. DOMAIN rs = DOMAIN robots /\ \A r \in DOMAIN robots : rs[r] = robots[r]
  BY NoRowsIsEmpty DEF Without, Restrict, Patched
<1>2. DOMAIN kept = DOMAIN tasks /\ \A t \in DOMAIN tasks : kept[t] = tasks[t]
  BY NoRowsIsEmpty DEF Without, Restrict, Patched
<1> HIDE DEF kept
<1>3. DOMAIN ts = DOMAIN tasks /\ \A t \in DOMAIN tasks : ts[t] = tasks[t]
  <2>1. ASSUME NEW t \in DOMAIN tasks PROVE ts[t] = tasks[t]
    <3>1. tasks[t] \in TaskRow
      BY DEF RowsTyped, AllIn
    <3>2. ts[t] = [tasks[t] EXCEPT !.robot = tasks[t].robot]
      BY <1>2 DEF SetNull
    <3>. QED  BY <3>1, <3>2 DEF TaskRow
  <2>2. DOMAIN ts = DOMAIN tasks
    BY <1>2 DEF SetNull
  <2>. QED  BY <2>1, <2>2
<1>4. RobotsWith(w) = Overlaid(w.newRobots, rs) /\ TasksWith(w) = Overlaid(w.newTasks, ts)
  BY DEF RobotsWith, TasksWith, kept
<1> HIDE DEF rs, ts
<1>5. /\ \A r \in DOMAIN w.newRobots : RobotsWith(w)[r] = w.newRobots[r]
      /\ \A r \in DOMAIN rs \ DOMAIN w.newRobots : RobotsWith(w)[r] = rs[r]
  <2>1. /\ \A i \in DOMAIN w.newRobots : Overlaid(w.newRobots, rs)[i] = w.newRobots[i]
        /\ \A i \in DOMAIN rs \ DOMAIN w.newRobots : Overlaid(w.newRobots, rs)[i] = rs[i]
    BY DEF Overlaid
  <2>. QED  BY <1>4, <2>1
<1>6. /\ \A t \in DOMAIN w.newTasks : TasksWith(w)[t] = w.newTasks[t]
      /\ \A t \in DOMAIN ts \ DOMAIN w.newTasks : TasksWith(w)[t] = ts[t]
  <2>1. /\ \A i \in DOMAIN w.newTasks : Overlaid(w.newTasks, ts)[i] = w.newTasks[i]
        /\ \A i \in DOMAIN ts \ DOMAIN w.newTasks : Overlaid(w.newTasks, ts)[i] = ts[i]
    BY DEF Overlaid
  <2>. QED  BY <1>4, <2>1
<1>7. \A r \in DOMAIN robots \ DOMAIN w.newRobots : RobotsWith(w)[r] = robots[r]
  BY <1>1, <1>5
<1>8. \A t \in DOMAIN tasks \ DOMAIN w.newTasks : TasksWith(w)[t] = tasks[t]
  BY <1>3, <1>6
<1>. QED  BY <1>5, <1>6, <1>7, <1>8

(* The two loops that delete have gone on by one row.                      *)
LEMMA DeletionGoesOn ==
  ASSUME NEW left, NEW rs, NEW ts,
         \/ pc = "delete_tasks" /\ DOMAIN ts = left
         \/ pc = "delete_robots" /\ DOMAIN ts = {} /\ DOMAIN rs = left
  PROVE  Halfway(pc, left, rs, ts)
BY DEF Halfway

LEMMA StagedIs ==
  ASSUME ServerTyped, NEW q \in Requests, NEW kind, NEW id, NEW w, NEW code,
         Stage(q, kind, id, w, code)
  PROVE  /\ request'[q].phase = "flush" /\ request'[q].code = code /\ request'[q].writes = w
         /\ robots' = robots /\ tasks' = tasks
<1>1. PICK req : req = Staged(request[q], kind, id, w, code)
  OBVIOUS
<1>2. request' = [request EXCEPT ![q] = req] /\ UNCHANGED <<robots, tasks>>
  BY <1>1, StageIs
<1>3. request'[q] = req
  BY <1>2 DEF ServerTyped, Shaped
<1>. QED  BY <1>1, <1>2, <1>3, StagedFields DEF ServerTyped, Shaped

LEMMA CallWillSucceed ==
  ASSUME ServerTyped, NEW q \in Requests, NEW kind, NEW id, NEW w, NEW code \in {201, 204},
         Stage(q, kind, id, w, code), ~ ConstraintFires(w), RowsAreThere(w),
         Halfway(pc, todo \ {Min(todo)}, RobotsWith(w), TasksWith(w)),
         pc' = pc, todo' = todo
  PROVE  WillSucceed(request[q])'
<1>1. /\ request'[q].phase = "flush" /\ request'[q].code = code /\ request'[q].writes = w
      /\ robots' = robots /\ tasks' = tasks
  BY StagedIs
<1>2. RobotsWith(request[q].writes)' = RobotsWith(w) /\ TasksWith(request[q].writes)' = TasksWith(w)
  BY <1>1 DEF RobotsWith, TasksWith
<1>3. ~ ConstraintFires(request[q].writes)' /\ RowsAreThere(request[q].writes)'
  BY <1>1 DEF ConstraintFires, RowsAreThere
<1>. QED  BY <1>1, <1>2, <1>3 DEF WillSucceed

LEMMA DeleteTaskCall ==
  ASSUME DashInv, NEW q \in Requests, pc = "delete_tasks", Min(todo) \in todo,
         Halfway(pc, todo, robots, tasks), DeleteTask(q, Min(todo)), pc' = pc, todo' = todo
  PROVE  WillSucceed(request[q])'
<1> DEFINE w == [NoWrites EXCEPT !.goneTasks = {Min(todo)}]
<1>1. DOMAIN tasks = todo
  BY DEF Halfway
<1>2. Stage(q, "delete_task", Min(todo), w, 204)
  BY <1>1 DEF DeleteTask
<1>3. /\ w.newRobots = NoRows /\ w.robots = NoRows /\ w.goneRobots = {}
      /\ w.newTasks = NoRows /\ w.tasks = NoRows /\ w.goneTasks = {Min(todo)}
  BY DEF NoWrites
<1> HIDE DEF w
<1>4. ~ ConstraintFires(w) /\ RowsAreThere(w)
  BY <1>3, NoRowsIsEmpty DEF ConstraintFires, RowsAreThere
<1>5. DOMAIN TasksWith(w) = todo \ {Min(todo)}
  <2>1. DOMAIN TasksWith(w) = DOMAIN w.newTasks \cup (DOMAIN tasks \ w.goneTasks)
    BY WithDomains
  <2>2. DOMAIN w.newTasks = {} /\ w.goneTasks = {Min(todo)}
    BY <1>3, NoRowsIsEmpty
  <2>. QED  BY <1>1, <2>1, <2>2
<1>6. Halfway(pc, todo \ {Min(todo)}, RobotsWith(w), TasksWith(w))
  BY <1>5, DeletionGoesOn
<1>. QED  BY <1>2, <1>4, <1>6, CallWillSucceed DEF DashInv

LEMMA DeleteRobotCall ==
  ASSUME DashInv, NEW q \in Requests, pc = "delete_robots", Min(todo) \in todo,
         Halfway(pc, todo, robots, tasks), DeleteRobot(q, Min(todo)), pc' = pc, todo' = todo
  PROVE  WillSucceed(request[q])'
<1> DEFINE w == [NoWrites EXCEPT !.goneRobots = {Min(todo)}]
<1>1. DOMAIN robots = todo /\ DOMAIN tasks = {}
  BY DEF Halfway
<1>2. Stage(q, "delete_robot", Min(todo), w, 204)
  BY <1>1 DEF DeleteRobot
<1>3. /\ w.newRobots = NoRows /\ w.robots = NoRows /\ w.goneRobots = {Min(todo)}
      /\ w.newTasks = NoRows /\ w.tasks = NoRows /\ w.goneTasks = {}
  BY DEF NoWrites
<1> HIDE DEF w
<1>4. ~ ConstraintFires(w) /\ RowsAreThere(w)
  BY <1>3, NoRowsIsEmpty DEF ConstraintFires, RowsAreThere
<1>5. DOMAIN RobotsWith(w) = todo \ {Min(todo)} /\ DOMAIN TasksWith(w) = {}
  <2>1. /\ DOMAIN RobotsWith(w) = DOMAIN w.newRobots \cup (DOMAIN robots \ w.goneRobots)
        /\ DOMAIN TasksWith(w) = DOMAIN w.newTasks \cup (DOMAIN tasks \ w.goneTasks)
    BY WithDomains
  <2>2. /\ DOMAIN w.newRobots = {} /\ w.goneRobots = {Min(todo)}
        /\ DOMAIN w.newTasks = {} /\ w.goneTasks = {}
    BY <1>3, NoRowsIsEmpty
  <2>. QED  BY <1>1, <2>1, <2>2
<1>6. Halfway(pc, todo \ {Min(todo)}, RobotsWith(w), TasksWith(w))
  BY <1>5, DeletionGoesOn
<1>. QED  BY <1>2, <1>4, <1>6, CallWillSucceed DEF DashInv

LEMMA CreateRobotCall ==
  ASSUME DashInv, NEW q \in Requests, pc = "create_robots", Min(todo) \in todo,
         Halfway(pc, todo, robots, tasks), CreateRobot(q, Min(todo), Home[Min(todo)], "idle"),
         pc' = pc, todo' = todo
  PROVE  WillSucceed(request[q])'
<1>0. PICK r : r = Min(todo)
  OBVIOUS
<1> DEFINE w == [NoWrites EXCEPT !.newRobots = Single(r, DemoRobot(r))]
<1>1. /\ DOMAIN tasks = {} /\ DOMAIN robots = DOMAIN Home \ todo
      /\ \A i \in DOMAIN robots : robots[i] = DemoRobot(i)
      /\ r \in todo /\ r \in DOMAIN Home
  BY <1>0 DEF Halfway, DemoRobotsIn, DashInv, ScriptTyped
<1>2. r \notin DOMAIN robots /\ ~ IsTaken(Home[r], NoRobot)
  <2>1. ASSUME NEW i \in DOMAIN robots PROVE robots[i].cell # Home[r]
    <3>1. robots[i].cell = Home[i] /\ i # r /\ i \in DOMAIN Home
      BY <1>1 DEF DemoRobot
    <3>. QED  BY <1>1, <3>1 DEF IsInjective
  <2>. QED  BY <1>1, <2>1 DEF IsTaken
<1>3. Stage(q, "create_robot", r, w, 201)
  BY <1>0, <1>2 DEF CreateRobot, DemoRobot
<1>4. /\ w.newRobots = Single(r, DemoRobot(r)) /\ w.robots = NoRows /\ w.goneRobots = {}
      /\ w.newTasks = NoRows /\ w.tasks = NoRows /\ w.goneTasks = {}
  BY DEF NoWrites
<1> HIDE DEF w
<1>5. DOMAIN w.newRobots = {r} /\ w.newRobots[r] = DemoRobot(r)
  BY <1>4 DEF Single
<1>6. ~ ConstraintFires(w) /\ RowsAreThere(w)
  BY <1>2, <1>4, <1>5, NoRowsIsEmpty DEF ConstraintFires, RowsAreThere
<1>7. DOMAIN RobotsWith(w) = DOMAIN Home \ (todo \ {r}) /\ DOMAIN TasksWith(w) = {}
  <2>1. /\ DOMAIN RobotsWith(w) = DOMAIN w.newRobots \cup (DOMAIN robots \ w.goneRobots)
        /\ DOMAIN TasksWith(w) = DOMAIN w.newTasks \cup (DOMAIN tasks \ w.goneTasks)
    BY WithDomains
  <2>2. DOMAIN w.newTasks = {}
    BY <1>4, NoRowsIsEmpty
  <2>3. DOMAIN RobotsWith(w) = {r} \cup DOMAIN robots /\ DOMAIN TasksWith(w) = DOMAIN tasks
    BY <1>4, <1>5, <2>1, <2>2
  <2>. QED  BY <1>1, <2>3
<1>8. \A i \in DOMAIN Home \ (todo \ {r}) : RobotsWith(w)[i] = DemoRobot(i)
  <2>1. /\ RobotsWith(w)[r] = DemoRobot(r)
        /\ \A i \in DOMAIN robots \ {r} : RobotsWith(w)[i] = robots[i]
    BY <1>4, <1>5, AddedRows DEF DashInv, ServerTyped
  <2>. QED  BY <1>1, <2>1
<1>9. Halfway(pc, todo \ {Min(todo)}, RobotsWith(w), TasksWith(w))
  BY <1>0, <1>7, <1>8 DEF Halfway, DemoRobotsIn
<1>. QED  BY <1>3, <1>6, <1>9, CallWillSucceed DEF DashInv

LEMMA CreateTaskCall ==
  ASSUME DashInv, NEW q \in Requests, pc = "create_tasks", Min(todo) \in todo,
         Halfway(pc, todo, robots, tasks), CreateTask(q, Min(todo)), pc' = pc, todo' = todo
  PROVE  WillSucceed(request[q])'
<1>0. PICK t : t = Min(todo)
  OBVIOUS
<1> DEFINE w == [NoWrites EXCEPT !.newTasks = Single(t, DemoTask)]
<1>1. /\ DemoRobotsIn(robots, DOMAIN Home) /\ DOMAIN tasks = DemoTasks \ todo
      /\ \A i \in DOMAIN tasks : tasks[i] = DemoTask
      /\ t \in todo /\ t \in DemoTasks
  BY <1>0 DEF Halfway, DemoTasksIn, DashInv, ScriptTyped
<1>2. t \notin DOMAIN tasks
  BY <1>1
<1>3. Stage(q, "create_task", t, w, 201)
  BY <1>0, <1>2 DEF CreateTask, DemoTask
<1>4. /\ w.newTasks = Single(t, DemoTask) /\ w.robots = NoRows /\ w.goneRobots = {}
      /\ w.newRobots = NoRows /\ w.tasks = NoRows /\ w.goneTasks = {}
  BY DEF NoWrites
<1> HIDE DEF w
<1>5. DOMAIN w.newTasks = {t} /\ w.newTasks[t] = DemoTask
  BY <1>4 DEF Single
<1>6. ~ ConstraintFires(w) /\ RowsAreThere(w)
  BY <1>2, <1>4, <1>5, NoRowsIsEmpty DEF ConstraintFires, RowsAreThere
<1>7. DOMAIN RobotsWith(w) = DOMAIN robots /\ DOMAIN TasksWith(w) = DemoTasks \ (todo \ {t})
  <2>1. /\ DOMAIN RobotsWith(w) = DOMAIN w.newRobots \cup (DOMAIN robots \ w.goneRobots)
        /\ DOMAIN TasksWith(w) = DOMAIN w.newTasks \cup (DOMAIN tasks \ w.goneTasks)
    BY WithDomains
  <2>2. DOMAIN w.newRobots = {}
    BY <1>4, NoRowsIsEmpty
  <2>3. DOMAIN RobotsWith(w) = DOMAIN robots /\ DOMAIN TasksWith(w) = {t} \cup DOMAIN tasks
    BY <1>4, <1>5, <2>1, <2>2
  <2>. QED  BY <1>1, <2>3
<1>8. /\ \A i \in DemoTasks \ (todo \ {t}) : TasksWith(w)[i] = DemoTask
      /\ \A i \in DOMAIN robots : RobotsWith(w)[i] = robots[i]
  <2>1. /\ TasksWith(w)[t] = DemoTask
        /\ \A i \in DOMAIN tasks \ {t} : TasksWith(w)[i] = tasks[i]
        /\ \A i \in DOMAIN robots : RobotsWith(w)[i] = robots[i]
    BY <1>4, <1>5, NoRowsIsEmpty, AddedRows DEF DashInv, ServerTyped
  <2>. QED  BY <1>1, <2>1
<1>9. DemoRobotsIn(RobotsWith(w), DOMAIN Home)
  BY <1>1, <1>7, <1>8 DEF DemoRobotsIn
<1>10. Halfway(pc, todo \ {Min(todo)}, RobotsWith(w), TasksWith(w))
  BY <1>0, <1>7, <1>8, <1>9 DEF Halfway, DemoTasksIn
<1>. QED  BY <1>3, <1>6, <1>10, CallWillSucceed DEF DashInv

-----------------------------------------------------------------------------
LEMMA LoopCallsKeep ==
  ASSUME DashInv, NEW q \in Requests, LoopCalls(q)
  PROVE  DashInv'
<1>1. /\ pc \in Loops /\ awaiting = Nobody /\ todo # {} /\ CallFor(q, Min(todo)) /\ awaiting' = q
      /\ UNCHANGED <<sessionVars, pc, todo, seen, reply, worldVars>>
  BY DEF LoopCalls, Await
<1>2. UNCHANGED <<allocation, scenarioReady, shown, late, faults, quiet, unawares>>
  BY <1>1 DEF sessionVars, worldVars
<1>3. /\ Shaped /\ RowsTyped /\ ServerTyped
      /\ quiet => Halfway(pc, todo, robots, tasks)
      /\ pc = "delete_tasks" => todo \subseteq TaskIds
      /\ pc = "create_tasks" => todo \subseteq DemoTasks
      /\ pc = "delete_robots" => todo \subseteq RobotIds
      /\ pc = "create_robots" => todo \subseteq DOMAIN Home
  BY <1>1 DEF DashInv, ServerTyped, ScriptTyped, Progress
<1>4. Min(todo) \in todo
  <2>1. todo \subseteq Nat
    BY <1>1, <1>3 DEF Loops
  <2>. QED  BY <1>1, <2>1, MinIsOneOfThem
<1>5. Moved(q)
  <2>1. CASE pc = "delete_tasks" /\ DeleteTask(q, Min(todo))
    BY <1>3, <1>4, <2>1, DeleteTaskMoves
  <2>2. CASE pc = "delete_robots" /\ DeleteRobot(q, Min(todo))
    BY <1>3, <1>4, <2>2, DeleteRobotMoves
  <2>3. CASE pc = "create_robots" /\ CreateRobot(q, Min(todo), Home[Min(todo)], "idle")
    <3>1. Min(todo) \in DOMAIN Home /\ Min(todo) \in RobotIds
      BY <1>3, <1>4, <2>3
    <3>2. Home[Min(todo)] \in Places
      BY <3>1 DEF Range
    <3>3. "idle" \in RobotStatuses
      BY DEF RobotStatuses
    <3>. QED  BY <1>3, <2>3, <3>1, <3>2, <3>3, CreateRobotMoves
  <2>4. CASE pc = "create_tasks" /\ CreateTask(q, Min(todo))
    <3>1. Min(todo) \in TaskIds
      BY <1>3, <1>4, <2>4
    <3>. QED  BY <1>3, <2>4, <3>1, CreateTaskMoves
  <2>. QED  BY <1>1, <2>1, <2>2, <2>3, <2>4 DEF CallFor
<1>6. Steps(q) /\ ServerTyped'
  BY <1>3, <1>5, MovedKeepsTypes
<1>7. InFlight'
  BY <1>1, <1>2, <1>6, FlightStays DEF DashInv, Steps
<1>8. ScriptTyped'
  BY <1>1, <1>2 DEF DashInv, ScriptTyped, DashTypeOK, Loops
<1>9. FaultsAreKnown'
  BY <1>2 DEF DashInv, FaultsAreKnown
<1>10. quiet => WillSucceed(request[q])'
  <2> HAVE quiet
  <2>0. Halfway(pc, todo, robots, tasks) /\ pc' = pc /\ todo' = todo
    BY <1>1, <1>3
  <2>1. CASE pc = "delete_tasks" /\ DeleteTask(q, Min(todo))
    BY <1>4, <2>0, <2>1, DeleteTaskCall
  <2>2. CASE pc = "delete_robots" /\ DeleteRobot(q, Min(todo))
    BY <1>4, <2>0, <2>2, DeleteRobotCall
  <2>3. CASE pc = "create_robots" /\ CreateRobot(q, Min(todo), Home[Min(todo)], "idle")
    BY <1>4, <2>0, <2>3, CreateRobotCall
  <2>4. CASE pc = "create_tasks" /\ CreateTask(q, Min(todo))
    BY <1>4, <2>0, <2>4, CreateTaskCall
  <2>. QED  BY <1>1, <2>1, <2>2, <2>3, <2>4 DEF CallFor
<1>11. Progress'
  <2>1. WillSucceed(request[q])' => WillSucceed(request[awaiting])'
    BY <1>1 DEF WillSucceed
  <2>. QED  BY <1>1, <1>2, <1>10, <2>1 DEF Progress, Loops
<1>12. Sides'
  BY <1>1 DEF Sides, Loops
<1>. QED  BY <1>6, <1>7, <1>8, <1>9, <1>11, <1>12 DEF DashInv

-----------------------------------------------------------------------------
(* The calls of the other two buttons.                                     *)

LEMMA CallKeeps ==
  ASSUME DashInv, NEW q \in Requests, pc \in {"allocate", "fail"}, awaiting = Nobody,
         awaiting' = q, Steps(q), ServerTyped', unawares' \in BOOLEAN, unawares => unawares',
         UNCHANGED <<sessionVars, pc, todo, seen, reply, late, faults, quiet>>,
         ~ unawares' /\ Sound(robots, tasks, allocation) => WillBeSound(request[q])'
  PROVE  DashInv'
<1>1. InFlight'
  BY FlightStays DEF DashInv, Steps
<1>2. ScriptTyped'
  BY DEF DashInv, ScriptTyped, DashTypeOK, sessionVars
<1>3. FaultsAreKnown'
  BY DEF DashInv, FaultsAreKnown
<1>4. Progress'
  BY DEF Progress, Loops
<1>5. Sides'
  <2>1. faults = 0 /\ ~ unawares => Sound(robots, tasks, allocation)
    BY DEF DashInv, Sides
  <2>2. WillBeSound(request[q])' => WillBeSound(request[awaiting])'
    BY DEF WillBeSound
  <2>. QED  BY <2>1, <2>2 DEF Sides
<1>. QED  BY <1>1, <1>2, <1>3, <1>4, <1>5 DEF DashInv

LEMMA CallAllocationKeeps ==
  ASSUME DashInv, NEW q \in Requests, CallAllocation(q)
  PROVE  DashInv'
<1>1. /\ pc = "allocate" /\ awaiting = Nobody /\ ListFreeRobots(q) /\ awaiting' = q
      /\ UNCHANGED <<sessionVars, pc, todo, seen, reply, late, faults, quiet, unawares>>
  BY DEF CallAllocation, Await, worldVars
<1>2. Shaped /\ RowsTyped /\ ServerTyped /\ ReqTyped(request[q]) /\ DOMAIN request = Requests
  BY DEF DashInv, ServerTyped, IsSettled, Shaped
<1>3. Steps(q) /\ ServerTyped' /\ robots' = robots /\ tasks' = tasks
  BY <1>1, <1>2, ListFreeRobotsMoves, MovedKeepsTypes
<1>4. request'[q].phase = "list_tasks" /\ request'[q].pool = FreeRobots
  <2>1. request'[q] = [request[q] EXCEPT !.phase = "list_tasks", !.kind = "allocation",
                                         !.pool = FreeRobots]
    BY <1>1, <1>2 DEF ListFreeRobots, FreeRobots
  <2>2. DOMAIN request[q] = Fields
    BY <1>2 DEF Shaped
  <2>. QED  BY <2>1, <2>2 DEF Fields
<1>5. FreeRobots' = FreeRobots
  BY <1>3 DEF FreeRobots, IsFree
<1>6. unawares \in BOOLEAN
  BY DEF DashInv, ScriptTyped, DashTypeOK
<1>7. Sound(robots, tasks, allocation) => WillBeSound(request[q])'
  <2>1. allocation' = allocation /\ pc' = "allocate"
    BY <1>1 DEF sessionVars
  <2>. QED  BY <1>3, <1>4, <1>5, <2>1 DEF WillBeSound
<1>. QED  BY <1>1, <1>3, <1>6, <1>7, CallKeeps

(* Tables in which the failure of f has handed task t to the spare.        *)
HandedOver(f, t, rs, ts) ==
  /\ DOMAIN rs = DOMAIN robots /\ DOMAIN ts = DOMAIN tasks
  /\ \A r \in DOMAIN robots :
       rs[r].task = IF r = f THEN NoTask ELSE IF r = Spare THEN t ELSE robots[r].task
  /\ \A k \in DOMAIN tasks :
       /\ ts[k].status = IF k = t THEN "assigned" ELSE tasks[k].status
       /\ ts[k].robot = IF k = t THEN Spare ELSE tasks[k].robot

LEMMA HandedOverIsSound ==
  ASSUME RowsTyped, NEW rs, NEW ts, NEW given, Sound(robots, tasks, given),
         NEW t \in DOMAIN given, Spare \in DOMAIN robots, Spare \notin Range(given),
         robots[Spare].task = NoTask, HandedOver(given[t], t, rs, ts)
  PROVE  Sound(rs, ts, given)
<1> DEFINE f == given[t]
<1>1. /\ \A k \in DOMAIN tasks : k # NoTask
      /\ \A k \in DOMAIN given : given[k] # Spare
  BY DEF RowsTyped, Range
<1>2. /\ DOMAIN rs = DOMAIN robots /\ DOMAIN ts = DOMAIN tasks
      /\ \A r \in DOMAIN robots :
           rs[r].task = IF r = f THEN NoTask ELSE IF r = Spare THEN t ELSE robots[r].task
      /\ \A k \in DOMAIN tasks \ {t} :
           ts[k].robot = tasks[k].robot /\ (IsActive(ts[k]) <=> IsActive(tasks[k]))
      /\ t \in DOMAIN tasks => ts[t].robot = Spare /\ IsActive(ts[t])
  BY DEF HandedOver, IsActive
<1>3. /\ \A r \in DOMAIN robots, k \in DOMAIN tasks :
           (robots[r].task = k) <=> (tasks[k].robot = r /\ IsActive(tasks[k]))
      /\ \A k \in DOMAIN given :
           /\ given[k] \in DOMAIN robots => robots[given[k]].task \in {NoTask, k}
           /\ k \in DOMAIN tasks /\ IsActive(tasks[k]) => tasks[k].robot \in {given[k], Spare}
  BY DEF Sound
<1> HIDE DEF f
<1>4. f # Spare /\ (f \in DOMAIN robots => robots[f].task \in {NoTask, t})
      /\ (t \in DOMAIN tasks /\ IsActive(tasks[t]) => tasks[t].robot \in {f, Spare})
  BY <1>1, <1>3 DEF f
<1>5. ASSUME NEW r \in DOMAIN robots, NEW k \in DOMAIN tasks
      PROVE  (rs[r].task = k) <=> (ts[k].robot = r /\ IsActive(ts[k]))
  <2>1. CASE r = f
    BY <1>1, <1>2, <1>3, <1>4, <2>1
  <2>2. CASE r = Spare
    BY <1>1, <1>2, <1>3, <1>4, <2>2
  <2>3. CASE r # f /\ r # Spare
    <3>1. CASE k = t
      BY <1>2, <1>3, <1>4, <2>3, <3>1
    <3>2. CASE k # t
      BY <1>2, <1>3, <2>3, <3>2
    <3>. QED  BY <3>1, <3>2
  <2>. QED  BY <2>1, <2>2, <2>3
<1>6. ASSUME NEW k \in DOMAIN given
      PROVE  /\ given[k] \in DOMAIN robots => rs[given[k]].task \in {NoTask, k}
             /\ k \in DOMAIN tasks /\ IsActive(ts[k]) => ts[k].robot \in {given[k], Spare}
  <2>1. given[k] # Spare
    BY <1>1
  <2>2. given[k] \in DOMAIN robots => rs[given[k]].task \in {NoTask, k}
    BY <1>2, <1>3, <2>1
  <2>3. k \in DOMAIN tasks /\ IsActive(ts[k]) => ts[k].robot \in {given[k], Spare}
    BY <1>2, <1>3
  <2>. QED  BY <2>2, <2>3
<1>. QED  BY <1>2, <1>5, <1>6 DEF Sound

(* Writes that say nothing leave the tables as they are.                   *)
LEMMA NoWritesAreSound ==
  ASSUME RowsTyped, NEW given, Sound(robots, tasks, given)
  PROVE  Sound(RobotsWith(NoWrites), TasksWith(NoWrites), given)
<1> DEFINE rs == RobotsWith(NoWrites)
           ts == TasksWith(NoWrites)
<1>1. /\ NoWrites.newRobots = NoRows /\ NoWrites.robots = NoRows /\ NoWrites.goneRobots = {}
      /\ NoWrites.newTasks = NoRows /\ NoWrites.tasks = NoRows /\ NoWrites.goneTasks = {}
  BY DEF NoWrites
<1>2. DOMAIN rs = DOMAIN robots /\ DOMAIN ts = DOMAIN tasks
  BY <1>1, NoRowsIsEmpty, WithDomains
<1>3. /\ \A r \in DOMAIN robots : rs[r] = robots[r]
      /\ \A t \in DOMAIN tasks : ts[t] = tasks[t]
  BY <1>1, NoRowsIsEmpty, AddedRows
<1> HIDE DEF rs, ts
<1>4. Sound(rs, ts, given)
  BY <1>2, <1>3 DEF Sound
<1>. QED  BY <1>4 DEF rs, ts

LEMMA ReassignmentIsSound ==
  ASSUME ServerTyped, NEW q \in Requests, NEW given, Sound(robots, tasks, given),
         NEW t \in DOMAIN given, t \in TaskIds, NEW f, f = given[t], Spare \notin Range(given),
         Spare \in DOMAIN robots => robots[Spare].task = NoTask,
         PersistReassignment(q, f, Spare, t)
  PROVE  /\ request'[q].phase = "flush" /\ robots' = robots /\ tasks' = tasks
         /\ Sound(RobotsWith(request'[q].writes), TasksWith(request'[q].writes), given)
<1> DEFINE outcome == Overlaid(Single(f, [status |-> "offline", task |-> NoTask]),
                               Single(Spare, [status |-> "assigned", task |-> t]))
           new == [r \in {f, Spare} \cap DOMAIN robots |-> RobotTarget(robots[r], outcome[r])]
           target == [status |-> "assigned", robot |-> Spare]
           w == [NoWrites EXCEPT !.robots = Updates(robots, new),
                                 !.tasks = Updates(tasks, Single(t, target))]
<1>0. RowsTyped
  BY DEF ServerTyped
<1>1. CASE t \notin DOMAIN tasks \/ Spare \notin DOMAIN robots
  <2>1. Stage(q, "recovery", t, NoWrites, 200)
    BY <1>1 DEF PersistReassignment
  <2>2. request'[q].phase = "flush" /\ request'[q].writes = NoWrites
        /\ robots' = robots /\ tasks' = tasks
    BY <2>1, StagedIs
  <2>3. Sound(RobotsWith(NoWrites), TasksWith(NoWrites), given)
    BY <1>0, NoWritesAreSound
  <2>. QED  BY <2>2, <2>3
<1>2. CASE t \in DOMAIN tasks /\ Spare \in DOMAIN robots
  <2>1. Stage(q, "recovery", t, w, 200) /\ f # Spare
    BY <1>2 DEF PersistReassignment
  <2>2. request'[q].phase = "flush" /\ request'[q].writes = w
        /\ robots' = robots /\ tasks' = tasks
    BY <2>1, StagedIs
  <2>3. /\ w.newRobots = NoRows /\ w.robots = Updates(robots, new) /\ w.goneRobots = {}
        /\ w.newTasks = NoRows /\ w.tasks = Updates(tasks, Single(t, target)) /\ w.goneTasks = {}
    BY DEF NoWrites
  <2>4. /\ DOMAIN new = {f, Spare} \cap DOMAIN robots
        /\ f \in DOMAIN robots => new[f].task = NoTask
        /\ new[Spare].task = t
    <3>1. outcome[f].task = NoTask /\ outcome[Spare].task = t
      BY <2>1 DEF Overlaid, Single
    <3> HIDE DEF outcome
    <3>2. \A r \in DOMAIN robots : robots[r] \in RobotRow
      BY <1>0 DEF RowsTyped, AllIn
    <3>3. \A r \in {f, Spare} \cap DOMAIN robots : new[r].task = outcome[r].task
      BY <3>2 DEF RobotTarget, RobotRow
    <3>. QED  BY <1>2, <3>1, <3>3
  <2>5. /\ DOMAIN Single(t, target) = {t} /\ Single(t, target)[t].status = "assigned"
        /\ Single(t, target)[t].robot = Spare
    BY DEF Single
  <2>6. PICK newTasks : newTasks = Single(t, target)
    OBVIOUS
  <2> HIDE DEF w, new, target
  <2>7. HaveColumns(robots, RobotColumns) /\ HaveColumns(tasks, TaskColumns)
    BY <1>0, RowsHaveColumns
  <2>8. SomeColumns(w.robots, RobotColumns) /\ SomeColumns(w.tasks, TaskColumns)
    BY <2>3, <2>7, UpdatesHaveColumns DEF HaveColumns
  <2>9. WritesAreTyped(w)
    BY <2>3, <2>8, NoRowsIsEmpty DEF WritesAreTyped, HaveColumns
  <2>10. /\ DOMAIN RobotsWith(w) = DOMAIN robots /\ DOMAIN TasksWith(w) = DOMAIN tasks
         /\ \A r \in DOMAIN robots : \A c \in RobotColumns :
              RobotsWith(w)[r][c] = IF r \in DOMAIN new THEN new[r][c] ELSE robots[r][c]
         /\ \A k \in DOMAIN tasks : \A c \in TaskColumns :
              TasksWith(w)[k][c] = IF k \in DOMAIN newTasks THEN newTasks[k][c] ELSE tasks[k][c]
    <3>1. /\ w.newRobots = NoRows /\ w.newTasks = NoRows /\ w.goneRobots = {} /\ w.goneTasks = {}
          /\ w.robots = Updates(robots, new) /\ w.tasks = Updates(tasks, newTasks)
      BY <2>3, <2>6
    <3>. QED  BY <1>0, <2>9, <3>1, WithUpdates
  <2>11. HandedOver(f, t, RobotsWith(w), TasksWith(w))
    <3>1. \A r \in DOMAIN robots : RobotsWith(w)[r].task =
            IF r = f THEN NoTask ELSE IF r = Spare THEN t ELSE robots[r].task
      BY <1>2, <2>1, <2>4, <2>10 DEF RobotColumns
    <3>2. \A k \in DOMAIN tasks :
            /\ TasksWith(w)[k].status = IF k = t THEN "assigned" ELSE tasks[k].status
            /\ TasksWith(w)[k].robot = IF k = t THEN Spare ELSE tasks[k].robot
      BY <2>5, <2>6, <2>10 DEF TaskColumns
    <3>. QED  BY <2>10, <3>1, <3>2 DEF HandedOver
  <2>12. Sound(RobotsWith(w), TasksWith(w), given)
    BY <1>0, <1>2, <2>11, HandedOverIsSound
  <2>. QED  BY <2>2, <2>12
<1>. QED  BY <1>1, <1>2

LEMMA CallFailureKeeps ==
  ASSUME DashInv, NEW q \in Requests, CallFailure(q)
  PROVE  DashInv'
<1>1. /\ pc = "fail" /\ awaiting = Nobody /\ awaiting' = q
      /\ UNCHANGED <<sessionVars, pc, todo, seen, reply, late, faults, quiet>>
      /\ unawares' = (\/ unawares
                      \/ /\ Spare \in DOMAIN robots /\ robots[Spare].task # NoTask
                         /\ Spare \notin Range(allocation))
  BY DEF CallFailure, Await
<1>2. ServerTyped /\ Shaped /\ RowsTyped /\ unawares \in BOOLEAN
      /\ DOMAIN allocation \subseteq TaskIds
  BY DEF DashInv, ServerTyped, ScriptTyped, DashTypeOK
<1>3. allocation' = allocation /\ pc' = "fail"
  BY <1>1 DEF sessionVars
<1>4. CASE \E t \in Sent : /\ allocation[t] = Failed /\ SpareIsIn
                           /\ PersistReassignment(q, Failed, Spare, t)
  <2>1. PICK t \in Sent : /\ allocation[t] = Failed /\ SpareIsIn
                          /\ PersistReassignment(q, Failed, Spare, t)
    BY <1>4
  <2>2. t \in DOMAIN allocation /\ t \in TaskIds /\ Spare \notin Range(allocation)
    BY <1>2, <2>1 DEF Sent, SpareIsIn
  <2>3. PICK f : f = Failed
    OBVIOUS
  <2>4. Steps(q) /\ ServerTyped'
    BY <1>2, <2>1, <2>2, PersistReassignmentMoves, MovedKeepsTypes
  <2>5. ASSUME ~ unawares', Sound(robots, tasks, allocation) PROVE WillBeSound(request[q])'
    <3>1. Spare \in DOMAIN robots => robots[Spare].task = NoTask
      BY <1>1, <2>2, <2>5
    <3>2. f = allocation[t] /\ PersistReassignment(q, f, Spare, t)
      BY <2>1, <2>3
    <3>3. /\ request'[q].phase = "flush" /\ robots' = robots /\ tasks' = tasks
          /\ Sound(RobotsWith(request'[q].writes), TasksWith(request'[q].writes), allocation)
      BY <1>2, <2>2, <2>5, <3>1, <3>2, ReassignmentIsSound
    <3>4. RobotsWith(request[q].writes)' = RobotsWith(request'[q].writes)
          /\ TasksWith(request[q].writes)' = TasksWith(request'[q].writes)
      BY <3>3 DEF RobotsWith, TasksWith
    <3>5. Sound(RobotsWith(request[q].writes)', TasksWith(request[q].writes)', allocation)
      BY <3>3, <3>4
    <3>. QED  BY <1>3, <2>5, <3>3, <3>5 DEF WillBeSound, Believed
  <2>. QED  BY <1>1, <1>2, <2>4, <2>5, CallKeeps
<1>5. CASE \E code \in {200, 422} : /\ Issue(q, "recovery")
                                    /\ Answer(q, "recovery", NoTask, code)
  <2>1. PICK code \in {200, 422} : /\ Issue(q, "recovery")
                                   /\ Answer(q, "recovery", NoTask, code)
    BY <1>5
  <2>2. /\ Steps(q) /\ ServerTyped' /\ robots' = robots /\ tasks' = tasks
        /\ request'[q].phase = "done"
    <3>1. "recovery" \in Kinds
      BY <2>1 DEF Issue
    <3>. QED  BY <1>2, <2>1, <3>1, AnswerBecomes
  <2>3. Sound(robots, tasks, allocation) => WillBeSound(request[q])'
    BY <1>3, <2>2 DEF WillBeSound, Believed
  <2>. QED  BY <1>1, <1>2, <2>2, <2>3, CallKeeps
<1>. QED  BY <1>4, <1>5 DEF CallFailure

-----------------------------------------------------------------------------
(* What the server does to a request.                                      *)

LEMMA ServesKeep ==
  ASSUME DashInv, NEW q \in Requests, request[q].phase # "none", Steps(q), ServerTyped',
         DOMAIN reply' \subseteq TaskIds, Range(reply') \subseteq RobotIds,
         UNCHANGED <<sessionVars, pc, awaiting, todo, seen, worldVars>>,
         quiet /\ pc \in Loops /\ WillSucceed(request[q]) => WillSucceed(request[q])',
         q = awaiting /\ WillBeSound(request[q]) => WillBeSound(request[q])'
  PROVE  DashInv'
<1>1. q \in late \cup {awaiting}
  BY DEF DashInv, InFlight
<1>2. UNCHANGED <<allocation, scenarioReady, shown, late, faults, quiet, unawares>>
  BY DEF sessionVars, worldVars
<1>3. InFlight'
  BY <1>1, <1>2, FlightStays DEF DashInv, Steps
<1>4. ScriptTyped'
  <2>1. DashTypeOK'
    BY <1>2 DEF DashInv, ScriptTyped, DashTypeOK
  <2>. QED  BY <2>1 DEF DashInv, ScriptTyped
<1>5. FaultsAreKnown'
  BY <1>2 DEF DashInv, FaultsAreKnown
<1>6. CASE q \in late
  <2>1. ~ quiet' /\ faults' # 0
    BY <1>2, <1>6 DEF DashInv, FaultsAreKnown
  <2>2. Progress' /\ Sides'
    BY <2>1 DEF Progress, Sides
  <2>. QED  BY <1>3, <1>4, <1>5, <2>2 DEF DashInv
<1>7. CASE q = awaiting
  <2>1. awaiting # Nobody /\ pc \in Loops \cup {"allocate", "fail"}
    BY <1>7 DEF DashInv, ScriptTyped
  <2>2. Progress'
    <3>1. WillSucceed(request[q])' => WillSucceed(request[awaiting])'
      BY <1>7 DEF WillSucceed
    <3>2. quiet /\ pc \in Loops => WillSucceed(request[q])
      BY <1>7, <2>1 DEF DashInv, Progress
    <3>. QED  BY <1>2, <2>1, <3>1, <3>2 DEF Progress, Loops
  <2>3. Sides'
    <3>1. WillBeSound(request[q])' => WillBeSound(request[awaiting])'
      BY <1>7 DEF WillBeSound
    <3>2. faults = 0 /\ ~ unawares /\ pc \in {"allocate", "fail"} => WillBeSound(request[q])
      BY <1>7, <2>1 DEF DashInv, Sides
    <3>. QED  BY <1>2, <1>7, <2>1, <3>1, <3>2 DEF Sides
  <2>. QED  BY <1>3, <1>4, <1>5, <2>2, <2>3 DEF DashInv
<1>. QED  BY <1>1, <1>6, <1>7

(* The assignments that are answered are the matching.                     *)
LEMMA AssignmentsOfMatching ==
  ASSUME RowsTyped, NEW pool, DOMAIN pool \subseteq RobotIds, AllIn(pool, RobotRow),
         NEW m \in Matchings(DOMAIN pool, DOMAIN PendingTasks)
  PROVE  LET given == Assignments(TasksAfter(PendingTasks, m))
         IN /\ DOMAIN given = DOMAIN m /\ \A t \in DOMAIN m : given[t] = m[t]
            /\ DOMAIN given \subseteq TaskIds /\ Range(given) \subseteq RobotIds
<1> DEFINE plan == TasksAfter(PendingTasks, m)
           given == Assignments(plan)
<1>1. /\ DOMAIN PendingTasks \subseteq TaskIds
      /\ \A t \in DOMAIN PendingTasks : PendingTasks[t].status = "pending"
      /\ AllIn(PendingTasks, TaskRow)
  BY DEF PendingTasks, Restrict, RowsTyped, AllIn
<1>2. /\ DOMAIN plan = DOMAIN PendingTasks /\ DOMAIN m \subseteq DOMAIN PendingTasks
      /\ \A t \in DOMAIN m : /\ m[t] \in DOMAIN pool
                             /\ plan[t].status = "assigned" /\ plan[t].robot = m[t]
      /\ \A t \in DOMAIN PendingTasks \ DOMAIN m : plan[t] = PendingTasks[t]
  BY <1>1, AfterMatching
<1> HIDE DEF plan
<1>3. {t \in DOMAIN plan : plan[t].status = "assigned"} = DOMAIN m
  BY <1>1, <1>2
<1>4. DOMAIN given = DOMAIN m /\ \A t \in DOMAIN m : given[t] = m[t]
  BY <1>2, <1>3 DEF Assignments
<1> HIDE DEF given
<1>5. DOMAIN given \subseteq TaskIds /\ Range(given) \subseteq RobotIds
  BY <1>1, <1>2, <1>4 DEF Range
<1>. QED  BY <1>4, <1>5 DEF given, plan

(* Tables in which a matching of what is free has been carried out are     *)
(* sound for the matching.                                                 *)
LEMMA AppliedIsSound ==
  ASSUME RowsTyped, NEW m, IsInjective(m), NEW rs, NEW ts, Applied(m, rs, ts),
         NEW before, Sound(robots, tasks, before),
         NEW given, DOMAIN given = DOMAIN m, \A t \in DOMAIN m : given[t] = m[t]
  PROVE  Sound(rs, ts, given)
<1>1. /\ DOMAIN rs = DOMAIN robots /\ DOMAIN ts = DOMAIN tasks
      /\ \A t \in DOMAIN tasks \ DOMAIN m : ts[t] = tasks[t]
      /\ \A r \in DOMAIN robots \ Range(m) : rs[r] = robots[r]
      /\ \A t \in DOMAIN m :
           /\ t \in DOMAIN tasks /\ ~ IsActive(tasks[t])
           /\ IsActive(ts[t]) /\ ts[t].robot = m[t]
           /\ m[t] \in DOMAIN robots /\ robots[m[t]].task = NoTask /\ rs[m[t]].task = t
  BY DEF Applied, IsActive, IsFree
<1>2. \A a, b \in DOMAIN m : m[a] = m[b] => a = b
  BY DEF IsInjective
<1>3. \A r \in DOMAIN robots, t \in DOMAIN tasks :
        (robots[r].task = t) <=> (tasks[t].robot = r /\ IsActive(tasks[t]))
  BY DEF Sound
<1>4. \A t \in DOMAIN tasks : t # NoTask
  BY DEF RowsTyped
<1>5. ASSUME NEW r \in DOMAIN robots, NEW k \in DOMAIN tasks
      PROVE  (rs[r].task = k) <=> (ts[k].robot = r /\ IsActive(ts[k]))
  <2>1. CASE r \in Range(m)
    <3>1. PICK x \in DOMAIN m : m[x] = r
      BY <2>1 DEF Range
    <3>2. rs[r].task = x /\ ts[x].robot = r /\ IsActive(ts[x]) /\ robots[r].task = NoTask
      BY <1>1, <3>1
    <3>3. CASE k \in DOMAIN m
      BY <1>1, <1>2, <3>1, <3>2, <3>3
    <3>4. CASE k \notin DOMAIN m
      BY <1>1, <1>3, <1>4, <3>1, <3>2, <3>4
    <3>. QED  BY <3>3, <3>4
  <2>2. CASE r \notin Range(m)
    <3>1. rs[r] = robots[r]
      BY <1>1, <2>2
    <3>2. CASE k \in DOMAIN m
      <4>1. m[k] # r
        BY <2>2, <3>2 DEF Range
      <4>. QED  BY <1>1, <1>3, <3>1, <3>2, <4>1
    <3>3. CASE k \notin DOMAIN m
      BY <1>1, <1>3, <3>1, <3>3
    <3>. QED  BY <3>2, <3>3
  <2>. QED  BY <2>1, <2>2
<1>6. \A t \in DOMAIN given : given[t] = m[t] /\ rs[given[t]].task = t /\ ts[t].robot = given[t]
  BY <1>1
<1>. QED  BY <1>1, <1>5, <1>6 DEF Sound

LEMMA AllocateAndCommitServed ==
  ASSUME DashInv, NEW q \in Requests, AllocateAndCommit(q),
         reply' = IF q = awaiting THEN Assignments(request'[q].plan) ELSE reply,
         UNCHANGED <<sessionVars, pc, awaiting, todo, seen, worldVars>>
  PROVE  DashInv'
<1> DEFINE pool == request[q].pool
<1>1. ServerTyped /\ Shaped /\ RowsTyped /\ ReqTyped(request[q])
      /\ DOMAIN reply \subseteq TaskIds /\ Range(reply) \subseteq RobotIds
  BY DEF DashInv, ServerTyped, IsSettled, ScriptTyped
<1>2. Steps(q) /\ ServerTyped' /\ robots' = robots /\ tasks' = tasks
  BY <1>1, AllocateAndCommitMoves, MovedKeepsTypes
<1>3. request[q].phase = "list_tasks"
  BY DEF AllocateAndCommit
<1>4. pc' = pc /\ allocation' = allocation
  BY DEF sessionVars
<1>5. \/ Answer(q, "allocation", NoTask, 422)
      \/ Stage(q, "allocation", NoTask, NoWrites, 200)
      \/ \E m \in Matchings(DOMAIN pool, DOMAIN PendingTasks) :
           request' = [request EXCEPT ![q].phase = "write_back",
                                      ![q].pool = RobotsAfter(pool, m),
                                      ![q].plan = TasksAfter(PendingTasks, m)]
  BY DEF AllocateAndCommit, PendingTasks
<1>6. ASSUME request'[q].plan = NoRows
      PROVE  /\ DOMAIN reply' \subseteq TaskIds /\ Range(reply') \subseteq RobotIds
             /\ q = awaiting => DOMAIN reply' = {}
  <2>1. q = awaiting => DOMAIN reply' = {} /\ Range(reply') = {}
    BY <1>6, NoRowsIsEmpty DEF Assignments, Range
  <2>. QED  BY <1>1, <2>1
<1>7. ~ WillSucceed(request[q])
  BY <1>3 DEF WillSucceed
<1>8. CASE Answer(q, "allocation", NoTask, 422)
  <2>1. request'[q].phase = "done" /\ request'[q].code = 422
    <3>1. "allocation" \in Kinds
      BY <1>1, <1>3 DEF ReqTyped
    <3>. QED  BY <1>1, <1>8, <3>1, AnswerBecomes
  <2>2. request'[q].plan = NoRows
    <3>1. DOMAIN request[q] = Fields /\ DOMAIN request = Requests
      BY <1>1 DEF Shaped
    <3>. QED  BY <1>8, <3>1 DEF Answer, Answered, Fields
  <2>3. WillBeSound(request[q]) => WillBeSound(request[q])'
    BY <1>2, <1>3, <1>4, <2>1 DEF WillBeSound
  <2>. QED  BY <1>2, <1>3, <1>6, <1>7, <2>2, <2>3, ServesKeep
<1>9. CASE Stage(q, "allocation", NoTask, NoWrites, 200)
  <2>1. /\ request'[q].phase = "flush" /\ request'[q].writes = NoWrites
        /\ request'[q].plan = NoRows
    <3>1. PICK req : req = Staged(request[q], "allocation", NoTask, NoWrites, 200)
      OBVIOUS
    <3>2. request' = [request EXCEPT ![q] = req]
      BY <1>9, <3>1, StageIs
    <3>3. request'[q] = req /\ DOMAIN request[q] = Fields
      BY <1>1, <3>2 DEF Shaped
    <3>. QED  BY <3>1, <3>3, StagedFields
  <2>2. ASSUME q = awaiting, WillBeSound(request[q]) PROVE WillBeSound(request[q])'
    <3>1. Sound(robots, tasks, allocation) /\ pc = "allocate"
      BY <1>3, <2>2 DEF WillBeSound
    <3>2. DOMAIN reply' = {}
      BY <1>6, <2>1, <2>2
    <3>3. Sound(robots, tasks, reply')
      BY <3>1, <3>2, SoundForNobody
    <3>4. Sound(RobotsWith(NoWrites), TasksWith(NoWrites), reply')
      BY <1>1, <3>3, NoWritesAreSound
    <3>5. RobotsWith(request[q].writes)' = RobotsWith(NoWrites)
          /\ TasksWith(request[q].writes)' = TasksWith(NoWrites)
      BY <1>2, <2>1 DEF RobotsWith, TasksWith
    <3>. QED  BY <1>2, <1>4, <2>1, <3>1, <3>4, <3>5 DEF WillBeSound, Believed
  <2>. QED  BY <1>2, <1>3, <1>6, <1>7, <2>1, <2>2, ServesKeep
<1>10. ASSUME NEW m \in Matchings(DOMAIN pool, DOMAIN PendingTasks),
              request' = [request EXCEPT ![q].phase = "write_back",
                                         ![q].pool = RobotsAfter(pool, m),
                                         ![q].plan = TasksAfter(PendingTasks, m)]
       PROVE  DashInv'
  <2>1. /\ request'[q].phase = "write_back" /\ request'[q].pool = RobotsAfter(pool, m)
        /\ request'[q].plan = TasksAfter(PendingTasks, m)
    <3>1. DOMAIN request[q] = Fields /\ DOMAIN request = Requests
      BY <1>1 DEF Shaped
    <3>. QED  BY <1>10, <3>1 DEF Fields
  <2>2. DOMAIN reply' \subseteq TaskIds /\ Range(reply') \subseteq RobotIds
    <3>1. DOMAIN pool \subseteq RobotIds /\ AllIn(pool, RobotRow)
      BY <1>1 DEF ReqTyped
    <3>2. q = awaiting => reply' = Assignments(TasksAfter(PendingTasks, m))
      BY <2>1
    <3> HIDE DEF pool
    <3>. QED  BY <1>1, <3>1, <3>2, AssignmentsOfMatching
  <2>3. ASSUME q = awaiting, WillBeSound(request[q]) PROVE WillBeSound(request[q])'
    <3>1. Sound(robots, tasks, allocation) /\ pc = "allocate" /\ pool = FreeRobots
      BY <1>3, <2>3 DEF WillBeSound
    <3>2. FreeRobots' = FreeRobots /\ PendingTasks' = PendingTasks
      BY <1>2 DEF FreeRobots, PendingTasks, IsFree
    <3>3. reply' = Assignments(TasksAfter(PendingTasks, m))
      BY <2>1, <2>3
    <3>4. MatchedWith(request[q].pool, request[q].plan, reply)'
      BY <2>1, <3>1, <3>2, <3>3 DEF MatchedWith
    <3>. QED  BY <1>2, <1>4, <2>1, <3>1, <3>4 DEF WillBeSound
  <2>. QED  BY <1>2, <1>3, <1>7, <2>2, <2>3, ServesKeep
<1>. QED  BY <1>5, <1>8, <1>9, <1>10

LEMMA WriteBackServed ==
  ASSUME DashInv, NEW q \in Requests, WriteBack(q), UNCHANGED reply,
         UNCHANGED <<sessionVars, pc, awaiting, todo, seen, worldVars>>
  PROVE  DashInv'
<1> DEFINE pool == request[q].pool
           plan == request[q].plan
           new == [r \in DOMAIN pool \cap DOMAIN robots |-> RobotTarget(robots[r], pool[r])]
           w == [NoWrites EXCEPT !.robots = Updates(robots, new), !.tasks = Updates(tasks, plan)]
<1>1. ServerTyped /\ Shaped /\ RowsTyped /\ ReqTyped(request[q])
      /\ DOMAIN reply \subseteq TaskIds /\ Range(reply) \subseteq RobotIds
  BY DEF DashInv, ServerTyped, IsSettled, ScriptTyped
<1>2. Moved(q)
  BY <1>1, WriteBackMoves
<1>3. Steps(q) /\ ServerTyped' /\ robots' = robots /\ tasks' = tasks
  BY <1>1, <1>2, MovedKeepsTypes
<1>4. request[q].phase = "write_back" /\ Stage(q, "allocation", NoTask, w, 200)
  BY DEF WriteBack
<1>5. pc' = pc /\ allocation' = allocation
  BY DEF sessionVars
<1>6. /\ w.newRobots = NoRows /\ w.robots = Updates(robots, new) /\ w.goneRobots = {}
      /\ w.newTasks = NoRows /\ w.tasks = Updates(tasks, plan) /\ w.goneTasks = {}
  BY DEF NoWrites
<1>7. PICK req : req = Staged(request[q], "allocation", NoTask, w, 200)
  OBVIOUS
<1> HIDE DEF w
<1>8. request'[q] = req
  <2>1. request' = [request EXCEPT ![q] = req]
    BY <1>4, <1>7, StageIs
  <2>. QED  BY <1>1, <2>1 DEF Shaped
<1>9. req.phase = "flush" /\ req.kind = "allocation" /\ req.writes = w
  BY <1>1, <1>7, StagedFields DEF Shaped
<1>10. Decided(req)
  <2>1. PICK other : Becomes(q, other) /\ IsSettled(other)
    BY <1>2, MovedBecomes
  <2>2. request'[q] = other
    BY <1>1, <2>1, BecomesSteps
  <2>. QED  BY <1>8, <1>9, <2>1, <2>2 DEF IsSettled
<1>11. ASSUME q = awaiting, WillBeSound(request[q]) PROVE WillBeSound(request[q])'
  <2>1. Sound(robots, tasks, allocation) /\ pc = "allocate" /\ MatchedWith(pool, plan, reply)
    BY <1>4, <1>11 DEF WillBeSound
  <2>2. PICK m \in Matchings(DOMAIN FreeRobots, DOMAIN PendingTasks) :
          /\ pool = RobotsAfter(FreeRobots, m) /\ plan = TasksAfter(PendingTasks, m)
          /\ reply = Assignments(TasksAfter(PendingTasks, m))
    BY <2>1 DEF MatchedWith
  <2>3. WritesAreTyped(w)
    <3>1. HaveColumns(robots, RobotColumns) /\ HaveColumns(tasks, TaskColumns)
      BY <1>1, RowsHaveColumns
    <3>2. SomeColumns(w.robots, RobotColumns) /\ SomeColumns(w.tasks, TaskColumns)
      BY <1>6, <3>1, UpdatesHaveColumns DEF HaveColumns
    <3>. QED  BY <1>6, <3>2, NoRowsIsEmpty DEF WritesAreTyped, HaveColumns
  <2>4. /\ WritesAreTyped(req.writes)
        /\ req.writes.robots = Updates(robots, new) /\ req.writes.tasks = Updates(tasks, plan)
        /\ req.writes.newRobots = NoRows /\ req.writes.newTasks = NoRows
    BY <1>6, <1>9, <2>3
  <2>5. Applied(m, RobotsWith(req.writes), TasksWith(req.writes))
    BY <1>1, <1>9, <1>10, <2>2, <2>4, WriteBackApplies
  <2>6. DOMAIN reply = DOMAIN m /\ \A t \in DOMAIN m : reply[t] = m[t]
    <3>1. DOMAIN FreeRobots \subseteq RobotIds /\ AllIn(FreeRobots, RobotRow)
      BY <1>1 DEF FreeRobots, Restrict, RowsTyped, AllIn
    <3>. QED  BY <1>1, <2>2, <3>1, AssignmentsOfMatching
  <2>7. IsInjective(m)
    BY <2>2 DEF Matchings
  <2>8. Sound(RobotsWith(req.writes), TasksWith(req.writes), reply)
    BY <1>1, <2>1, <2>5, <2>6, <2>7, AppliedIsSound
  <2>9. RobotsWith(request[q].writes)' = RobotsWith(req.writes)
        /\ TasksWith(request[q].writes)' = TasksWith(req.writes)
    BY <1>3, <1>8 DEF RobotsWith, TasksWith
  <2>. QED  BY <1>3, <1>5, <1>8, <1>9, <2>1, <2>8, <2>9 DEF WillBeSound, Believed
<1>12. ~ WillSucceed(request[q])
  BY <1>4 DEF WillSucceed
<1>. QED  BY <1>1, <1>3, <1>4, <1>11, <1>12, ServesKeep

LEMMA CommitServed ==
  ASSUME DashInv, NEW q \in Requests, Commit(q), UNCHANGED reply,
         UNCHANGED <<sessionVars, pc, awaiting, todo, seen, worldVars>>
  PROVE  DashInv'
<1> DEFINE w == request[q].writes
<1>1. ServerTyped /\ Shaped /\ DOMAIN request[q] = Fields
      /\ DOMAIN reply \subseteq TaskIds /\ Range(reply) \subseteq RobotIds
  BY DEF DashInv, ServerTyped, ScriptTyped, Shaped
<1>2. Steps(q) /\ ServerTyped' /\ request'[q].phase = "done"
  BY <1>1, CommitKeepsTypes
<1>3. request[q].phase = "flush" /\ (Wrote(q) \/ Refused(q))
  BY <1>1, CommitShape
<1>4. Decided(request[q])
  BY <1>1, <1>3 DEF ServerTyped, IsSettled
<1>5. pc' = pc /\ todo' = todo /\ allocation' = allocation
  BY DEF sessionVars
<1>6. CASE Wrote(q)
  <2>1. /\ robots' = RobotsWith(w) /\ tasks' = TasksWith(w)
        /\ request'[q].code = request[q].code
    BY <1>1, <1>6, AnsweredFields DEF Wrote
  <2>2. request[q].code < 400
    BY <1>4 DEF Decided
  <2>3. WillSucceed(request[q]) => WillSucceed(request[q])'
    BY <1>2, <1>3, <1>5, <2>1 DEF WillSucceed
  <2>4. WillBeSound(request[q]) => WillBeSound(request[q])'
    BY <1>2, <1>3, <1>5, <2>1, <2>2 DEF WillBeSound, Believed
  <2>. QED  BY <1>1, <1>2, <1>3, <2>3, <2>4, ServesKeep
<1>7. CASE Refused(q)
  <2>1. PICK code \in {409, 500} : /\ request'[q] = Answered(request[q], code)
                                   /\ code = 500 => ~ RowsAreThere(w)
                                   /\ code = 409 => ConstraintFires(w)
    BY <1>7 DEF Refused
  <2>2. request'[q].code = code /\ robots' = robots /\ tasks' = tasks
    BY <1>1, <1>7, <2>1, AnsweredFields DEF Refused
  <2>3. ~ WillSucceed(request[q])
    BY <1>3, <2>1 DEF WillSucceed
  <2>4. WillBeSound(request[q]) => WillBeSound(request[q])'
    BY <1>2, <1>3, <1>5, <2>2 DEF WillBeSound
  <2>. QED  BY <1>1, <1>2, <1>3, <2>3, <2>4, ServesKeep
<1>. QED  BY <1>3, <1>6, <1>7

LEMMA ServeKeeps ==
  ASSUME DashInv, NEW q \in Requests, Serve(q)
  PROVE  DashInv'
BY AllocateAndCommitServed, WriteBackServed, CommitServed DEF Serve

-----------------------------------------------------------------------------
LEMMA DashInitHolds ==
  ASSUME DashInit
  PROVE  DashInv
<1>1. PICK f \in Fleets : robots = f.robots /\ tasks = f.tasks
  BY DEF DashInit
<1>2. /\ Agree /\ request = [q \in Requests |-> NotIssued]
      /\ allocation = NoRows /\ scenarioReady = FALSE /\ shown = "nothing"
      /\ pc = "idle" /\ awaiting = Nobody /\ todo = {} /\ reply = NoRows
      /\ late = {} /\ faults = 0 /\ quiet = TRUE /\ unawares = FALSE
  BY DEF DashInit
<1>3. RowsTyped /\ IsTable(robots) /\ IsTable(tasks)
  <2>1. /\ DOMAIN robots \subseteq RobotIds /\ robots \in [DOMAIN robots -> RobotRow]
        /\ DOMAIN tasks \subseteq TaskIds /\ tasks \in [DOMAIN tasks -> TaskRow]
    BY <1>1
  <2>. QED  BY <2>1 DEF RowsTyped, AllIn, IsTable
<1>4. \A q \in Requests : IsSettled(request[q]) /\ request[q].phase = "none"
  <2>1. /\ NotIssued.phase = "none" /\ NotIssued.kind = "none" /\ NotIssued.code = 0
        /\ NotIssued.pool = NoRows /\ NotIssued.plan = NoRows /\ DOMAIN NotIssued = Fields
    BY DEF NotIssued, Fields
  <2> HIDE DEF NotIssued
  <2>2. IsSettled(NotIssued)
    BY <2>1, NoRowsFit DEF IsSettled, ReqTyped
  <2>. QED  BY <1>2, <2>1, <2>2
<1>5. ServerTyped
  BY <1>2, <1>3, <1>4 DEF ServerTyped, Shaped, IsSettled, ReqTyped
<1>6. DOMAIN NoRows = {} /\ Range(NoRows) = {}
  BY NoRowsIsEmpty DEF Range
<1>7. ScriptTyped
  BY <1>2, <1>6 DEF ScriptTyped, DashTypeOK
<1>8. InFlight /\ FaultsAreKnown
  BY <1>2, <1>4 DEF InFlight, FaultsAreKnown
<1>9. Progress
  BY <1>2 DEF Progress, Halfway, IsExact, Loops
<1>10. Sound(robots, tasks, NoRows)
  BY <1>2, <1>6 DEF Agree, Sound, IsActive
<1>11. Sides
  BY <1>2, <1>10 DEF Sides
<1>. QED  BY <1>5, <1>7, <1>8, <1>9, <1>11 DEF DashInv

LEMMA DashStandsStill ==
  ASSUME DashInv, UNCHANGED <<vars, dashVars>>
  PROVE  DashInv'
<1>1. UNCHANGED Server /\ UNCHANGED <<sessionVars, scriptVars, worldVars>>
  BY DEF vars, dashVars, Server
<1>2. ServerTyped'
  BY <1>1, ServerStands DEF DashInv
<1>3. ScriptTyped'
  BY <1>1, ScriptStands DEF DashInv, ScriptTyped, DashTypeOK, worldVars
<1>4. UNCHANGED <<robots, tasks, request>> /\ UNCHANGED <<allocation, shown, pc, awaiting, todo, reply>>
      /\ UNCHANGED <<late, faults, quiet, unawares>>
  BY <1>1 DEF Server, sessionVars, scriptVars, worldVars
<1>5. InFlight' /\ FaultsAreKnown'
  BY <1>4 DEF DashInv, InFlight, FaultsAreKnown
<1>6. Progress'
  <2>1. WillSucceed(request[awaiting]) => WillSucceed(request[awaiting])'
    BY <1>4 DEF WillSucceed, RobotsWith, TasksWith, ConstraintFires, RowsAreThere
  <2>. QED  BY <1>4, <2>1 DEF DashInv, Progress, IsExact
<1>7. Sides'
  <2>1. WillBeSound(request[awaiting]) => WillBeSound(request[awaiting])'
    <3>1. FreeRobots' = FreeRobots /\ PendingTasks' = PendingTasks
      BY <1>4 DEF FreeRobots, PendingTasks, IsFree
    <3>2. MatchedWith(request[awaiting].pool, request[awaiting].plan, reply)
            => MatchedWith(request[awaiting].pool, request[awaiting].plan, reply)'
      BY <1>4, <3>1 DEF MatchedWith
    <3>. QED  BY <1>4, <3>1, <3>2 DEF WillBeSound, Believed, RobotsWith, TasksWith
  <2>. QED  BY <1>4, <2>1 DEF DashInv, Sides
<1>. QED  BY <1>2, <1>3, <1>5, <1>6, <1>7 DEF DashInv

(* The invariant, over every press, call, answer, fault and late request.  *)
THEOREM DashInvariance == DashSpec => []DashInv
<1>1. DashInit => DashInv
  BY DashInitHolds
<1>2. ASSUME DashInv, [DashNext]_<<vars, dashVars>> PROVE DashInv'
  <2>1. CASE Operator
    BY <1>2, <2>1, PressKeeps
  <2>2. CASE Script
    <3>1. CASE ListTasks \/ ListRobots \/ LoopEnds
      BY <1>2, <3>1, ListsKeep
    <3>2. CASE Report
      BY <1>2, <3>2, ReportKeeps
    <3>3. CASE ReadRobots \/ ReadTasks
      BY <1>2, <3>3, LooksKeep
    <3>4. CASE TimeOut
      BY <1>2, <3>4, TimeOutKeeps
    <3>5. CASE \E q \in Requests : LoopCalls(q) \/ LoopContinues(q)
      BY <1>2, <3>5, LoopCallsKeep, LoopContinuesKeeps
    <3>6. CASE \E q \in Requests : \/ CallAllocation(q) \/ AllocationReturns(q)
                                   \/ CallFailure(q) \/ FailureReturns(q)
      BY <1>2, <3>6, CallAllocationKeeps, CallFailureKeeps, ReturnsKeep
    <3>. QED  BY <2>2, <3>1, <3>2, <3>3, <3>4, <3>5, <3>6 DEF Script
  <2>3. CASE CannotConnect
    BY <1>2, <2>3, CannotConnectKeeps
  <2>4. CASE \E q \in Requests : Serve(q) \/ Breakdown(q) \/ DropAnswer(q)
    BY <1>2, <2>4, ServeKeeps, BreakdownKeeps, DropAnswerKeeps
  <2>5. CASE UNCHANGED <<vars, dashVars>>
    BY <1>2, <2>5, DashStandsStill
  <2>. QED  BY <1>2, <2>1, <2>2, <2>3, <2>4, <2>5 DEF DashNext
<1>. QED  BY <1>1, <1>2, PTL DEF DashSpec

(* Initialise (scenario.py:118-123), pressed with nothing late and met by  *)
(* no fault, is not refused by any row in its way, and when it reports the *)
(* tables are the demo's and nothing else, whatever they held before.      *)
THEOREM InitialiseLeavesTheDemo == DashSpec => []InitialiseIsExact
<1>1. DashInv => InitialiseIsExact
  BY DEF DashInv, ScriptTyped, Progress, IsExact, InitialiseIsExact
<1>. QED  BY <1>1, DashInvariance, PTL

(* As long as every call is answered and the spare has no task the session *)
(* knows nothing of, robot and task agree on every assignment whenever a   *)
(* script has ended ("the service layer keeps the two sides consistent",   *)
(* models.py:26-28), in whatever order the buttons were pressed.           *)
THEOREM TwoSidesAlwaysAgree == DashSpec => []TwoSidesAgree
<1>1. ASSUME DashInv, pc = "idle", faults = 0, ~ unawares PROVE Agree
  <2>1. awaiting = Nobody
    BY <1>1 DEF DashInv, ScriptTyped, DashTypeOK
  <2>2. Sound(robots, tasks, allocation)
    BY <1>1, <2>1 DEF DashInv, Sides
  <2>. QED  BY <2>2 DEF Sound, IsActive, Agree
<1>2. DashInv => TwoSidesAgree
  BY <1>1 DEF TwoSidesAgree
<1>. QED  BY <1>2, DashInvariance, PTL
=============================================================================
