------------------------------ MODULE Dashboard ------------------------------
(***************************************************************************)
(* The demonstration dashboard (frontend/) as a client of the services:    *)
(* buttons whose scripts make one HTTP call after the other, each with a   *)
(* timeout, and the session state they keep.  The server side of a call is *)
(* the request of module FleetService.  A call may fail before it reaches  *)
(* the server, be refused, or time out, and then the server goes on with a *)
(* request nobody waits for.                                               *)
(*                                                                         *)
(* Of the buttons, those are here that change rows or decide what a later  *)
(* one sends.  Planning, the dynamic obstacle, tables, log and metrics     *)
(* only change what is drawn.  The operator stays logged in.               *)
(* The properties stand at the end of the module.                          *)
(***************************************************************************)
EXTENDS FleetService, FiniteSetsExt

CONSTANTS
  Home,          \* scenario._ROBOTS: the demo robots and their cells
  DemoTasks,     \* scenario._TASKS
  Spare,         \* SPARE_ROBOT_ID
  Fleets,        \* what the tables may hold when the first button is pressed
  Nobody,        \* no request is awaited
  MaxPresses,    \* bound: buttons pressed
  MaxFaults      \* bound: calls that fail on the way, and 503s

ASSUME DashboardAssumption ==
  /\ RobotIds \subseteq Nat /\ TaskIds \subseteq Nat
  /\ DOMAIN Home \subseteq RobotIds /\ Range(Home) \subseteq Places /\ IsInjective(Home)
  /\ DemoTasks \subseteq TaskIds
  /\ Spare \in DOMAIN Home
  /\ \A f \in Fleets : /\ DOMAIN f.robots \subseteq RobotIds
                        /\ f.robots \in [DOMAIN f.robots -> RobotRow]
                        /\ DOMAIN f.tasks \subseteq TaskIds
                        /\ f.tasks \in [DOMAIN f.tasks -> TaskRow]
  /\ Nobody \notin Requests
  /\ MaxPresses \in Nat /\ MaxFaults \in Nat

VARIABLES
  allocation,      \* session_state.allocation: the robot of each task
  scenarioReady,   \* session_state.scenario_ready
  shown,           \* what the last press told the operator
  pc,              \* where the script of the button is
  awaiting,        \* the request it waits for
  todo,            \* ids its loop has still to delete or create
  seen,            \* the ids persisted_maps has read
  reply,           \* what the awaited allocation will answer
  presses,
  late,            \* requests that have timed out
  faults,          \* what went wrong on the way
  quiet,           \* the press met no fault, and nothing was late when it began
  unawares         \* a robot was failed while the spare had a task the session
                   \* knew nothing of

sessionVars == <<allocation, scenarioReady, shown>>
scriptVars == <<pc, awaiting, todo, seen, reply>>
worldVars == <<presses, late, faults, quiet, unawares>>
dashVars == <<sessionVars, scriptVars, worldVars>>

Server == <<robots, tasks, request, racedWrite>>

Loops == {"delete_tasks", "delete_robots", "create_robots", "create_tasks"}
NothingSeen == [robots |-> {}, tasks |-> {}]

-----------------------------------------------------------------------------
(* Calls (api_client._request, and call() in app.py).                      *)

Await(q) == awaiting' = q

(* The script ends, with a message if a call has failed.                   *)
EndsWith(message) ==
  /\ pc' = "idle" /\ shown' = message
  /\ awaiting' = Nobody /\ todo' = {} /\ seen' = NothingSeen /\ reply' = NoRows

(* The answer is read, and the request is forgotten.                       *)
Read(q) ==
  /\ request' = [request EXCEPT ![q] = NotIssued]
  /\ UNCHANGED <<robots, tasks, racedWrite>>

Succeeded(q) == request[q].code < 400

Fault == /\ faults' = faults + 1
         /\ quiet' = FALSE

(* ApiUnavailable, and nothing has reached the server.  A list that fails  *)
(* in persisted_maps counts as an empty one.                               *)
CannotConnect ==
  /\ pc # "idle" /\ awaiting = Nobody /\ faults < MaxFaults
  /\ Fault
  /\ CASE pc = "read_robots" -> /\ pc' = "read_tasks"
                                /\ UNCHANGED <<shown, awaiting, todo, seen, reply>>
       [] pc = "read_tasks" -> /\ pc' = "fail"
                               /\ UNCHANGED <<shown, awaiting, todo, seen, reply>>
       [] OTHER -> EndsWith("error")
  /\ UNCHANGED <<Server, allocation, scenarioReady, presses, late, unawares>>

(* ApiUnavailable, and the server may or may not have done the work.       *)
TimeOut ==
  /\ awaiting # Nobody
  /\ Fault
  /\ EndsWith("error")
  /\ late' = late \cup {awaiting}
  /\ UNCHANGED <<Server, allocation, scenarioReady, presses, unawares>>

(* The answer nobody waits for.                                            *)
DropAnswer(q) ==
  /\ q \in late /\ request[q].phase = "done"
  /\ Read(q)
  /\ late' = late \ {q}
  /\ UNCHANGED <<sessionVars, scriptVars, presses, faults, quiet, unawares>>

-----------------------------------------------------------------------------
(* The server.                                                             *)

(* What an allocation answers is what it has decided to write.             *)
Assignments(plan) ==
  LET given == {t \in DOMAIN plan : plan[t].status = "assigned"}
  IN [t \in given |-> plan[t].robot]

Serve(q) ==
  /\ \/ /\ AllocateAndCommit(q)
        /\ reply' = IF q = awaiting THEN Assignments(request'[q].plan) ELSE reply
     \/ (WriteBack(q) \/ Commit(q)) /\ UNCHANGED reply
  /\ UNCHANGED <<sessionVars, pc, awaiting, todo, seen, worldVars>>

Breakdown(q) ==
  /\ faults < MaxFaults
  /\ Unavailable(q)
  /\ Fault
  /\ UNCHANGED <<sessionVars, scriptVars, presses, late, unawares>>

-----------------------------------------------------------------------------
(* A button is pressed; the script of the one before has ended.            *)
Press ==
  /\ pc = "idle" /\ presses < MaxPresses
  /\ \E q \in Requests : request[q].phase = "none"
  /\ presses' = presses + 1
  /\ quiet' = (late = {})
  /\ UNCHANGED <<Server, awaiting, todo, seen, reply, late, faults, unawares>>

PressInitialise == /\ Press /\ pc' = "list_tasks"
                   /\ UNCHANGED sessionVars
PressAllocate == /\ Press /\ pc' = "allocate"
                 /\ UNCHANGED sessionVars

(* Without assignments in the session the button only warns.               *)
PressFail == /\ Press /\ allocation # NoRows
             /\ pc' = "read_robots"
             /\ UNCHANGED sessionVars

(* Reset, or a new browser session.                                        *)
PressReset ==
  /\ Press
  /\ allocation' = NoRows /\ scenarioReady' = FALSE /\ shown' = "nothing"
  /\ UNCHANGED pc

-----------------------------------------------------------------------------
(* sync_persisted_scenario: list and delete, then create, one call each.   *)

Step(next, ids) ==
  /\ pc' = next /\ todo' = ids
  /\ UNCHANGED <<Server, sessionVars, awaiting, seen, reply, worldVars>>

ListTasks == pc = "list_tasks" /\ Step("delete_tasks", DOMAIN tasks)

(* Seeded fault: only the robots of other scenarios are deleted.         *)
ListStaleRobots ==
  pc = "list_robots" /\ Step("delete_robots", DOMAIN robots \ DOMAIN Home)

ListRobots == pc = "list_robots" /\ Step("delete_robots", DOMAIN robots)

(* A loop that has nothing left goes on to the next one.                   *)
LoopEnds ==
  /\ awaiting = Nobody /\ todo = {}
  /\ \/ pc = "delete_tasks" /\ Step("list_robots", {})
     \/ pc = "delete_robots" /\ Step("create_robots", DOMAIN Home)
     \/ pc = "create_robots" /\ Step("create_tasks", DemoTasks)
     \/ pc = "create_tasks" /\ Step("count", {})

CallFor(q, id) ==
  \/ pc = "delete_tasks" /\ DeleteTask(q, id)
  \/ pc = "delete_robots" /\ DeleteRobot(q, id)
  \/ pc = "create_robots" /\ CreateRobot(q, id, Home[id], "idle")
  \/ pc = "create_tasks" /\ CreateTask(q, id)

(* Rows are listed by id, and the demo is written in that order.           *)
LoopCalls(q) ==
  /\ pc \in Loops /\ awaiting = Nobody /\ todo # {}
  /\ CallFor(q, Min(todo))
  /\ Await(q)
  /\ UNCHANGED <<sessionVars, pc, todo, seen, reply, worldVars>>

(* Seeded fault: a call that was refused is made again.                  *)
LoopRetries(q) ==
  /\ pc \in Loops /\ awaiting = q /\ request[q].phase = "done"
  /\ Read(q)
  /\ todo' = IF Succeeded(q) THEN todo \ {Min(todo)} ELSE todo
  /\ awaiting' = Nobody
  /\ UNCHANGED <<sessionVars, pc, seen, reply, worldVars>>

(* The first error ends the script, a 404 or a 409 too.                    *)
LoopContinues(q) ==
  /\ pc \in Loops /\ awaiting = q /\ request[q].phase = "done"
  /\ Read(q)
  /\ IF Succeeded(q)
     THEN /\ todo' = todo \ {Min(todo)} /\ awaiting' = Nobody
          /\ UNCHANGED <<pc, shown, seen, reply>>
     ELSE EndsWith("not initialised")
  /\ UNCHANGED <<allocation, scenarioReady, worldVars>>

(* The counts are read back and reported.  The session keeps what it had.  *)
Report ==
  /\ pc = "count"
  /\ EndsWith("initialised")
  /\ scenarioReady' = TRUE
  /\ UNCHANGED <<Server, allocation, worldVars>>

-----------------------------------------------------------------------------
(* Allocation: from the persisted rows, committed.                         *)

CallAllocation(q) ==
  /\ pc = "allocate" /\ awaiting = Nobody
  /\ ListFreeRobots(q)
  /\ Await(q)
  /\ UNCHANGED <<sessionVars, pc, todo, seen, reply, worldVars>>

AllocationReturns(q) ==
  /\ pc = "allocate" /\ awaiting = q /\ request[q].phase = "done"
  /\ Read(q)
  /\ allocation' = IF Succeeded(q) THEN reply ELSE allocation
  /\ EndsWith(IF Succeeded(q) THEN "allocated" ELSE "error")
  /\ UNCHANGED <<scenarioReady, worldVars>>

-----------------------------------------------------------------------------
(* Failing a robot: the fleet of the request is put together from the      *)
(* session's assignments and the rows as they are now, and the outcome is  *)
(* committed.                                                              *)

Look(next, now) ==
  /\ pc' = next /\ seen' = now
  /\ UNCHANGED <<Server, sessionVars, awaiting, todo, reply, worldVars>>

ReadRobots == pc = "read_robots"
              /\ Look("read_tasks", [seen EXCEPT !.robots = DOMAIN robots])
ReadTasks == pc = "read_tasks"
             /\ Look("fail", [seen EXCEPT !.tasks = DOMAIN tasks])

(* recovery_request_robots: the assignments of which both rows are known,  *)
(* and the spare if the session has nothing for it.                        *)
Sent == {t \in DOMAIN allocation : t \in seen.tasks /\ allocation[t] \in seen.robots}

(* Seeded fault: whether the spare has an assignment is not looked at.   *)
SpareIsKnown == Spare \in seen.robots

SpareIsIn == Spare \in seen.robots /\ Spare \notin Range(allocation)

(* The first by id of the robots in the session's assignments.             *)
Failed == Min(Range(allocation))

(* A robot that is not in the body is refused.  Played on the fleet of the *)
(* request, the failure hands the task to the spare, the one robot without *)
(* a task, or to nobody.                                                   *)
CallFailure(q) ==
  /\ pc = "fail" /\ awaiting = Nobody
  /\ \/ \E t \in Sent :
          /\ allocation[t] = Failed /\ SpareIsIn
          /\ PersistReassignment(q, Failed, Spare, t)
     \/ /\ Issue(q, "recovery")
        /\ Answer(q, "recovery", NoTask,
                  IF Failed \in {allocation[t] : t \in Sent} THEN 200 ELSE 422)
  /\ Await(q)
  /\ unawares' = \/ unawares
                 \/ /\ Spare \in DOMAIN robots /\ robots[Spare].task # NoTask
                    /\ Spare \notin Range(allocation)
  /\ UNCHANGED <<sessionVars, pc, todo, seen, reply, presses, late, faults, quiet>>

(* What the session believes is not changed by what happened.              *)
FailureReturns(q) ==
  /\ pc = "fail" /\ awaiting = q /\ request[q].phase = "done"
  /\ Read(q)
  /\ EndsWith(IF Succeeded(q) THEN "recovered" ELSE "error")
  /\ UNCHANGED <<allocation, scenarioReady, worldVars>>

-----------------------------------------------------------------------------
DashInit ==
  /\ \E f \in Fleets : robots = f.robots /\ tasks = f.tasks
  /\ Agree
  /\ request = [q \in Requests |-> NotIssued] /\ racedWrite = FALSE
  /\ allocation = NoRows /\ scenarioReady = FALSE /\ shown = "nothing"
  /\ pc = "idle" /\ awaiting = Nobody /\ todo = {} /\ seen = NothingSeen
  /\ reply = NoRows
  /\ presses = 0 /\ late = {} /\ faults = 0
  /\ quiet = TRUE /\ unawares = FALSE

Operator == PressInitialise \/ PressAllocate \/ PressFail \/ PressReset

Script ==
  \/ ListTasks \/ ListRobots \/ LoopEnds \/ Report \/ ReadRobots \/ ReadTasks
  \/ TimeOut
  \/ \E q \in Requests : \/ LoopCalls(q) \/ LoopContinues(q)
                         \/ CallAllocation(q) \/ AllocationReturns(q)
                         \/ CallFailure(q) \/ FailureReturns(q)

DashNext ==
  \/ Operator \/ Script \/ CannotConnect
  \/ \E q \in Requests : Serve(q) \/ Breakdown(q) \/ DropAnswer(q)

(* A script runs on.  Nothing is assumed of the server: a call that is not *)
(* answered times out.                                                     *)
DashSpec == DashInit /\ [][DashNext]_<<vars, dashVars>>
                     /\ WF_<<vars, dashVars>>(Script)

-----------------------------------------------------------------------------
(* What the buttons of the dashboard leave behind.                         *)

DemoRobotRows ==
  [r \in DOMAIN Home |-> [cell |-> Home[r], status |-> "idle", task |-> NoTask]]
DemoTaskRows == [t \in DemoTasks |-> [status |-> "pending", robot |-> NoRobot]]

(* The session and the script keep their types.                            *)
DashTypeOK ==
  /\ DOMAIN allocation \subseteq TaskIds /\ Range(allocation) \subseteq RobotIds
  /\ scenarioReady \in BOOLEAN
  /\ shown \in {"nothing", "error", "not initialised", "initialised", "allocated",
                "recovered"}
  /\ pc \in {"idle", "list_tasks", "list_robots", "count", "allocate",
             "read_robots", "read_tasks", "fail"} \cup Loops
  /\ awaiting \in Requests \cup {Nobody} /\ late \subseteq Requests
  /\ pc = "idle" => awaiting = Nobody
  /\ todo \subseteq RobotIds \cup TaskIds
  /\ quiet \in BOOLEAN /\ unawares \in BOOLEAN

(* "Make the persisted fleet + task queue be EXACTLY this fixed scenario"  *)
(* (scenario.py:118-123): whatever earlier presses have left behind,       *)
(* finished, given up half way or overtaken by a request that came late, a *)
(* press that nothing disturbs is not refused by any row in its way, and   *)
(* the rows it reports are the demo's, all of it fresh, and nothing else.  *)
InitialiseIsExact ==
  /\ DashTypeOK
  /\ quiet /\ pc = "idle" =>
       /\ shown # "not initialised"
       /\ shown = "initialised" => robots = DemoRobotRows /\ tasks = DemoTaskRows

(* As long as every call is answered, and the spare has no task the        *)
(* session knows nothing of, the operator can press what he likes in any   *)
(* order: when a script has ended, robot and task agree on every           *)
(* assignment ("the service layer keeps the two sides consistent",         *)
(* models.py:26-28), although the session's assignments may be older than  *)
(* the rows.                                                               *)
TwoSidesAgree == pc = "idle" /\ faults = 0 /\ ~ unawares => Agree

(* Whatever the server does or fails to do, the script of a button ends:   *)
(* "no silent hangs" (api_client.py:5).                                    *)
PressesEnd == pc # "idle" ~> pc = "idle"
=============================================================================
