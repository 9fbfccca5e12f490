# Formal model of the multi-robot fulfillment system

TLA+ modules, TLC configurations and TLAPS proofs for the Python package
`robotics/` of this repository. Paths below are relative to the repository
root; module names are files of this directory.

## 1. The system and its parts

A warehouse is a grid of cells. Robots move one orthogonal cell per timestep,
carry tasks from a pickup to a drop-off and drain a battery. Routes for the
whole fleet are planned ahead of time against a reservation table, then driven
in lock step. A FastAPI application keeps robots and tasks in a database and
calls the same in-memory core for every request.

| Component | State | Operations | Hard part |
|---|---|---|---|
| Grid, positions (`warehouse/grid.py`) | blocked cells | `neighbors`, `block`, `unblock` | order of neighbours decides ties |
| Warehouse (`warehouse/warehouse.py`) | cell roles, static and dynamic obstacles by id, the grid | mark, add and remove obstacles, `is_traversable` | static obstacles are kept twice |
| Reservation table (`coordination/reservation_table.py`) | owner of each (cell, t) and (from, to, t) | reserve a path, query, release | swaps, the goal hold through the horizon |
| Space-time planner (`coordination/space_time_planner.py`) | frontier, `came_from`, `best_g`, closed set | `plan` | parking, horizon, lazy deletion in A* |
| Coordinator (`coordination/coordinator.py`) | the table, paths and failures so far | `plan` | a robot that fails must leave nothing behind |
| Conflict validator (`coordination/conflicts.py`) | none | replay of a set of paths | must find everything on its own |
| Coordinated executor (`coordination/coordinated_executor.py`) | clock, counters, trace; robots and obstacles of the simulator | `execute` | two phases per timestep, a floor that changes under it |
| Robot, task (`robots/`, `tasks/`) | position, battery, status, task pointer; lifecycle, robot pointer | `move_to`, `assign_task`, ..., `start`, `complete`, `fail` | two pointers for one assignment |
| Simulator (`simulation/simulator.py`) | registries of robots and tasks, a warehouse | add, remove, move, charge, assign, obstacles | pointers over any sequence of calls |
| Allocation (`allocation/`) | none; a plan is a value | greedy, CP-SAT, `commit_allocation` | a plan committed later than it was made |
| Single-robot planners (`planning/`) | heap, `g_score`, `came_from`, finalized cells | A*, Dijkstra | stale heap entries, ties |
| Route executor (`execution/route_executor.py`) | none beyond one call | `execute` | a world that changed since planning |
| Recovery (`recovery/`) | live and stopped robots, paths, goals, trace | `run` with a schedule of disruptions | replanning a part of the fleet in motion |
| Services (`services/`) | rows of robots and tasks | create, update, delete, allocate, recover | overlapping requests that read, decide and write |
| Start-up (`api/app.py`, `persistence/database.py`, `common/retry.py`, `services/auth_service.py`) | tables, users, the wait | migrate, bootstrap, probe with backoff, register | several processes, a database that is away |
| Dashboard (`frontend/`) | session state | buttons: a script of HTTP calls each | a call that fails, or times out and lands later |

How they interact: the coordinator owns one reservation table per call and
calls the planner once per robot; the planner reads the table and the
warehouse and never writes either; the coordinator reserves what came back.
The executor replays the plan through the validator, reads and moves the
robots of the simulator, and lets the validator judge the trace. An allocator
reads robots and tasks; `commit_allocation` writes both through the simulator.
All of this runs in one thread of one request; what changes in between two
calls, or under an executing run (which the executor's own documentation
lists: an obstacle that appears, a robot that goes offline, a robot that is not
where it should be; `coordinated_executor.py:34-37`), is the environment.

Requests themselves overlap, in threads and in processes: each has a session
and a transaction of its own (`api/dependencies.py`, `get_session`), reads rows,
decides, and flushes the columns it changed. The dashboard is a client of the
same endpoints, one call after the other.

What makes each correct:

- planner: the route found is legal, arrives as early as any, and a failure
  means that there is none;
- coordinator: routes never meet, none is ever withdrawn, every robot is
  answered, reserving never raises;
- validator: accepts no plan the stepwise check would later stop;
- executor: whole joint steps or none, no exception between two robots,
  honest counters and an honest verdict, an end to every run;
- simulator and allocation: two pointers that agree, one robot per cell, a
  commit that is whole or nothing;
- warehouse: both views of a static obstacle agree;
- recovery: repaired routes are conflict-free, nobody drives over a failed or
  stopped robot, released tasks are neither lost nor doubled, an honest verdict;
- single-robot planners: a route found is a shortest one, an early answer is
  right, and the heap empties;
- allocators: what they return passes the independent check, greedy leaves no
  pairing undone, OPTIMAL is;
- route executor: a stale route harms nobody and the report is true;
- services: keys hold, requests that do not overlap are safe, a request nobody
  interfered with takes only what was free;
- start-up: one bootstrap admin, a bounded wait, nobody locked out without an
  outage;
- dashboard: initialising leaves exactly the demo, whatever was left behind.

`PROJECT.json` lists under `hazards` the lines where each of these can go
wrong, with the property that watches it, or with the reason why none does:
mostly that the code really lets it happen, so that a property that says
otherwise would be false (section 3).

## 2. Modules

| Module | Models | State and actions against the code |
|---|---|---|
| `Grid` | `grid.py`, and A* of `planning/astar.py` as a reachability test | operators only; cells are pairs `<<row, column>>` |
| `ReservationTable` | `reservation_table.py`, `timed_path.py` | a table is a record of vertex and edge entries with their owner; `ReserveTimedPath` returns the new table, `Clashes` is the `ValueError` |
| `SpaceTimePlanner` | `SpaceTimePlanner.plan` | one action per pop: `Arrive`, `CutOff`, `Expand`, and `GiveUp` on an empty frontier; then `TraceBack` per step of `_reconstruct`. A route is `[start, arrival, at]` |
| `Coordinator` | `MultiRobotCoordinator.plan` | `Refuse` or `Begin`, then per robot the planner's steps and `Reserve` (which may raise) or `RecordFailure` |
| `PrioritizedPlanning` | nothing of the code: what planning promises | routes are handed out one by one, each compatible with all before |
| `CoordinatorProperties` | | type invariant, safety, the reference for the search, the inductive invariant |
| `CoordinatorProofs` | | theorems |
| `ConflictCheck` | `conflicts.py` | `HasProblems(paths, obstacles)` |
| `CoordinatedExecutor` | `coordinated_executor.py`, `Robot.move_to` | pre-flight (`RejectPlan`, `RejectFleet`, `Start`), phase 1 (`ValidateStep`), phase 2 one robot at a time (`CommitWait`, `CommitMove`), `Finish`; disturbances of the world are actions of their own |
| `JointSteps` | nothing of the code: what the two phases promise | the fleet changes by whole legal joint moves |
| `ExecutorProperties`, `ExecutorProofs` | | as above, for any plan handed in |
| `FleetRun` | `plan_for` followed by `execute` | coordinator and executor over the same floor (`INSTANCE CoordinatedExecutor`); its theorems are in `CoordinatorProofs` |
| `Warehouse` | `warehouse.py` | the two obstacle registries, the cells blocked in the grid and the roles |
| `Simulator` | `simulator.py`, `task.py`, `allocation/commit.py` | one action per operation; an allocation is proposed (`Propose`) and committed later (`BeginCommit`, `ApplyOne` per assignment) |
| `SimulatorProperties` | | as above; its theorems are in `RouteProofs` |
| `Replanning` | `dynamic_replanner.py`, `block_cell` | operators only: splicing, the table of the routes that stay, and the set of routes a replan may return |
| `Recovery` | `RecoveryManager.run`, `disruption.py`, the task calls and the greedy choice it makes | `mode` is the place in `run`: pre-flight as in the executor, then per timestep `RecoverObstacle`, `RecoverFailure` (then `RecoverTask`, `RerouteOthers`), `Replan` once per affected robot, and `Halt` or `CommitStep`; `Finalise` gives the verdict |
| `RecoveryProperties`, `RecoveryProofs` | | schedules of events, type invariant, safety, action properties, what the code does not keep, and the inductive invariants; theorems |
| `GridSearch` | `astar.py`, `dijkstra.py`, `reconstruct_path` | `Refuse`, `AlreadyThere` or `Open`, then one action per pop (`DropStale`, `Expand`, `Arrive`), `Exhausted`, `TraceBack` per step, `ReturnRoute`; its properties and its inductive invariant are in the same module, its theorems in `RouteProofs` |
| `Allocation` | `feasibility.py`, `cost_estimator.py`, both allocators, the result | pricing, greedy task by task, the CP-SAT model with its weighted objective; the solver itself is external |
| `AllocationProperties`, `AllocationProofs` | `allocation/validation.py` as the check | legality, stability of greedy, optimality, and why they hold; theorems |
| `RouteExecutor`, `RouteProperties`, `RouteProofs` | `route_executor.py`, `execution_result.py` | a route is made, up to `MaxChanges` calls of `Simulator` happen, then one action per cell driven; the theorems about `Warehouse` and `Simulator`, on which those about routes rest, and those about `GridSearch`, whose routes are driven, are in `RouteProofs`, too |
| `FleetService` | the write endpoints of `robot_service.py`, `task_service.py`, `allocation_service.py`, the commit of `recovery_service.py`, `get_session`, `errors.py` | `robots` and `tasks` are rows by primary key; a handler reads and decides in one step (`Stage`), and `Commit` flushes; an allocation reads in two steps and writes in a third |
| `FleetServiceProperties`, `FleetServiceProofs` | | keys, serial safety, allocation, lifecycle; theorems, with those about `Dashboard` |
| `Startup` | entrypoint, `create_app`, `wait_until_ready`, `retry_call`, `ensure_bootstrap_admin`, `register_user` | `pc` per process; every database call is a step that may fail; `Kill`, `GoAway`, `ComeBack` |
| `StartupProperties`, `StartupProofs` | | origin of accounts, lock-out, the wait; theorems |
| `Dashboard` | `frontend/scenario.py`, `view_model.py`, `api_client.py` and the buttons of `app.py` | `pc` is the call the script is at; the server side is the requests of `FleetService` (EXTENDS), so timed-out calls go on there; its properties are in the same module, its theorems in `FleetServiceProofs` |
| `GridProofs` | nothing of the code | lemmas for the proofs: distances of cells, recursive definitions over layers of cells, steps as exact distances, induction over sets of numbers |
| `MC*` | | constants for TLC |

Abstractions. A call that raises before it changes anything is no action,
unless the exception leaves a loop half done (the commit loops, `Reserve`):
then it sets a flag or a stage. Texts, timings and metrics are left out, except
the executor's counters, which have properties. Heap order is modelled by what
it does: the entry popped is the least by f, then h, then insertion ticket.
`closed` is not a variable: a state is generated once at its final cost,
because every path to `(cell, t)` costs `t - start_time`, so the test on
`best_g` already refuses the second. Battery is a number of units; `Drain` is
the cost of a move and any starting level is allowed, so the boundary between
"just enough" and "not enough" is always met. Robot identifiers have no order
in the executor: the commit loop may go round in any order, which covers the
sorted one. In recovery they are numbers, because repairs are made in the order
of the ids and a tie between replacements goes to the smaller. `Robot.load` and `unload` have no caller in `robotics/`, so
"can carry" is a relation between robots and tasks.

Recovery uses of a replan what `SearchIsExact` establishes for the planner: it
returns one of the earliest routes the table allows, or fails when there is
none; which of the earliest is left open. The commit of a joint step is one
action there, since `CommitNeverRaises` shows that nothing happens in between
behind the same checks.

Services. The database is READ COMMITTED, as PostgreSQL is by default: a read
sees the rows of its moment, a flush sends an UPDATE by primary key with the
columns that differ from the row as loaded, and a row that is gone makes it
fail with a 500. The flush and the commit after it are one step, because the
row locks taken by the flush keep another writer of the same row out until the
commit. Consecutive reads on which a request decides are one step too, except
in an allocation, whose two lists are read apart; `_write_back` loads every row
again, so what it compares with is the row of that later moment. A PATCH or
DELETE of a task changes the task's row only, and never the robot's
(`task_service.py`); deleting a robot nulls the task's pointer through the
foreign key and leaves the task's status; a
request that updates a row may end in a 500 when another deletes that row
between its decision and its flush. The variable `racedWrite` is a history: some
request changed rows after another request had changed rows during its lifetime. `raced` says the same of one request.

Allocation. CP-SAT is external: when it says OPTIMAL, the values maximise the
objective it was given; when it says FEASIBLE, they satisfy the constraints. It
does not look at priorities: the objective is the number of tasks, then the
cost, then the ids. Robots and tasks are numbers, in the order of their ids.

Route kinds that are no list of positions (they raise `TypeError`), the
odometer and texts are left out of `RouteExecutor`. Passwords, hashes and the
signature of a token are left out of `Startup`: a caller is somebody who has an
account.

Operators with the comment "Seeded fault" are deliberate wrong variants of the
definition that follows them. No specification uses them; each is swapped in
for its original to show that a property notices (`mutants` in
`PROJECT.json`).

## 3. What is checked

| Run | Instance | Question and answer |
|---|---|---|
| `coordinator` | 3 robots, 3x2 cells, open and with an obstacle, all starts, goals of which some clash and one is off the floor, a good priority, a duplicated id and a missing one, horizon 6 | Routes never meet, pass the replay and are walks (`PlansAreSafe`), the table holds exactly what was handed out and every robot is answered (`BooksMatchThePlan`), the search is exact (`SearchIsExact`: as early as a layer-by-layer reference computes, and failure only if there is nothing), planning implements `PrioritizedPlanning` (`KeepsThePromise`). |
| `executor` | 2 robots, 3x1 cells, every sequence of up to two steps as a route (jumps, swaps, one off the floor) and three longer ones with pauses, every placement, batteries 0 to 2, one disturbance | Bad plans and bad placements are refused and the rest driven without exceptions (`PreflightSuffices`), counters, verdict and trace are honest (`ResultIsHonest`), the fleet moves in whole joint steps (`AllOrNothing`), under an obstacle, a failure, a removal or a move before or during the run. |
| `fleet_run` | 2 robots, 3x2 cells, horizon 4, one disturbance | Planning followed by execution: undisturbed, everybody planned arrives; every accepted request ends. |
| `recovery` | pairs of robots with six routes each and no plan at all, all placements, batteries 1 and 6, recovery on and off, one event at timesteps 0 to 2; three robots of which one may be spare, four fleet plans, one task with anybody at any stage, up to two events at timesteps 0 and 1; horizon 5, 3x2 cells | Verdicts are right and undisturbed fleets arrive (`VerdictIsRight`); repaired routes are free of conflicts and continue what was driven, no exception unless a robot had to stop, nobody drives over a failed robot (`RecoveryIsSafe`); tasks and robots agree (`TasksAreServed`); only the affected robots' routes change (`OnlyTheAffectedMove`); every run ends (`RunEnds`). |
| `recovery_stopped_cell` | 2 robots, one plan, one event | Is a robot that stopped safely left alone? No: see below. |
| `simulator` | 2 robots, 2 tasks, 2x2 cells, a charger, an obstacle | Pointers agree and commits are whole (`AssignmentsAreWhole`), one robot per cell (`OneCellEach`), under all sequences of calls. |
| `route_run` | 2 robots, 3x2 cells, batteries 2 and 4, planned and six hand-made routes, up to two calls in between, a wall the grid has forgotten | The report tells what happened (`ReportIsHonest`), a stale route harms nobody (`StalePlansDoNoHarm`), an undisturbed one arrives, and no functional cell is ever blocked and every blocked cell has an obstacle in a registry (`FloorIsConsistent`; an obstacle the grid has forgotten is allowed). |
| `grid_search` | 4x3 cells, up to two obstacles, every start and goal, two off the floor | Both planners against rings of cells counted from the start: routes are shortest and "unreachable" is true, finalized costs are final and A* stays within what Dijkstra expands, every call is answered. |
| `allocation` | 3 robots of six kinds, 2 tasks of five, three floors | Results pass the check, greedy is stable, OPTIMAL is optimal. |
| `fleet_service` | 2 robots, 2 tasks, 2 cells, 3 requests of any endpoint, at most 3 requests and task rows together, every consistent start | Keys turn into answers and no pointer dangles (`KeysHold`); requests that do not write over each other are safe (`SerialRequestsAreSafe`); a 500 answers only a request that lost a row it updates, to a deletion of that row by another request between its decision and its flush (`ErrorsNeedADeletion`); an allocation nobody interfered with takes only what was free; tasks follow their lifecycle. |
| `startup` | 2 processes, 3 names, 4 attempts, delays 1 and 2, one outage, one kill, every setting | One bootstrap admin, the origin of every account, no lock-out without an outage, a bounded wait, a start that ends. |
| `dashboard` | 4 robot ids, 3 tasks, 3 cells, 3 presses, 1 fault, 2 requests, three sets of leftover rows | Initialising leaves exactly the demo; the two sides of an assignment agree in any order of answered presses; every script ends. |

All but `recovery_stopped_cell` hold.

Why the bounds are enough. Robots on 3x2 cells can follow, block, cross, swap
and dodge each other; an obstacle makes a corridor of it; the third robot has
to get around two routes at once. Horizon 6 lets a robot wait for another to
pass and come back, and is short enough for schedules not to fit, so all
outcomes of the planner occur.

Recovery goes wrong, where it does, with one or two events: the second meets
what the first one left behind, and with two failures, a failure and an
obstacle, or two obstacles, every pair of handlers follows each other in every
order. In the fleets of three, robots stand at their starts and spare robots off
every route; the pairs have the misplaced ones. The loop's limit is never
reached at these sizes, since routes end by the horizon, before it; the theorems
make no such assumption, and two conditions that no instance of this size needs
come from them (below, "the loop's limit" and "a failed robot alone on its
cell").

Services race in pairs: whatever two requests do to one row, the third request
may prepare (a creation, a deletion) or observe. Two robots and two tasks make
"the other robot" and "the other task" exist; `MaxLoad` drops only runs in which
three requests meet two task rows, or two meet more. Dashboard scripts have
loops of deletions and creations: two requests suffice, because the dashboard
awaits one at a time and one timed-out request may still be under way
(`MaxFaults` is 1). Three presses are needed for initialise, allocate, fail.
The leftovers include rows of an older version of the demo that stand on its
cells. In `startup` the second process is the rival of the first in everything,
one outage may fall between any two calls, and four attempts are more than the
backoff needs to reach its cap. A floor of 4x3 cells with two obstacles has
detours, corners and entries that are stale when popped; with three robots and
two tasks a robot is left over and every tie can occur.

In the executor, plans are not restricted to what the coordinator produces; two steps
are enough for every kind of bad pair, three for a pause in the middle and a
robot that parks early. Deadlock is not checked where calls return and nothing
follows; the simulator, which never stops, is checked for it.
Symmetry is used in `executor` and `fleet_service`, whose properties distinguish
no ids and are not liveness.

Fairness. Planning and execution are single calls: once begun, they go on
until they return, which is weak fairness on the steps of the call
(`FairFleetSpec`; in recovery, where every event is scheduled in advance,
`WF_vars(Next)`; in `GridSearch` on the planner's steps). In `Startup` each
process that was started goes on (`WF_vars(Boot(p))`), since nothing in it waits
without a limit; nobody has to start a process, and the database may stay away
for ever. In `Dashboard` the script goes on, because a call that is not answered
times out (`httpx` with a timeout, `api_client.py`): the server is not assumed to
do anything. Nothing is assumed of the world: disturbances may happen or not.
The bound `MaxDisturbances` limits their number. `FleetService` and the
registries are about safety and have no fairness.

One thing the verdicts do that their readers may not expect: the closing check
of executor and recovery holds the whole trace against the obstacles as they
are at the end, so an obstacle on a cell that was left long ago turns a run
that reached all its goals into a failed one. `ResultIsHonest` and
`VerdictIsRight` hold because the error is on the safe side.

### What the violated run shows

`recovery_stopped_cell`: "if a robot cannot be replanned it stops safely where
it is" (`recovery_manager.py:15`), but its cell is neither reserved for the
robots replanned after it nor among the cells the joint step keeps others off
(`recovery_manager.py:606-614` has the offline ones only). In TLC's trace the cells
are a, b, c over d, e, f and the routes f, c, b and e, f, c: an obstacle at b at
timestep 0 leaves the first robot stopped at f, which the second, driving on,
enters at timestep 1.

### Disagreements without a run

Met while modelling; the properties above are stated so that they hold beside
them, and no run is kept for each.

- A robot that got no route still stands on the floor: planning reserves
  nothing for it and the executor never looks at it, so another robot may be
  driven onto its cell (`coordinated_executor.py:152-161`), although "two
  robots may never occupy the same cell" (`simulation/simulator.py:12`).
- The same hole seen by recovery: a repaired robot may park on the cell of a
  spare robot without a route, of which no table knows, and when the spare one
  fails there both are on the cell that recovery reserves for the failed one.
  `ContinuationIsSafe` and `RecoveredRunsGoOn` speak of runs in which a failed
  robot is alone on its cell (`FailedAlone`); `_occupied_starts`
  (`recovery_manager.py:606-614`) has offline robots only.
- The loop of recovery ends at `last_timestep + 4 * (width + height)`
  (`recovery_manager.py:179`), while a plan may use a horizon of
  `2 * (width + height)` and 4 per robot (`coordinator.py:52-61`), or any that
  is given: a sound plan of a large fleet that nothing happens to may be cut
  short and reported as failed. `UndisturbedRunsArrive` is about routes that end
  by the limit.
- A safe stop may park a robot on another's reserved route; the next event
  rebuilds the table from both and `reserve_vertex` raises `ValueError` out of
  `run()` (`recovery_manager.py:684`), where a test expects "never a crash"
  (`test_fault_recovery.py:164`).
- A robot stopped before it ever moved is still IDLE, so it may be given the
  task of a failed robot (`recovery_manager.py:411`) and never moves.
- Two static obstacles may be registered on one cell; removing one unblocks the
  cell in the grid (`warehouse.py:231`), and planners route through a cell that
  `validate_move` refuses. `route_run` starts from such a floor, too.
- "The service layer keeps the two sides consistent" (`models.py:26-28`), but a
  task transition changes the task's row only (`task_service.py:198`).
- A bootstrap that meets an outage is skipped, the start then waits for the
  database and serves (`app.py`, `auth_service.py:109-110`): nobody can log in,
  although a fresh database is "never locked out". `NoLockoutWithoutAnOutage`
  says that this is the only way.
- Rows have neither a version nor a lock while a request decides: two
  overlapping requests may take one robot or one task, decide on the same status
  of a task, or put two robots on one cell, and both are answered with success.
  What is promised of allocations, statuses and cells is therefore said of rows
  nobody changed meanwhile (`raced`, `racedWrite`).
- "If any of the three rows is not persisted [...] nothing is written"
  (`recovery_service.py:277-279`) holds for the task and the replacement; a
  missing row of the failed robot does not stop the write (`:300`). The commit
  of a recovery may also take back a task that is completed, since it writes
  what the run on the request's own fleet came to: `LifecycleHolds` leaves it
  out.
- The dashboard adds the spare robot to a failure when it "holds no assignment"
  (`view_model.py:117`), judged by the session: allocate, fail, allocate in part
  and fail again gives the spare a second task, and rows disagree.
  `TwoSidesAgree` holds as long as the spare has no task unknown to the session.
- A deletion that timed out may land after a later initialisation; therefore
  `InitialiseIsExact` is about presses that begin with nothing under way.

## 4. What is proved

All theorems hold for every fleet, floor, horizon, set of goals and order, and
every battery and drain, under the named assumptions of the modules (constants
have the types one expects; the null values are not robots or tasks).

*Planning* (`CoordinatorProofs`). `IInv` is inductive. `ConflictFree` alone is
not: it needs that a new route respects the table and that the table is exactly
the routes handed out (`TableHoldsThePlans`); that a rebuilt route respects the
table follows from the suffix built so far being legal (`SuffixIsLegal`), which
follows from `came_from` being a forest of legal steps (`SearchTree`); and
`TurnOrder` says which robot is being planned, so that a legal step keeps clear
of all *other* robots. From `IInv`: `TypeCorrect`, `PlansAreConflictFree`,
`PlansAreWalks`, `ReservingNeverRaises`, and, by relating the replay to
compatibility, `PlansPassTheCheck`; together `PlansMayBeDriven`. With
`AnsweredOnce`, that nobody is answered twice, `BooksAgree`.
`ImplementsThePromise` maps every step to a step of `PrioritizedPlanning` or a
stutter.

*The search is exact* (`SearchFindsTheEarliest`). `SearchInv` adds to `IInv`
that a generated state is still on the heap, or is no place to stop and has all
its successors generated (`SearchIsThorough`). By induction over the layers,
every state the table allows is generated, or there is an entry on the heap from
which it lies ahead (`HeapIsAhead`); Manhattan distance never exceeds the steps
that are left, so the first parking state popped is one of the earliest, and an
empty heap means that there is none. What is refused without a search is
refused rightly (`RejectionsAreRight`): the table allows no more than the floor
does (`LayersAreReachable`). The reference it is compared with is a recursive
function over layers of cells.

*Execution* (`ExecutorProofs`). `EInv` is inductive. The key parts are `HalfWay`
(within a commit, robots done are at the next cell, the others at the present
one, and what phase 1 found still holds for them), `OnSchedule` and `Books`.
From it: `CommitNeverRaises`, `PreflightFindsAll`, `SoundPlansCanBeDriven`,
`SuccessIsArrival`, `SummaryAddsUp`; `OfflineRobotsStandStill` is an action
property from the same invariant, and `ImplementsJointSteps` the refinement of
`JointSteps` with a position that jumps when the last robot has moved.
`TraceInv` says that the trace is the plan as far as it was driven; since a
plan without conflicts has prefixes without conflicts, `TheResultIsTrue`.

*Planning and execution* (`CoordinatorProofs`). `FInv` carries the invariants of
both, as instances over one floor, and that the executor has the routes the
coordinator made. A planned fleet passes pre-flight and meets nothing on its
way, so if the world leaves it alone and the batteries last it arrives
(`LeftAloneTheFleetArrives`).

*Registries and floor* (`RouteProofs`). `SInv` adds to the properties that the
rest of a plan being committed is still a matching of free robots and pending
tasks (`RestCanBeApplied`). From it: `RegistriesAreTyped`, `AssignmentsAgree`,
`WholeAssignments`, `CommitsNeverRaise`; `RobotsKeepTheirDistance` needs only
the types. `FloorIsConsistent` is inductive with its types: when a static
obstacle is removed the grid forgets the cell, whoever else stands on it, so no
wall stays without an owner (`FloorsStayConsistent`).

*Routes* (`RouteProofs`). `RouteInv` combines the invariants of simulator and
floor with `TrailIsClear`: each cell driven was free when it was entered, and
nothing but the driver moves during the call. From it: `StaleRoutesAreHarmless`
and `FloorsUnderRoutesStayConsistent`. `ReportInv` ties report, trail and battery
to the position in the route (`TheReportIsTrue`); `ArriveInv` says what a route
that was found is (a walk over free cells from the robot to its goal, no longer
than the floor has cells), which a world that is left alone keeps
(`LeftAloneTheRobotArrives`).

*Recovery* (`RecoveryProofs`). Four invariants, one on the other, for any number
of events in any order.

- `CourseInv`: a robot is where its route has it, what it drove is a prefix of
  its route, routes are walks, and the routes of robots still to be moved end at
  their goals (`RoutesStayOnCourse`). A repair splices a suffix to what was
  driven, and `SpliceIsRoute`, `ReplansAreRoutes` say what comes of that.
- `TaskInv`: the two pointers agree, and a released task is with nobody while it
  is offered (`TasksStayServed`).
- `SafeInv`: the routes that are settled, all but those of robots still to be
  repaired, are clear of obstacles, of failed robots and of each other, and the
  table at hand holds all of them (`TableIsCurrent`), so what a replan finds in
  it is clear of all of them (`ReplansKeepClear`) and joining the table cannot
  raise (`NoTableClash`). `SharersStay` is what keeps a robot that stands on a
  failed one's cell from being stopped by the check of the joint step. Hence
  `RepairsAreSafe`.
- `VerdictInv`: "ok" is said after the closing replay, which finds every meeting
  and every swap (`ReplayFindsMeetings`, `ReplayFindsSwaps`); and as long as
  nothing happens the plan that passed pre-flight is driven (`QuietInv`), so the
  trace passes, too (`TheVerdictIsRight`).

`OthersAreLeftAlone`, the action property, needs `CourseInv` only: the robots
that are repaired are those in the way of the event.

*Start-up* (`StartupProofs`). A process that found the table empty may insert
much later. `AccountsHaveAnOrigin` is inductive only with `LateInsertsAreRefused`
(if the table is not empty any more, the name is taken, so the unique key refuses
the second row) and `RegistrationsAreByAdmins`. From `StartInvariance`:
`EveryAccountHasAnOrigin`, `OnlyOutagesLockOut`. `WaitInv` adds what a process
has slept after so many attempts: no more than the cap for each but the first,
and no more than the doubled delays come to, which with powers of two as a
recursive function (`TwoTo`) is one less than the next power. Hence `WaitsEnd`.

*Services* (`FleetServiceProofs`). The properties speak of tables, the invariant
of requests: `ServiceInv` says of every request that has decided that its
writes, put into the tables of now, keep what the tables have (`StagedInv`),
unless another request changed rows meanwhile; and of an allocation under way
that its plan is made of tasks that are pending (`PlanInv`). A commit either
changes no row, or marks every other request in flight as raced
(`CommitKeepsRequests`); every other step leaves the rows alone
(`QuietStep`). From it: `PointersAlwaysResolve`, `SerialHistoriesAreSafe`,
`TasksFollowTheirLifecycle`, for any number of requests, robots and tasks.
`KeysInv` adds what a request that has decided will do to which rows, and that a
row whose creation was answered stays until its deletion is (`KeysAlwaysHold`).
Since no request decides on a row that is not there, and a commit takes away the
row of its deletion and no other, an update loses a row only to the deletion of
that row by another request, while its own is in between decision and flush
(`OnlyDeletionsCauseErrors`). `AllocationInv`
adds what an unhindered allocation has read, and that robots and tasks of its
matching point at each other in what it writes (`AllocationsTakeWhatIsFree`).

*Dashboard* (`FleetServiceProofs`, last part). A script waits for one request at
a time; so, with nothing late, the one it waits for is the only one under way
(`InFlight`), and what that request has decided is what the tables will be.
`DashInv` speaks of the tables as they are, or as the awaited request will leave
them. Of a press nothing has disturbed it says how far Initialise has come
(`Halfway`: which rows are gone, which are the demo's, which ids are left), and
that the request it waits for will succeed (`WillSucceed`: its flush meets no key
and misses no row), which is what a refusal half way would need. Of an operator
who has met no fault it says that the rows are `Sound` for the session's
assignments: robot and task agree, the robot the session gave a task has that
task or none, and an active task is with that robot or with the spare. That is
what makes the write of a failure harmless although the session may be older
than the rows: the task taken from the failed robot is the only one it can have.
From it: `InitialiseLeavesTheDemo` and `TwoSidesAlwaysAgree`. Every
fault, and every request that is late, ends both promises until the next press
or for good, as the properties say, and `DashInv` keeps only its types then.

*Allocation* (`AllocationProofs`). `AllocInv` says where greedy is in its order
of the tasks, what is settled already (`GreedyLeavesNothing`), that the prices
are those of the cells and that the books agree with the pairs. The sums are
folds over sets: that they do not depend on the order, grow with the set and are
bounded are lemmas here. With them the one objective of CP-SAT is lexicographic:
a task weighs more than all costs and ids together, a unit of cost more than all
ids, so a best value means most tasks, then least cost; and exchanging a robot
for a free one of lower id at the same cost would be better still
(`OptimalIsOptimal`). Both need no bound on robots, tasks or prices.

*Route search* (`RouteProofs`). `SearchInv`: a cost in `gScore` is never below
the number of steps the floor needs and a finalized cell's is that number
(`CostsAreBounds`); whoever came from somewhere came from a finalized cell
(`CameFromFinalized`); and every cell on the border has an entry at its present
cost, whatever stale ones the heap holds besides (`SearchGoesOn`). By induction
over the rings, on the way to any cell that is not finalized there is an entry
whose cost is final and whose estimate is no higher (`SomethingIsFinal`), since
Manhattan distance changes by at most one per step; so what is popped first is
popped at its final cost (`PoppedIsCheapest`), and an empty heap means that there
is no way. When the goal is popped the invariant says which cells are finalized
(`ExpandedCells`), and on the walk back costs count the cells, so none comes
twice. From it: `RoutesFoundAreShortest`, `GuidesSaveWork`. The reference, the
cells within n steps, is exact: `StepsAreExact`.

*Induction* (`GridProofs`). The induction theorems of the library take an
operator and cannot be instantiated here. The proofs use sets instead: a set of
numbers that is not empty has a least element (`LeastNumber`, from the
well-foundedness of `<`), so a set that has m and with i also i + 1 has all
numbers from m to n (`IntervalInduction`); over the subsets of a finite set
likewise (`SubsetInduction`, in `AllocationProofs`). With it a recursive function over
layers of cells exists and satisfies its equation (`LayersExist`), distances are
bounded by steps, and as many steps as there are cells reach all that can be
reached (`ReachIsClosed`).

Model-checked only. Liveness (`RunEnds`, `EveryRunEnds`, `StartsEnd`,
`PlannersAnswer`, `PressesEnd`), which the prover does not treat. Every other
property of a passing run is a theorem.

## 5. Plan

1. An abstract specification of recovery (a stopped robot stands still for
   good; a released task is pending, failed or with exactly one robot) as a
   refinement; its ingredients are theorems already.

## 6. Not modelled

Of recovery, the counts and times of the report, failures of robots the
simulator does not know (they only leave a note in the report) and obstacles
refused for other reasons than a robot standing there are left out. Removing a
robot from the fleet in the middle of an executing run is left out: nothing in
the code removes robots concurrently, and `get_robot` would raise.

Of the services, those that only compute on a world sent with the request
(planning, coordination, execution, recovery without commit) write no row: the
core they call is in the other modules. Listings, history tables and schemas
are left out, and so are logging in and the checks of passwords. Of the
dashboard, planning, the dynamic obstacle, tables, log, metrics and drawing only
change what is shown. `Robot.load` and `unload`, and `release_robot` of the
reservation table, have no caller in `robotics/`.

Scenario builder, renderer, HTTP routing, scripts, benchmarks, migrations and
packaging hold no state the system depends on.
